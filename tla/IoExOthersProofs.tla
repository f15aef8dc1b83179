-------------------------- MODULE IoExOthersProofs --------------------------
(***************************************************************************)
(* What IoExProofs shows of the engine, for the classes of IoExOthers.     *)
(* The variables of IoExCommand play no part in it.                        *)
(***************************************************************************)
EXTENDS IoExOthers, TLAPS

FillProofs == INSTANCE IoExProofs WITH
  Kind <- "fill", Sequential <- TRUE, Uniform <- FALSE, Stamp <- TRUE,
  Faults <- FillFaults, DiskContents <- OldDisk,
  step <- "routine", lastFailLba <- 0, dump <- 0

CompareProofs == INSTANCE IoExProofs WITH
  Kind <- "compare", Sequential <- FALSE, Uniform <- FALSE, Stamp <- TRUE,
  Faults <- CompareFaults, DiskContents <- AnyDisk,
  step <- "routine", lastFailLba <- 0, dump <- 0

ReadProofs == INSTANCE IoExProofs WITH
  Kind <- "read", Sequential <- FALSE, Uniform <- FALSE, Stamp <- TRUE,
  Faults <- ReadFaults, DiskContents <- GoodDisk,
  step <- "routine", lastFailLba <- 0, dump <- 0

LEMMA FillAssumptions == FillProofs!EngineAssumption /\ FillProofs!DiskAssumption
BY OthersAssumption
DEF FillProofs!EngineAssumption, FillProofs!DiskAssumption, FillProofs!Extent, FillProofs!Block, Blocks, Contents

LEMMA CompareAssumptions == CompareProofs!EngineAssumption /\ CompareProofs!DiskAssumption /\ CompareProofs!NoneLost
BY OthersAssumption
DEF CompareProofs!EngineAssumption, CompareProofs!DiskAssumption, CompareProofs!Extent, CompareProofs!Block,
    CompareProofs!NoneLost, Blocks, Contents

LEMMA ReadAssumptions == ReadProofs!EngineAssumption /\ ReadProofs!DiskAssumption
BY OthersAssumption
DEF ReadProofs!EngineAssumption, ReadProofs!DiskAssumption, ReadProofs!Extent, ReadProofs!Block, Blocks, Contents

LEMMA FillHandlers == FillProofs!Spec => []FillProofs!CancelSeesAssignedHandlers
BY FillAssumptions, FillProofs!HandlersAssigned DEF FillProofs!HandlersAssigned

LEMMA CompareVerdict == CompareProofs!Spec => []CompareProofs!VerdictSound
BY CompareAssumptions, CompareProofs!Verdict DEF CompareProofs!Verdict

LEMMA FillJob == FillProofs!Spec => FillProofs!Job!Spec
BY FillAssumptions, FillProofs!JobImplemented DEF FillProofs!JobImplemented, FillProofs!ImplementsRangeJob

LEMMA CompareJob == CompareProofs!Spec => CompareProofs!Job!Spec
BY CompareAssumptions, CompareProofs!JobImplemented DEF CompareProofs!JobImplemented, CompareProofs!ImplementsRangeJob

LEMMA ReadJob == ReadProofs!Spec => ReadProofs!Job!Spec
BY ReadAssumptions, ReadProofs!JobImplemented DEF ReadProofs!JobImplemented, ReadProofs!ImplementsRangeJob

-----------------------------------------------------------------------------
(* The engine of IoExProofs is that of IoExOthers: all of its definitions  *)
(* are the same.                                                           *)
LEMMA FillSame == (Seq!Init <=> FillProofs!Init) /\ (Seq!Next <=> FillProofs!Next) /\ Seq!vars = FillProofs!vars
BY DEF
    Seq!LesserOf, Seq!BufferLoads, Seq!PlanCount, Seq!PlanShare, Seq!PlanBegin, Seq!PlanEnd,
    Seq!PlanLength, Seq!NumPlans, Seq!Plans, Seq!Extent, Seq!Background, Seq!PatternAt,
    Seq!HeaderAt, Seq!vars, Seq!requestVars, Seq!resultVars, Seq!PingPong, Seq!Memory,
    Seq!PreMemory, Seq!FillPattern, Seq!StampHeaders, Seq!NextOwnSlice, Seq!NextSharedSlice,
    Seq!AdvanceCursor, Seq!NextSlice, Seq!PreparedForIssue, Seq!ReadBack, Seq!HeaderErrors,
    Seq!BodyErrors, Seq!FirstOf, Seq!Compares, Seq!Finished, Seq!CompletionStatus,
    Seq!ErrOffset, Seq!NewPlan, Seq!NoPlan, Seq!Init, Seq!Routine, Seq!Scanning,
    Seq!StillRunning, Seq!IssueNext, Seq!PreFill, Seq!PlanExhausted, Seq!PlanFailed,
    Seq!CancelPlan, Seq!RemainingBlocks, Seq!EndPass, Seq!Engine, Seq!MoveBlocks, Seq!Finish,
    Seq!Complete, Seq!CompleteShort, Seq!CompleteWithError, Seq!Request, Seq!Next,
    FillProofs!LesserOf, FillProofs!BufferLoads, FillProofs!PlanCount, FillProofs!PlanShare,
    FillProofs!PlanBegin, FillProofs!PlanEnd, FillProofs!PlanLength, FillProofs!NumPlans,
    FillProofs!Plans, FillProofs!Extent, FillProofs!Background, FillProofs!PatternAt,
    FillProofs!HeaderAt, FillProofs!vars, FillProofs!requestVars, FillProofs!resultVars,
    FillProofs!PingPong, FillProofs!Memory, FillProofs!PreMemory, FillProofs!FillPattern,
    FillProofs!StampHeaders, FillProofs!NextOwnSlice, FillProofs!NextSharedSlice,
    FillProofs!AdvanceCursor, FillProofs!NextSlice, FillProofs!PreparedForIssue,
    FillProofs!ReadBack, FillProofs!HeaderErrors, FillProofs!BodyErrors, FillProofs!FirstOf,
    FillProofs!Compares, FillProofs!Finished, FillProofs!CompletionStatus, FillProofs!ErrOffset,
    FillProofs!NewPlan, FillProofs!NoPlan, FillProofs!Init, FillProofs!Routine,
    FillProofs!Scanning, FillProofs!StillRunning, FillProofs!IssueNext, FillProofs!PreFill,
    FillProofs!PlanExhausted, FillProofs!PlanFailed, FillProofs!CancelPlan,
    FillProofs!RemainingBlocks, FillProofs!EndPass, FillProofs!Engine, FillProofs!MoveBlocks,
    FillProofs!Finish, FillProofs!Complete, FillProofs!CompleteShort,
    FillProofs!CompleteWithError, FillProofs!Request, FillProofs!Next

LEMMA CompareSame == (Compare!Init <=> CompareProofs!Init) /\ (Compare!Next <=> CompareProofs!Next) /\ Compare!vars = CompareProofs!vars
BY DEF
    Compare!LesserOf, Compare!BufferLoads, Compare!PlanCount, Compare!PlanShare,
    Compare!PlanBegin, Compare!PlanEnd, Compare!PlanLength, Compare!NumPlans, Compare!Plans,
    Compare!Extent, Compare!Background, Compare!PatternAt, Compare!HeaderAt, Compare!vars,
    Compare!requestVars, Compare!resultVars, Compare!PingPong, Compare!Memory,
    Compare!PreMemory, Compare!FillPattern, Compare!StampHeaders, Compare!NextOwnSlice,
    Compare!NextSharedSlice, Compare!AdvanceCursor, Compare!NextSlice, Compare!PreparedForIssue,
    Compare!ReadBack, Compare!HeaderErrors, Compare!BodyErrors, Compare!FirstOf,
    Compare!Compares, Compare!Finished, Compare!CompletionStatus, Compare!ErrOffset,
    Compare!NewPlan, Compare!NoPlan, Compare!Init, Compare!Routine, Compare!Scanning,
    Compare!StillRunning, Compare!IssueNext, Compare!PreFill, Compare!PlanExhausted,
    Compare!PlanFailed, Compare!CancelPlan, Compare!RemainingBlocks, Compare!EndPass,
    Compare!Engine, Compare!MoveBlocks, Compare!Finish, Compare!Complete, Compare!CompleteShort,
    Compare!CompleteWithError, Compare!Request, Compare!Next,
    CompareProofs!LesserOf, CompareProofs!BufferLoads, CompareProofs!PlanCount,
    CompareProofs!PlanShare, CompareProofs!PlanBegin, CompareProofs!PlanEnd,
    CompareProofs!PlanLength, CompareProofs!NumPlans, CompareProofs!Plans, CompareProofs!Extent,
    CompareProofs!Background, CompareProofs!PatternAt, CompareProofs!HeaderAt,
    CompareProofs!vars, CompareProofs!requestVars, CompareProofs!resultVars,
    CompareProofs!PingPong, CompareProofs!Memory, CompareProofs!PreMemory,
    CompareProofs!FillPattern, CompareProofs!StampHeaders, CompareProofs!NextOwnSlice,
    CompareProofs!NextSharedSlice, CompareProofs!AdvanceCursor, CompareProofs!NextSlice,
    CompareProofs!PreparedForIssue, CompareProofs!ReadBack, CompareProofs!HeaderErrors,
    CompareProofs!BodyErrors, CompareProofs!FirstOf, CompareProofs!Compares,
    CompareProofs!Finished, CompareProofs!CompletionStatus, CompareProofs!ErrOffset,
    CompareProofs!NewPlan, CompareProofs!NoPlan, CompareProofs!Init, CompareProofs!Routine,
    CompareProofs!Scanning, CompareProofs!StillRunning, CompareProofs!IssueNext,
    CompareProofs!PreFill, CompareProofs!PlanExhausted, CompareProofs!PlanFailed,
    CompareProofs!CancelPlan, CompareProofs!RemainingBlocks, CompareProofs!EndPass,
    CompareProofs!Engine, CompareProofs!MoveBlocks, CompareProofs!Finish,
    CompareProofs!Complete, CompareProofs!CompleteShort, CompareProofs!CompleteWithError,
    CompareProofs!Request, CompareProofs!Next

LEMMA ReadSame == (DummyRead!Init <=> ReadProofs!Init) /\ (DummyRead!Next <=> ReadProofs!Next) /\ DummyRead!vars = ReadProofs!vars
BY DEF
    DummyRead!LesserOf, DummyRead!BufferLoads, DummyRead!PlanCount, DummyRead!PlanShare,
    DummyRead!PlanBegin, DummyRead!PlanEnd, DummyRead!PlanLength, DummyRead!NumPlans,
    DummyRead!Plans, DummyRead!Extent, DummyRead!Background, DummyRead!PatternAt,
    DummyRead!HeaderAt, DummyRead!vars, DummyRead!requestVars, DummyRead!resultVars,
    DummyRead!PingPong, DummyRead!Memory, DummyRead!PreMemory, DummyRead!FillPattern,
    DummyRead!StampHeaders, DummyRead!NextOwnSlice, DummyRead!NextSharedSlice,
    DummyRead!AdvanceCursor, DummyRead!NextSlice, DummyRead!PreparedForIssue,
    DummyRead!ReadBack, DummyRead!HeaderErrors, DummyRead!BodyErrors, DummyRead!FirstOf,
    DummyRead!Compares, DummyRead!Finished, DummyRead!CompletionStatus, DummyRead!ErrOffset,
    DummyRead!NewPlan, DummyRead!NoPlan, DummyRead!Init, DummyRead!Routine, DummyRead!Scanning,
    DummyRead!StillRunning, DummyRead!IssueNext, DummyRead!PreFill, DummyRead!PlanExhausted,
    DummyRead!PlanFailed, DummyRead!CancelPlan, DummyRead!RemainingBlocks, DummyRead!EndPass,
    DummyRead!Engine, DummyRead!MoveBlocks, DummyRead!Finish, DummyRead!Complete,
    DummyRead!CompleteShort, DummyRead!CompleteWithError, DummyRead!Request, DummyRead!Next,
    ReadProofs!LesserOf, ReadProofs!BufferLoads, ReadProofs!PlanCount, ReadProofs!PlanShare,
    ReadProofs!PlanBegin, ReadProofs!PlanEnd, ReadProofs!PlanLength, ReadProofs!NumPlans,
    ReadProofs!Plans, ReadProofs!Extent, ReadProofs!Background, ReadProofs!PatternAt,
    ReadProofs!HeaderAt, ReadProofs!vars, ReadProofs!requestVars, ReadProofs!resultVars,
    ReadProofs!PingPong, ReadProofs!Memory, ReadProofs!PreMemory, ReadProofs!FillPattern,
    ReadProofs!StampHeaders, ReadProofs!NextOwnSlice, ReadProofs!NextSharedSlice,
    ReadProofs!AdvanceCursor, ReadProofs!NextSlice, ReadProofs!PreparedForIssue,
    ReadProofs!ReadBack, ReadProofs!HeaderErrors, ReadProofs!BodyErrors, ReadProofs!FirstOf,
    ReadProofs!Compares, ReadProofs!Finished, ReadProofs!CompletionStatus, ReadProofs!ErrOffset,
    ReadProofs!NewPlan, ReadProofs!NoPlan, ReadProofs!Init, ReadProofs!Routine,
    ReadProofs!Scanning, ReadProofs!StillRunning, ReadProofs!IssueNext, ReadProofs!PreFill,
    ReadProofs!PlanExhausted, ReadProofs!PlanFailed, ReadProofs!CancelPlan,
    ReadProofs!RemainingBlocks, ReadProofs!EndPass, ReadProofs!Engine, ReadProofs!MoveBlocks,
    ReadProofs!Finish, ReadProofs!Complete, ReadProofs!CompleteShort,
    ReadProofs!CompleteWithError, ReadProofs!Request, ReadProofs!Next

LEMMA FillJobSame == Seq!Todo = FillProofs!Todo /\ Seq!InFlight = FillProofs!InFlight /\ Seq!Done = FillProofs!Done /\ Seq!Outcome = FillProofs!Outcome
BY DEF
    Seq!LesserOf, Seq!Plans, Seq!NumPlans, Seq!PlanCount, Seq!BufferLoads, Seq!PlanShare,
    Seq!Extent, Seq!Scheduled, Seq!Slice, Seq!Todo, Seq!InFlight, Seq!Done, Seq!Outcome,
    FillProofs!LesserOf, FillProofs!Plans, FillProofs!NumPlans, FillProofs!PlanCount,
    FillProofs!BufferLoads, FillProofs!PlanShare, FillProofs!Extent, FillProofs!Scheduled,
    FillProofs!Slice, FillProofs!Todo, FillProofs!InFlight, FillProofs!Done, FillProofs!Outcome

LEMMA CompareJobSame == Compare!Todo = CompareProofs!Todo /\ Compare!InFlight = CompareProofs!InFlight /\ Compare!Done = CompareProofs!Done /\ Seq!Outcome = CompareProofs!Outcome
BY DEF
    Compare!LesserOf, Compare!Plans, Compare!NumPlans, Compare!PlanCount, Compare!BufferLoads,
    Compare!PlanShare, Compare!Extent, Compare!Scheduled, Compare!Slice, Compare!Todo,
    Compare!InFlight, Compare!Done, Seq!Outcome,
    CompareProofs!LesserOf, CompareProofs!Plans, CompareProofs!NumPlans,
    CompareProofs!PlanCount, CompareProofs!BufferLoads, CompareProofs!PlanShare,
    CompareProofs!Extent, CompareProofs!Scheduled, CompareProofs!Slice, CompareProofs!Todo,
    CompareProofs!InFlight, CompareProofs!Done, CompareProofs!Outcome

LEMMA ReadJobSame == Compare!Todo = ReadProofs!Todo /\ Compare!InFlight = ReadProofs!InFlight /\ Compare!Done = ReadProofs!Done /\ Seq!Outcome = ReadProofs!Outcome
BY DEF
    Compare!LesserOf, Compare!Plans, Compare!NumPlans, Compare!PlanCount, Compare!BufferLoads,
    Compare!PlanShare, Compare!Extent, Compare!Scheduled, Compare!Slice, Compare!Todo,
    Compare!InFlight, Compare!Done, Seq!Outcome,
    ReadProofs!LesserOf, ReadProofs!Plans, ReadProofs!NumPlans, ReadProofs!PlanCount,
    ReadProofs!BufferLoads, ReadProofs!PlanShare, ReadProofs!Extent, ReadProofs!Scheduled,
    ReadProofs!Slice, ReadProofs!Todo, ReadProofs!InFlight, ReadProofs!Done, ReadProofs!Outcome

-----------------------------------------------------------------------------
(* A class that has begun runs as the engine does.                         *)
LEMMA Steps == OthersSpec => OthersSteps
BY PTL DEF OthersSpec

LEMMA FillRuns == OthersSteps /\ part = "seq" => FillProofs!Spec /\ [](part = "seq")
<1>1. OthersInit /\ part = "seq" => FillProofs!Init
  BY FillSame DEF OthersInit
<1>2. part = "seq" /\ [OthersNext]_<<part, vars>> => [FillProofs!Next]_(FillProofs!vars) /\ (part = "seq")'
  BY FillSame DEF OthersNext, vars, FillProofs!vars
<1> QED  BY <1>1, <1>2, PTL DEF OthersSteps, FillProofs!Spec

LEMMA CompareRuns == OthersSteps /\ part = "compare" => CompareProofs!Spec /\ [](part = "compare")
<1>1. OthersInit /\ part = "compare" => CompareProofs!Init
  BY CompareSame DEF OthersInit
<1>2. part = "compare" /\ [OthersNext]_<<part, vars>> => [CompareProofs!Next]_(CompareProofs!vars) /\ (part = "compare")'
  BY CompareSame DEF OthersNext, vars, CompareProofs!vars
<1> QED  BY <1>1, <1>2, PTL DEF OthersSteps, CompareProofs!Spec

LEMMA ReadRuns == OthersSteps /\ part = "read" => ReadProofs!Spec /\ [](part = "read")
<1>1. OthersInit /\ part = "read" => ReadProofs!Init
  BY ReadSame DEF OthersInit
<1>2. part = "read" /\ [OthersNext]_<<part, vars>> => [ReadProofs!Next]_(ReadProofs!vars) /\ (part = "read")'
  BY ReadSame DEF OthersNext, vars, ReadProofs!vars
<1> QED  BY <1>1, <1>2, PTL DEF OthersSteps, ReadProofs!Spec

(* Theorem: cancel() finds every plan of a sequential fill with a handler  *)
(* whose buffer was assigned, for every range, depth and buffer size.      *)
THEOREM HandlersAssigned == OthersSpec => []CancelSeesAssignedHandlers
<1>1. ~(part = "seq") /\ [OthersNext]_<<part, vars>> => (~(part = "seq"))'
  BY DEF OthersNext
<1>2. ~(part = "seq") => CancelSeesAssignedHandlers
  BY DEF CancelSeesAssignedHandlers
<1>3. FillProofs!CancelSeesAssignedHandlers => CancelSeesAssignedHandlers
  BY FillJobSame DEF CancelSeesAssignedHandlers, Seq!CancelSeesAssignedHandlers, FillProofs!CancelSeesAssignedHandlers,
     Seq!Plans, Seq!NumPlans, Seq!PlanCount, Seq!BufferLoads, Seq!LesserOf, FillProofs!Plans, FillProofs!NumPlans,
     FillProofs!PlanCount, FillProofs!BufferLoads, FillProofs!LesserOf
<1> QED  BY <1>1, <1>2, <1>3, FillRuns, FillHandlers, Steps, PTL DEF OthersSteps

(* Theorem: the verdict of a compare is sound, whatever is on the disk.    *)
THEOREM Verdict == OthersSpec => []VerdictSound
<1>1. ~(part = "compare") /\ [OthersNext]_<<part, vars>> => (~(part = "compare"))'
  BY DEF OthersNext
<1>2. ~(part = "compare") => VerdictSound
  BY DEF VerdictSound
<1>3. CompareProofs!VerdictSound => VerdictSound
  BY DEF VerdictSound, Compare!VerdictSound, CompareProofs!VerdictSound, Compare!Extent, CompareProofs!Extent,
     Compare!Expected, CompareProofs!Expected, Compare!HeaderAt, CompareProofs!HeaderAt,
     Compare!PatternAt, CompareProofs!PatternAt, Compare!Background, CompareProofs!Background
<1> QED  BY <1>1, <1>2, <1>3, CompareRuns, CompareVerdict, Steps, PTL DEF OthersSteps

-----------------------------------------------------------------------------
(* The job of a class is the job of the module. *)
LEMMA FillJobBegins == part = "seq" /\ FillProofs!Job!Init => Job!Init
BY FillJobSame DEF Job!Init, FillProofs!Job!Init, Blocks, FillProofs!Extent

LEMMA FillJobSteps ==
  part = "seq" /\ (part = "seq")' /\ [FillProofs!Job!Next]_(FillProofs!Job!vars) => [Job!Next]_(Job!vars)
<1> SUFFICES ASSUME part = "seq", part' = "seq", [FillProofs!Job!Next]_(FillProofs!Job!vars)
             PROVE  [Job!Next]_(Job!vars)
  OBVIOUS
<1>1. (Seq!Todo = FillProofs!Todo /\ Seq!InFlight = FillProofs!InFlight /\ Seq!Done = FillProofs!Done /\ Seq!Outcome = FillProofs!Outcome)'
  BY FillJobSame, PTL
<1> QED  BY FillJobSame, <1>1 DEF Job!Next, Job!vars, Job!Advance, Job!Succeed, Job!Fail,
            FillProofs!Job!Next, FillProofs!Job!vars, FillProofs!Job!Advance, FillProofs!Job!Succeed, FillProofs!Job!Fail, Blocks, FillProofs!Extent

LEMMA CompareJobBegins == part = "compare" /\ CompareProofs!Job!Init => Job!Init
BY CompareJobSame DEF Job!Init, CompareProofs!Job!Init, Blocks, CompareProofs!Extent

LEMMA CompareJobSteps ==
  part = "compare" /\ (part = "compare")' /\ [CompareProofs!Job!Next]_(CompareProofs!Job!vars) => [Job!Next]_(Job!vars)
<1> SUFFICES ASSUME part = "compare", part' = "compare", [CompareProofs!Job!Next]_(CompareProofs!Job!vars)
             PROVE  [Job!Next]_(Job!vars)
  OBVIOUS
<1>1. (Compare!Todo = CompareProofs!Todo /\ Compare!InFlight = CompareProofs!InFlight /\ Compare!Done = CompareProofs!Done /\ Seq!Outcome = CompareProofs!Outcome)'
  BY CompareJobSame, PTL
<1> QED  BY CompareJobSame, <1>1 DEF Job!Next, Job!vars, Job!Advance, Job!Succeed, Job!Fail,
            CompareProofs!Job!Next, CompareProofs!Job!vars, CompareProofs!Job!Advance, CompareProofs!Job!Succeed, CompareProofs!Job!Fail, Blocks, CompareProofs!Extent

LEMMA ReadJobBegins == part = "read" /\ ReadProofs!Job!Init => Job!Init
BY ReadJobSame DEF Job!Init, ReadProofs!Job!Init, Blocks, ReadProofs!Extent

LEMMA ReadJobSteps ==
  part = "read" /\ (part = "read")' /\ [ReadProofs!Job!Next]_(ReadProofs!Job!vars) => [Job!Next]_(Job!vars)
<1> SUFFICES ASSUME part = "read", part' = "read", [ReadProofs!Job!Next]_(ReadProofs!Job!vars)
             PROVE  [Job!Next]_(Job!vars)
  OBVIOUS
<1>1. (Compare!Todo = ReadProofs!Todo /\ Compare!InFlight = ReadProofs!InFlight /\ Compare!Done = ReadProofs!Done /\ Seq!Outcome = ReadProofs!Outcome)'
  BY ReadJobSame, PTL
<1> QED  BY ReadJobSame, <1>1 DEF Job!Next, Job!vars, Job!Advance, Job!Succeed, Job!Fail,
            ReadProofs!Job!Next, ReadProofs!Job!vars, ReadProofs!Job!Advance, ReadProofs!Job!Succeed, ReadProofs!Job!Fail, Blocks, ReadProofs!Extent

(* Theorem: a task of every class takes up each block of its range once,   *)
(* keeps it in flight until it was dealt with, and reports success only    *)
(* when all were: it implements RangeJob.                                  *)
THEOREM EveryClassJob == OthersSpec => EveryClassImplementsRangeJob
<1>1. OthersSpec /\ part = "seq" => Job!Spec
  BY FillJobBegins, FillJobSteps, FillRuns, FillJob, Steps, PTL DEF FillProofs!Job!Spec, Job!Spec
<1>2. OthersSpec /\ part = "compare" => Job!Spec
  BY CompareJobBegins, CompareJobSteps, CompareRuns, CompareJob, Steps, PTL DEF CompareProofs!Job!Spec, Job!Spec
<1>3. OthersSpec /\ part = "read" => Job!Spec
  BY ReadJobBegins, ReadJobSteps, ReadRuns, ReadJob, Steps, PTL DEF ReadProofs!Job!Spec, Job!Spec
<1>4. OthersInit => part = "seq" \/ part = "compare" \/ part = "read"
  BY DEF OthersInit
<1> QED  BY <1>1, <1>2, <1>3, <1>4, Steps, PTL DEF OthersSteps, EveryClassImplementsRangeJob
=============================================================================
