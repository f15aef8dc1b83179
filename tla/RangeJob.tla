------------------------------ MODULE RangeJob ------------------------------
(***************************************************************************)
(* What an I/O extension task promises, whatever task class and however    *)
(* many plans: every block of its range is taken up once, is in flight     *)
(* until it has been dealt with, and success is reported only when every   *)
(* block has been dealt with.  A task may fail, but only over a block in   *)
(* flight or before it has taken up anything.                              *)
(***************************************************************************)
CONSTANT Blocks

VARIABLES
  todo,     \* blocks not taken up yet
  flying,   \* blocks in flight
  done,     \* blocks dealt with
  outcome   \* "running", "success" or "failure"

vars == <<todo, flying, done, outcome>>

Init ==
  /\ todo = Blocks
  /\ flying = {}
  /\ done = {}
  /\ outcome = "running"

(* Some blocks in flight are dealt with and others are taken up.           *)
Advance(finished, taken) ==
  /\ outcome = "running"
  /\ finished \subseteq flying
  /\ taken \subseteq todo
  /\ todo' = todo \ taken
  /\ flying' = (flying \ finished) \cup taken
  /\ done' = done \cup finished
  /\ UNCHANGED outcome

Succeed ==
  /\ outcome = "running"
  /\ todo = {}
  /\ flying = {}
  /\ outcome' = "success"
  /\ UNCHANGED <<todo, flying, done>>

Fail ==
  /\ outcome = "running"
  /\ flying # {} \/ todo = Blocks
  /\ outcome' = "failure"
  /\ UNCHANGED <<todo, flying, done>>

Next ==
  \/ \E finished \in SUBSET flying, taken \in SUBSET todo : Advance(finished, taken)
  \/ Succeed
  \/ Fail

Spec == Init /\ [][Next]_vars
=============================================================================
