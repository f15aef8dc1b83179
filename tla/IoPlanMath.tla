----------------------------- MODULE IoPlanMath -----------------------------
(***************************************************************************)
(* The arithmetic of NVMeIoEx::_io_plan_scheduler: how a range of nlb      *)
(* logical blocks is divided among the plans (software queues) of a task.  *)
(*                                                                         *)
(*   nlb  number of blocks of the range                                    *)
(*   qd   queue depth asked for                                            *)
(*   cap  oneTimeNlb, the blocks that fit one plan buffer                  *)
(*                                                                         *)
(* Plans are numbered from 0 and their first block is given relative to    *)
(* the start of the range.                                                 *)
(***************************************************************************)
EXTENDS Integers

LesserOf(a, b) == IF a > b THEN b ELSE a

(* Buffers needed to carry the whole range once: (nlb+cap-1)/cap.          *)
BufferLoads(nlb, cap) == (nlb + cap - 1) \div cap

(* Mutated forms of the definitions below, slips that the properties of    *)
(* the modules using them must notice.                                     *)
PlanEndWithoutRemainder(i, nlb, qd, cap) ==
  (i + 1) * (nlb \div LesserOf(qd, BufferLoads(nlb, cap)))
PlanEndBeyond(i, nlb, qd, cap) ==
  LET n == LesserOf(qd, BufferLoads(nlb, cap))
  IN IF i = n - 1 THEN nlb + 1 ELSE (i + 1) * (nlb \div n)

(* A plan is only created when there is a buffer load for it.  An empty    *)
(* range has no plan at all.                                               *)
PlanCount(nlb, qd, cap) ==
  IF nlb = 0 THEN 0 ELSE LesserOf(qd, BufferLoads(nlb, cap))

(* Blocks of every plan but the last.                                      *)
PlanShare(nlb, qd, cap) == nlb \div PlanCount(nlb, qd, cap)

PlanBegin(i, nlb, qd, cap) == i * PlanShare(nlb, qd, cap)

(* The last plan takes what the division left over.                        *)
PlanEnd(i, nlb, qd, cap) ==
  IF i = PlanCount(nlb, qd, cap) - 1
  THEN nlb
  ELSE PlanBegin(i, nlb, qd, cap) + PlanShare(nlb, qd, cap)

PlanLength(i, nlb, qd, cap) ==
  PlanEnd(i, nlb, qd, cap) - PlanBegin(i, nlb, qd, cap)
=============================================================================
