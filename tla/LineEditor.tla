----------------------------- MODULE LineEditor -----------------------------
(* What the editor of kw_ioctl's questions promises: one line with a       *)
(* cursor in it, changed only where the cursor is or by recalling what was *)
(* entered before, and entered as the number or text it shows.  Of decimal *)
(* numbers of more than five digits it does not promise the last.          *)
EXTENDS Integers, Sequences, FiniteSets, SequencesExt

VARIABLES line, cursor, mode, limit, \* the line and the question it answers
          nums, texts                \* what was entered

vars == <<line, cursor, mode, limit, nums, texts>>

Number(digits, base) == FoldLeft(LAMBDA v, d : v * base + d, 0, digits)
HexDigits(v, n) == [k \in 1 .. n |-> (v \div 16 ^ (n - k)) % 16]

LineInit == line = <<>> /\ cursor = 0 /\ nums = {0} /\ texts = {<<>>}

Insert ==
  /\ Len(line) < limit
  /\ \E ch \in 0 .. 15 : line' = InsertAt(line, cursor + 1, ch)
  /\ cursor' = cursor + 1

Backspace == cursor > 0 /\ line' = RemoveAt(line, cursor) /\ cursor' = cursor - 1

Delete == cursor < Len(line) /\ line' = RemoveAt(line, cursor + 1) /\ UNCHANGED cursor

Turn ==
  /\ mode = "DEC" /\ cursor < Len(line)
  /\ \E d \in {1, 9} : line' = [line EXCEPT ![cursor + 1] = (@ + d) % 10]
  /\ UNCHANGED cursor

Move == cursor' \in 0 .. Len(line) /\ UNCHANGED line

Recall ==
  /\ \/ mode = "HEX" /\ line' \in {HexDigits(v, limit) : v \in nums}
     \/ mode = "STR" /\ line' \in texts
  /\ cursor' \in 0 .. Len(line')

Edit == (Insert \/ Backspace \/ Delete \/ Turn \/ Move \/ Recall) /\ UNCHANGED <<mode, limit, nums, texts>>

Entered(v) == nums' = nums \union {v} /\ UNCHANGED texts
Misread == nums \subseteq nums' /\ Cardinality(nums' \ nums) <= 1 /\ UNCHANGED texts

Enter ==
  /\ line' = <<>> /\ cursor' = 0
  /\ \/ mode = "STR" /\ texts' = texts \union {line} /\ UNCHANGED nums
     \/ mode = "HEX" /\ Entered(Number(line, 16))
     \/ mode = "DEC" /\ Entered(Number(line, 10))
     \/ mode = "DEC" /\ Number(line, 10) >= 100000 /\ Misread

LineNext == Edit \/ Enter

LineSpec == LineInit /\ [][LineNext]_vars
=============================================================================
