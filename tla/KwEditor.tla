------------------------------ MODULE KwEditor ------------------------------
(* How the questions of kw_ioctl's menus are answered: the line editor of  *)
(* menu_ctrl.c with its histories, numbers in menu_key_when_parameter,     *)
(* text in menu_key_when_string_parameter, where every key loads the list  *)
(* of texts from its file (history_list.cpp).  A character is a number.    *)
EXTENDS Integers, Sequences, FiniteSets, Functions

CONSTANTS Plans,       \* bound: the sequences of questions that are asked, each [mode, limit,
                       \* turns: how many digits are turned while it is asked]
          Buffer,      \* bytes of a line's buffer, at least every limit
          RingDepth,   \* MAX_HISTORY_DEPTH
          ListDepth,   \* the depth of the text history, from the configuration
          Typed        \* [mode -> characters the user types]

VARIABLES
  asked,       \* paraInfo, from the current question on
  parBuffer,   \* parBuffer, or exporter->arguments: [0 .. Buffer - 1 -> Nat]
  iParameter,  \* the cursor
  cParameter,  \* characters of the line
  shown,       \* the line as it was last written to the screen
  ring, iHistory, cHistory, \* the numbers entered, where recalling stands, where the next goes
  file, iStrHistory,        \* the texts entered, where recalling stands
  nums, texts  \* ghosts: every number and every text entered so far

vars == <<asked, parBuffer, iParameter, cParameter, shown, ring, iHistory, cHistory, file,
          iStrHistory, nums, texts>>

Bytes == 0 .. Buffer - 1
Zero == [k \in Bytes |-> 0]
question == asked[1]
Numeric == question.mode # "STR"
Text(b, n) == [k \in 1 .. n |-> b[k - 1]]

Init ==
  /\ asked \in Plans
  /\ parBuffer = Zero /\ iParameter = 0 /\ cParameter = 0 /\ shown = <<>>
  /\ ring = [k \in 0 .. RingDepth - 1 |-> 0] /\ iHistory = 0 /\ cHistory = 0
  /\ file = <<>> /\ iStrHistory = 0
  /\ nums = {0} /\ texts = {<<>>}

Show == shown' = Text(parBuffer', cParameter')
Kept == UNCHANGED <<asked, ring, cHistory, file, nums, texts>>
NoRecall == UNCHANGED <<iHistory, iStrHistory>>

-----------------------------------------------------------------------------
(* A character key: the rest of the line moves up. *)
Type(ch) ==
  /\ cParameter # question.limit
  /\ parBuffer' = [k \in Bytes |-> IF k = iParameter THEN ch
                                   ELSE IF k \in iParameter + 1 .. cParameter THEN parBuffer[k - 1]
                                   ELSE parBuffer[k]]
  /\ cParameter' = cParameter + 1 /\ iParameter' = iParameter + 1
  /\ Show /\ Kept /\ NoRecall

(* Mutant: the loop starts one character too late.                         *)
DownLate(at) == [k \in Bytes |-> IF k \in at .. cParameter - 2 THEN parBuffer[k + 1] ELSE parBuffer[k]]

(* The loops of KEY_BACK and KEY_DEL: what follows moves down from at. *)
Down(at) == [k \in Bytes |-> IF k + 1 \in at .. cParameter - 1 THEN parBuffer[k + 1] ELSE parBuffer[k]]

Back ==
  /\ IF iParameter # 0
     THEN /\ parBuffer' = Down(iParameter)
          /\ iParameter' = iParameter - 1 /\ cParameter' = cParameter - 1
     ELSE UNCHANGED <<parBuffer, iParameter, cParameter>>
  /\ Show /\ Kept /\ NoRecall

Del ==
  /\ IF cParameter > iParameter
     THEN parBuffer' = Down(iParameter + 1) /\ cParameter' = cParameter - 1
     ELSE UNCHANGED <<parBuffer, cParameter>>
  /\ Show /\ Kept /\ NoRecall /\ UNCHANGED iParameter

MoveCursor ==
  /\ \/ iParameter # 0 /\ iParameter' = iParameter - 1
     \/ iParameter # cParameter /\ iParameter' = iParameter + 1
     \/ iParameter' \in {0, cParameter}
  /\ Kept /\ NoRecall /\ UNCHANGED <<parBuffer, cParameter, shown>>

(* KEY_UP and KEY_DOWN of a decimal number turn the digit at the cursor,   *)
(* which may be the one behind the last.                                   *)
TurnDigit ==
  /\ question.mode = "DEC"
  /\ question.turns > 0 /\ asked' = [asked EXCEPT ![1].turns = @ - 1]
  /\ \E d \in {1, 9} : parBuffer' = [parBuffer EXCEPT ![iParameter] = (@ + d) % 10]
  /\ UNCHANGED <<iParameter, cParameter, ring, cHistory, file, nums, texts>> /\ Show /\ NoRecall

(* and of a hexadecimal one recall a number, as many digits as are asked. *)
RecallNumber ==
  /\ question.mode = "HEX"
  /\ \E d \in {1, RingDepth - 1} : iHistory' = (iHistory + d) % RingDepth
  /\ cParameter' = question.limit
  /\ parBuffer' = [k \in Bytes |-> IF k < question.limit
                                   THEN (ring[iHistory'] \div 16 ^ (question.limit - 1 - k)) % 16
                                   ELSE parBuffer[k]]
  /\ UNCHANGED <<iParameter, iStrHistory>> /\ Show /\ Kept

(* HistoryList::load_from: each line is pushed, the oldest ones fall out. *)
Loaded == IF Len(file) > ListDepth THEN SubSeq(file, Len(file) - ListDepth + 1, Len(file)) ELSE file

(* HistoryList::push_back *)
Pushed(list, text) == Append(IF Len(list) = ListDepth THEN Tail(list) ELSE list, text)

(* StringList::operator[]: beyond the end there is an empty text. *)
Entry(list, n) == IF n < Len(list) THEN list[n + 1] ELSE <<>>

(* iStrHistory has 8 bits: counting down from an empty list it becomes 255. *)
RecallText ==
  /\ question.mode = "STR"
  /\ \/ iStrHistory' = IF iStrHistory > 0 THEN iStrHistory - 1 ELSE (Len(Loaded) - 1) % 256
     \/ iStrHistory' = IF Loaded = <<>> \/ iStrHistory < Len(Loaded) - 1 THEN (iStrHistory + 1) % 256 ELSE 0
  /\ LET text == Entry(Loaded, iStrHistory') IN
     /\ parBuffer' = [k \in Bytes |-> IF k < Len(text) THEN text[k + 1] ELSE parBuffer[k]]
     /\ iParameter' = Len(text) /\ cParameter' = Len(text)
  /\ UNCHANGED iHistory /\ Show /\ Kept

(* KEY_ENTER of a number: the sum of its digits' values, in a decimal one  *)
(* with a unit of 16 bits.                                                 *)
DecValue ==
  SumFunction([k \in 0 .. cParameter - 1 |-> parBuffer[k] * ((10 ^ (cParameter - 1 - k)) % 65536)])

HexValue ==
  SumFunction([k \in 0 .. cParameter - 1 |-> parBuffer[k] * 16 ^ (cParameter - 1 - k)])

(* Both buffers are cleared, the text's with its task. *)
NextQuestion ==
  /\ asked' = Tail(asked)
  /\ parBuffer' = Zero /\ iParameter' = 0 /\ cParameter' = 0 /\ shown' = <<>>

EnterNumber ==
  /\ Numeric
  /\ LET value == IF question.mode = "DEC" THEN DecValue ELSE HexValue IN
     /\ ring' = [ring EXCEPT ![cHistory] = value]
     /\ nums' = nums \union {value}
  /\ cHistory' = (cHistory + 1) % RingDepth /\ iHistory' = cHistory'
  /\ NextQuestion /\ UNCHANGED <<file, texts>> /\ iStrHistory' = 0

EnterText ==
  /\ ~Numeric
  /\ file' = Pushed(Loaded, Text(parBuffer, cParameter))
  /\ texts' = texts \union {Text(parBuffer, cParameter)}
  /\ NextQuestion /\ UNCHANGED <<ring, iHistory, cHistory, nums>> /\ iStrHistory' = 0

Key ==
  \/ \E ch \in Typed[question.mode] : Type(ch)
  \/ Back \/ Del \/ MoveCursor \/ TurnDigit \/ RecallNumber \/ RecallText
  \/ EnterNumber \/ EnterText

Next == asked # <<>> /\ Key

Spec == Init /\ [][Next]_vars

-----------------------------------------------------------------------------
Line == INSTANCE LineEditor WITH
  line <- shown, cursor <- iParameter, mode <- IF asked = <<>> THEN "none" ELSE question.mode, limit <- IF asked = <<>> THEN 0 ELSE question.limit,
  nums <- nums, texts <- texts

(* The buffers, loops and histories implement a line editor: whatever was  *)
(* typed, deleted, turned and recalled, the screen shows the line, and the *)
(* value a task gets is the one the screen shows (menu_ctrl.c:1412-1442),  *)
(* in decimal below 100000.                                                *)
ImplementsLine == Line!LineSpec
=============================================================================
