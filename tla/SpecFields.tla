----------------------------- MODULE SpecFields -----------------------------
(***************************************************************************)
(* The fields of the two command dwords on nvme_verify's tab for admin     *)
(* commands: FormApp's handlers of a chosen command and of a changed text  *)
(* (form_app.cpp), SpecDWord and SpecField, which lay the fields out from  *)
(* a library of structures.  Laying out changes texts, and every change of *)
(* a text of DWORD10 calls back into FormApp, which may lay out DWORD11.   *)
(***************************************************************************)
EXTENDS Integers, Sequences, SequencesExt, Functions

CONSTANTS
  Commands,       \* admin commands; "set_features" and "get_features" among them
  FirstCommand,   \* the one at the start
  Library,        \* admin_ds.lib: ["DWORD10", "DWORD11" -> [tags -> sequences of fields]];
                  \* a field has hi, low, default and enums, the values of its list
  FeatureTags,    \* [feature identifiers with a layout -> tag]
  LbaRange,       \* the identifier of the LBA range feature
  Frames,         \* field frames of a dword in the window
  Bits, FidBits   \* width of a dword (32) and of the feature identifier (8)

VARIABLES
  cmd,     \* adminCmdOp: the command of the combo box
  dw,      \* ["DWORD10", "DWORD11" -> [tag, texts]]: the layout and the text of each frame, -1 for ""
  lastFID,
  chosen   \* ghost: a command was chosen by the user

vars == <<cmd, dw, lastFID, chosen>>

Dwords == {"DWORD10", "DWORD11"}
None == "none"
Features == {"set_features", "get_features"}

(* get_lib_list: the fields of a tag, none when it is not in the library. *)
Fields(d, tag) == IF tag \in DOMAIN Library[d] THEN Library[d][tag] ELSE <<>>

(* configure: the mask; shifting by all 32 bits shifts by none. *)
Mask(f) == LET n == f.hi - f.low + 1 IN IF n = Bits THEN 0 ELSE 2 ^ n - 1

(* _f_get_field and _f_get_dword: the fields do not overlap. *)
Field(f, text) == IF text = -1 THEN 0 ELSE (text % (Mask(f) + 1)) * 2 ^ f.low
Dword(d, x) == FoldLeftDomain(LAMBDA v, i : v + Field(Fields(d, x.tag)[i], x.texts[i]), 0, Fields(d, x.tag))
FID(s) == Dword("DWORD10", s.dw["DWORD10"]) % 2 ^ FidBits

-----------------------------------------------------------------------------
(* A state while a handler runs is [dw, lastFID].  Clearing and laying out *)
(* write texts in turn; here the writes of a dword are <<frame, text>>.    *)

(* SpecField::clear; clearing a list of values that has some chooses 0. *)
ClearField(fields, i) ==
  <<<<i, -1>>>> \o (IF i \in DOMAIN fields /\ fields[i].enums # <<>> THEN <<<<i, 0>>>> ELSE <<>>)

(* SpecDWord::clear *)
ClearDword(fields) == FlattenSeq([i \in 1 .. Frames |-> ClearField(fields, i)])

(* SpecField::configure; the first value of the list becomes the current. *)
ConfigureField(f, i) ==
  <<<<i, f.default>>>> \o (IF f.enums = <<>> THEN <<>> ELSE <<<<i, f.enums[1]>>>>)

ConfigureDword(fields) == FlattenSeq([i \in DOMAIN fields |-> ConfigureField(fields[i], i)])

(* A text of DWORD11 only changes a title. *)
Write(d, s, w) == [s EXCEPT !.dw[d].texts[w[1]] = w[2]]

(* SpecDWord::clear and scheme of DWORD11. *)
Clear11(s) ==
  [FoldLeft(LAMBDA r, w : Write("DWORD11", r, w), s, ClearDword(Fields("DWORD11", s.dw["DWORD11"].tag)))
   EXCEPT !.dw["DWORD11"].tag = None]
Scheme11(s, tag) ==
  LET f == Fields("DWORD11", tag)
  IN FoldLeft(LAMBDA r, w : Write("DWORD11", r, w),
              [Clear11(s) EXCEPT !.dw["DWORD11"].tag = IF f = <<>> THEN None ELSE tag], ConfigureDword(f))

-----------------------------------------------------------------------------
(* Mutant: an identifier without a layout changes nothing.                 *)
OnTextKnown(c, s) ==
  IF c \notin Features \/ FID(s) \in {s.lastFID} \union (0 .. 2 ^ FidBits \ DOMAIN FeatureTags) THEN s
  ELSE [Scheme11(s, IF c = "set_features" \/ FID(s) = LbaRange THEN FeatureTags[FID(s)] ELSE None)
        EXCEPT !.lastFID = FID(s)]

(* on_text_change of a text of DWORD10, while the combo box shows c. *)
OnTextChange(c, s) ==
  IF c \notin Features \/ FID(s) = s.lastFID THEN s
  ELSE LET known == IF c = "set_features" THEN DOMAIN FeatureTags ELSE {LbaRange}
           tag == IF FID(s) \in known THEN FeatureTags[FID(s)] ELSE None
       IN [Scheme11(s, tag) EXCEPT !.lastFID = FID(s)]

(* Writing a text of DWORD10 calls back if the text changes. *)
WriteCalling(c, s, w) ==
  IF s.dw["DWORD10"].texts[w[1]] = w[2] THEN s ELSE OnTextChange(c, Write("DWORD10", s, w))

(* SpecDWord::scheme of DWORD10: what is not yet configured is 0 in any layout. *)
Scheme10(c, s, tag) ==
  LET f == Fields("DWORD10", tag)
      cleared == FoldLeft(LAMBDA r, w : WriteCalling(c, r, w), s,
                          ClearDword(Fields("DWORD10", s.dw["DWORD10"].tag)))
  IN FoldLeft(LAMBDA r, w : WriteCalling(c, r, w),
              [cleared EXCEPT !.dw["DWORD10"].tag = IF f = <<>> THEN None ELSE tag], ConfigureDword(f))

Now == [dw |-> dw, lastFID |-> lastFID]
Becomes(s) == dw' = s.dw /\ lastFID' = s.lastFID

(* The window is filled before its signals are connected: the first        *)
(* command has no fields until it is chosen again.                         *)
Init ==
  /\ cmd = FirstCommand /\ lastFID = -1 /\ chosen = FALSE
  /\ dw = [d \in Dwords |-> [tag |-> None, texts |-> [i \in 1 .. Frames |-> -1]]]

(* on_index_change of the combo box *)
SelectCommand(c) ==
  /\ c # cmd
  /\ LET laid == Scheme10(c, IF c = "get_features" THEN Clear11(Now) ELSE Now, c)
     IN Becomes(IF c \in Features THEN laid ELSE Scheme11(laid, c))
  /\ cmd' = c /\ chosen' = TRUE

(* The user edits a text or chooses a value of its list. *)
EditText(d, i, t) ==
  /\ i \in DOMAIN Fields(d, dw[d].tag)
  /\ Becomes(IF d = "DWORD10" THEN WriteCalling(cmd, Now, <<i, t>>) ELSE Write(d, Now, <<i, t>>))
  /\ UNCHANGED <<cmd, chosen>>

Next ==
  \/ \E c \in Commands : SelectCommand(c)
  \/ \E d \in Dwords, i \in 1 .. Frames, t \in -1 .. 2 ^ FidBits - 1 : EditText(d, i, t)

Spec == Init /\ [][Next]_vars

-----------------------------------------------------------------------------
Laid(d, tag) == IF tag \in DOMAIN Library[d] THEN tag ELSE None

(* The fields on the screen are those of the command that is sent: what    *)
(* DWORD11 shows belongs to the feature whose identifier DWORD10 has now,  *)
(* whichever commands, identifiers and texts came before                   *)
(* (form_app.cpp:270, where it is laid out when the identifier differs     *)
(* from the last one seen).                                                *)
FieldsFitCommand ==
  LET known == CASE cmd = "set_features" -> DOMAIN FeatureTags [] cmd = "get_features" -> {LbaRange} [] OTHER -> {}
  IN chosen =>
       /\ dw["DWORD10"].tag = Laid("DWORD10", cmd)
       /\ dw["DWORD11"].tag = IF FID(Now) \in known THEN Laid("DWORD11", FeatureTags[FID(Now)])
                              ELSE IF cmd \in Features THEN None ELSE Laid("DWORD11", cmd)
=============================================================================
