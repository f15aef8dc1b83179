---------------------------- MODULE MCComponents ----------------------------
(* The values at which each component's interesting cases happen.          *)
EXTENDS Components, MCIoPlanScheduler, TLC

CONSTANTS
  n1,     \* a namespace
  m1, m2  \* nodes of controllers

-----------------------------------------------------------------------------
(* Iod: transfers of up to eight pages of two units, in up to four         *)
(* segments, by lists of three entries.                                    *)
Starts(off, len) ==
  {c \in {<<0>>, <<0, 1>>, <<0, 2>>, <<0, 5>>, <<0, 1, 2>>, <<0, 1, 5>>, <<0, 2, 5>>, <<0, 1, 2, 5>>} :
     c[Len(c)] * 2 < off + len}
Plain == [kind |-> "rw", write |-> TRUE, pi |-> FALSE, off |-> 0, len |-> 1, starts |-> <<0>>,
          error |-> "none", index |-> 0]
Shapes == UNION {{[Plain EXCEPT !.off = o, !.len = l, !.starts = c] : c \in Starts(o, l)} :
                   o \in {0, 1}, l \in {1, 2, 3, 4, 5, 6, 7, 9, 11, 12, 14}}
Uncut == {s \in Shapes : s.starts = <<0>>}
IodTransfers ==
  Shapes
  \union {[s EXCEPT !.kind = "user", !.error = "entry", !.index = k] :
            s \in {x \in Shapes : x.len > 5 /\ x.starts = <<0, 2>>}, k \in 0 .. 2}
  \union {[s EXCEPT !.kind = "user", !.error = e] : s \in Uncut, e \in {"none", "prp1", "prp2"}}
  \union {[s EXCEPT !.kind = "admin", !.error = "prp1"] : s \in {x \in Shapes : x.starts = <<0, 1>>}}
  \union {[s EXCEPT !.kind = k, !.pi = (k = "rw"), !.write = w] :
            s \in {x \in Uncut : x.len < 5}, k \in {"discard", "rw"}, w \in BOOLEAN}

-----------------------------------------------------------------------------
(* Menu: pages of 4 items, started without arguments and with each         *)
(* argument, a0 twice among them.                                          *)
Call(o, args, c) == [op |-> o, par |-> args, ifPass |-> c]
Locking(n) == <<Call("REPLACE", <<0>>, FALSE), Call("AUTO_LOCK", <<0, 0, n>>, TRUE)>>
MenuBoots == {<<>>, Locking(0), Locking(1), Locking(0) \o Locking(0)}
             \union {<<Call("REPLACE", <<n>>, FALSE)>> : n \in 1 .. 2}

(* Editor: numbers of 2 digits, texts of 2 characters in a buffer of 7,    *)
(* histories of 2; and decimal numbers of 6 digits, whose values need more *)
(* than the 16 bits of a unit.                                             *)
Question(mode, limit) == [mode |-> mode, limit |-> limit, turns |-> 3]
EditorPlans == {<<Question("DEC", 2), Question("HEX", 2)>>, <<[Question("DEC", 6) EXCEPT !.turns = 1]>>}
               \union {[k \in 1 .. 3 |-> Question(mode, 2)] : mode \in {"HEX", "STR"}}
EditorTyped == [DEC |-> {1, 9}, HEX |-> {1, 15}, STR |-> {1, 2}]

(* Keys: a character, ESC and two special keys, one whose sequence is as   *)
(* long as they get; as many bytes as scFIFO holds.                        *)
KeysStrokes == {<<"q">>, <<"ESC">>, <<"ESC", "[", "A">>, <<"ESC", "[", "3", "~">>}
KeysSlots == 0 .. 3

-----------------------------------------------------------------------------
(* Form: dwords of 5 bits with identifiers of 2: a command with a field as *)
(* wide as the dword, one with two dwords, both feature commands, three    *)
(* features, one of which has no fields, and a command without any.        *)
F(hi, low, default, enums) == [hi |-> hi, low |-> low, default |-> default, enums |-> enums]
FormLibrary ==
  [DWORD10 |-> [get_log_page |-> <<F(4, 2, 0, <<>>), F(1, 0, 1, <<1, 2>>)>>,
                create_sq |-> <<F(4, 2, 3, <<>>), F(1, 0, 1, <<>>)>>,
                download_fw |-> <<F(4, 0, 4, <<>>)>>,
                set_features |-> <<F(4, 4, 0, <<>>), F(3, 2, 0, <<>>), F(1, 0, 1, <<1, 2>>)>>,
                get_features |-> <<F(4, 3, 0, <<>>), F(2, 2, 0, <<>>), F(1, 0, 1, <<1, 2>>)>>],
   DWORD11 |-> [create_sq |-> <<F(4, 4, 1, <<>>), F(3, 0, 0, <<0, 1>>)>>,
                ARBITRATION |-> <<F(4, 1, 0, <<>>), F(0, 0, 0, <<0, 1>>)>>,
                LBA_RANGE |-> <<F(4, 0, 0, <<>>)>>]]
FormCommands == DOMAIN FormLibrary.DWORD10 \union {"invalid"}
FormTags == 1 :> "ARBITRATION" @@ 2 :> "LBA_RANGE" @@ 3 :> "OTHER"

(* Ngd: two controllers, one with as many log entries as there can be.     *)
NgdNodes == <<m1, m2>>
NgdElpe == m1 :> 255 @@ m2 :> 62
=============================================================================
