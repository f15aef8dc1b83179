---------------------------- MODULE MCIoExOthers ----------------------------
(* A range of seven blocks, in slices of two.                              *)
EXTENDS IoExOthers

Good(l) == [hdr |-> l, body |-> l]
Wrong == -2

WrongEverywhere == {[l \in 2 .. 10 |-> [hdr |-> Wrong, body |-> Wrong]]}
RightEverywhere == {[l \in 2 .. 10 |-> Good(l)]}

(* Blocks 4, 5, 6 and 9 may differ, in the header or in the body: the      *)
(* second of a slice, both of one, and the short slice at the end.         *)
SomewhereWrong ==
  {[l \in 2 .. 10 |-> CASE l \in h -> [Good(l) EXCEPT !.hdr = Wrong]
                        [] l \in b -> [Good(l) EXCEPT !.body = Wrong]
                        [] OTHER -> Good(l)] :
     h \in SUBSET {4, 5, 6, 9}, b \in SUBSET {4, 5, 6, 9}}
=============================================================================
