------------------------------ MODULE KeyInput ------------------------------
(***************************************************************************)
(* The key input of the library with the timer under it: the main loop     *)
(* pops a key (menu_main_routine), reads and decodes bytes (KeyCtrl) and   *)
(* runs the due services (TimerCtrl), and the handler of the 1 ms alarm    *)
(* may interrupt it at any point.  An ESC byte either begins the sequence  *)
(* of a special key or is the ESC key: a one-shot slot of the timer tells. *)
(***************************************************************************)
EXTENDS Integers, Sequences, FiniteSets, FiniteSetsExt

CONSTANTS
  Strokes,     \* what a key sends: sequences of bytes, "ESC" first for a special key
  EndBytes,    \* bytes that end the sequence of a special key
  ScDepth,     \* depth of scFIFO: 8
  KeyDepth,    \* APP_KEY_DEPTH: 4
  IdentifyMs,  \* SPEICAL_KEY_IDENTIFY_MS: 2
  Slots,       \* 0 .. TMR_SLOT_NUMBER - 1
  Interval,    \* of the service in slot 0, which flushes the terminal
  Burst,       \* bound: bytes the user sends before the loop comes around
  MaxStrokes   \* bound: keys the user presses

VARIABLES
  pc,            \* what the loop does next: "menu", "read", "decode", "arm", "set", "timer"
  tty,           \* bytes waiting in the terminal
  scFIFO,        \* bytes read
  bIdentifying, scanKeyCode, idxTmrSlot,
  keys,          \* the FIFO of decoded keys
  decSlot,       \* slots in use
  decTick,       \* [Slots -> Nat]
  services,      \* [Slots -> [status, interval]]
  loaded,        \* decSlot as operator<< read it
  due,           \* ghost: the keys pressed and not yet popped
  wrong,         \* ghost: a key was popped that was not the next one pressed
  pressed        \* ghost: number of keys pressed

fifoVars == <<tty, scFIFO, keys>>
scanVars == <<bIdentifying, scanKeyCode, idxTmrSlot>>
timerVars == <<decSlot, decTick, services, loaded>>
ghosts == <<due, wrong, pressed>>
vars == <<pc, fifoVars, scanVars, timerVars, ghosts>>

NoService == [status |-> "ONE_SHOT", interval |-> 0]
None == -1

Init ==
  /\ pc = "menu" /\ tty = <<>> /\ scFIFO = <<>> /\ keys = <<>>
  /\ bIdentifying = FALSE /\ scanKeyCode = <<>> /\ idxTmrSlot = 0
  /\ decSlot = {0} /\ loaded = {}
  /\ decTick = [s \in Slots |-> IF s = 0 THEN Interval ELSE 0]
  /\ services = [s \in Slots |-> IF s = 0 THEN [status |-> "ACTIVE", interval |-> Interval] ELSE NoService]
  /\ due = <<>> /\ wrong = FALSE /\ pressed = 0

-----------------------------------------------------------------------------
(* FIFOCtrl: a ring of depth elements holds one less; what is pushed into  *)
(* a full one is lost.                                                     *)
Push(fifo, depth, x) == IF Len(fifo) = depth - 1 THEN fifo ELSE Append(fifo, x)
PushAll(fifo, depth, xs) ==
  LET all == fifo \o xs IN IF Len(all) < depth THEN all ELSE SubSeq(all, 1, depth - 1)

(* search_free_slot_32 *)
FreeSlot(used) == IF used = Slots THEN None ELSE Min(Slots \ used)

(* Mutant: a one-shot slot that has run down stays in use.                 *)
TickKept ==
  /\ decTick' = [s \in Slots |->
       IF s \in decSlot /\ decTick[s] # 0 /\ services[s].status # "DEACTIVE" THEN decTick[s] - 1 ELSE decTick[s]]
  /\ UNCHANGED <<pc, fifoVars, scanVars, decSlot, services, loaded, ghosts>>

(* timer_core_handler: the running slots count down, and a one-shot one    *)
(* is free when it is down.                                                *)
Tick ==
  /\ decTick' = [s \in Slots |->
       IF s \in decSlot /\ decTick[s] # 0 /\ services[s].status # "DEACTIVE" THEN decTick[s] - 1 ELSE decTick[s]]
  /\ decSlot' = {s \in decSlot : services[s].status # "ONE_SHOT" \/ decTick'[s] # 0}
  /\ UNCHANGED <<pc, fifoVars, scanVars, services, loaded, ghosts>>

(* core_routine: a slot that is down and not one-shot starts again.  No    *)
(* step of the handler falls between: it leaves a slot that is down alone. *)
TimerRoutine ==
  /\ pc = "timer"
  /\ decTick' = [s \in Slots |-> IF s \in decSlot /\ decTick[s] = 0 /\ services[s].status # "ONE_SHOT"
                                 THEN services[s].interval ELSE decTick[s]]
  /\ pc' = "menu"
  /\ UNCHANGED <<fifoVars, scanVars, decSlot, services, loaded, ghosts>>

(* bExpired: whoever uses the slot now.  The bit of no slot is undefined.  *)
Expired(s) == IF s = None THEN BOOLEAN ELSE {s \notin decSlot}

-----------------------------------------------------------------------------
(* key_code_determine without an event handler *)
Determine(key) == keys' = Push(keys, KeyDepth, key)

(* KeyCtrl::routine reads what is there when it looks. *)
Read ==
  /\ pc = "read"
  /\ scFIFO' = PushAll(scFIFO, ScDepth, tty)
  /\ tty' = <<>> /\ pc' = "decode"
  /\ UNCHANGED <<keys, scanVars, timerVars, ghosts>>

(* A byte of a special key: the code is the last four of them. *)
DecodeSpecial(ch) ==
  LET code == Append(IF Len(scanKeyCode) = 4 THEN Tail(scanKeyCode) ELSE scanKeyCode, ch)
  IN /\ scanKeyCode' = code
     /\ IF ch \in EndBytes
        THEN /\ bIdentifying' = FALSE
             /\ Determine(IF <<"ESC">> \o code \in Strokes THEN <<"ESC">> \o code ELSE "NOT_ALLOW")
        ELSE UNCHANGED <<bIdentifying, keys>>
     /\ pc' = "timer" /\ UNCHANGED idxTmrSlot

DecodeNormal(ch) ==
  IF ch = "ESC"
  THEN bIdentifying' = TRUE /\ scanKeyCode' = <<>> /\ pc' = "arm" /\ UNCHANGED <<idxTmrSlot, keys>>
  ELSE Determine(<<ch>>) /\ pc' = "timer" /\ UNCHANGED scanVars

(* Mutant: the slot is looked at before the bytes that have come.          *)
DecodeExpiredFirst ==
  /\ pc = "decode"
  /\ IF bIdentifying /\ TRUE \in Expired(idxTmrSlot)
     THEN Determine(<<"ESC">>) /\ bIdentifying' = FALSE /\ pc' = "timer" /\ UNCHANGED <<scanKeyCode, idxTmrSlot, scFIFO>>
     ELSE IF scFIFO = <<>> THEN pc' = "timer" /\ UNCHANGED <<scFIFO, keys, scanVars>>
     ELSE /\ scFIFO' = Tail(scFIFO)
          /\ IF bIdentifying THEN DecodeSpecial(Head(scFIFO)) ELSE DecodeNormal(Head(scFIFO))
  /\ UNCHANGED <<tty, timerVars, ghosts>>

(* decode_sc: one byte of the FIFO, or the end of the wait for one. *)
Decode ==
  /\ pc = "decode"
  /\ IF scFIFO # <<>>
     THEN /\ scFIFO' = Tail(scFIFO)
          /\ IF bIdentifying THEN DecodeSpecial(Head(scFIFO)) ELSE DecodeNormal(Head(scFIFO))
     ELSE /\ pc' = "timer" /\ UNCHANGED <<scFIFO, scanKeyCode, idxTmrSlot>>
          /\ IF bIdentifying
             THEN \E e \in Expired(idxTmrSlot) :
                    IF e THEN Determine(<<"ESC">>) /\ bIdentifying' = FALSE ELSE UNCHANGED <<keys, bIdentifying>>
             ELSE UNCHANGED <<keys, bIdentifying>>
  /\ UNCHANGED <<tty, timerVars, ghosts>>

(* TimerCtrl::operator<<: the slot is written, then its bit is set by a    *)
(* read of decSlot and a write, between which the handler may clear other  *)
(* bits.                                                                   *)
ArmSlot ==
  /\ pc = "arm"
  /\ LET bit == FreeSlot(decSlot) IN
     /\ idxTmrSlot' = bit
     /\ IF bit = None THEN pc' = "timer" /\ UNCHANGED <<decTick, services, loaded>>
        ELSE /\ services' = [services EXCEPT ![bit] = [status |-> "ONE_SHOT", interval |-> IdentifyMs]]
             /\ decTick' = [decTick EXCEPT ![bit] = IdentifyMs]
             /\ loaded' = decSlot /\ pc' = "set"
  /\ UNCHANGED <<fifoVars, bIdentifying, scanKeyCode, decSlot, ghosts>>

ArmSet ==
  /\ pc = "set"
  /\ decSlot' = loaded \union {idxTmrSlot} /\ loaded' = {}
  /\ pc' = "timer"
  /\ UNCHANGED <<fifoVars, scanVars, decTick, services, ghosts>>

(* menu_main_routine pops a key; what it does with it takes its time. *)
MenuPops ==
  /\ pc = "menu"
  /\ IF keys = <<>> THEN UNCHANGED <<keys, due, wrong>>
     ELSE /\ keys' = Tail(keys)
          /\ wrong' = (wrong \/ due = <<>> \/ Head(keys) # Head(due))
          /\ due' = IF due = <<>> THEN due ELSE Tail(due)
  /\ pc' = "read"
  /\ UNCHANGED <<tty, scFIFO, scanVars, timerVars, pressed>>

(* The user (outside): the bytes of a key come together.  Nobody presses   *)
(* ESC ahead, or goes on before ESC has worked; other keys come in bursts. *)
Press ==
  /\ pressed < MaxStrokes /\ pressed' = pressed + 1
  /\ <<"ESC">> \notin Range(due)
  /\ \E s \in Strokes :
       /\ s = <<"ESC">> => due = <<>>
       /\ Len(tty) + Len(scFIFO) + Len(s) <= Burst
       /\ tty' = tty \o s /\ due' = Append(due, s)
  /\ UNCHANGED <<pc, scFIFO, keys, scanVars, timerVars, wrong>>

Loop == MenuPops \/ Read \/ Decode \/ ArmSlot \/ ArmSet \/ TimerRoutine
Next == Loop \/ Tick \/ Press

Spec == Init /\ [][Next]_vars
FairSpec == Spec /\ WF_vars(Loop) /\ WF_vars(Tick)

-----------------------------------------------------------------------------
(* The program acts on the keys the user pressed, in their order: no       *)
(* sequence of a special key is taken apart into an ESC, which would       *)
(* cancel a task, and no key is lost, as long as no more bytes come at a   *)
(* time than scFIFO holds (key_ctrl.cpp:71).                               *)
KeysAsPressed == ~wrong

(* Every key pressed is acted on; ESC, which no further byte follows, by   *)
(* its slot of the timer.                                                  *)
KeysArrive == (due # <<>>) ~> (due = <<>>)
=============================================================================
