----------------------------- MODULE Components -----------------------------
(***************************************************************************)
(* The small components, each with a state of its own.  They do not        *)
(* interact, so a behaviour takes the steps of one of them, part, while    *)
(* the others stay in one of their initial states.                         *)
(***************************************************************************)
EXTENDS IoPlanScheduler, Sequences

(* The parameters of the components; see there.                            *)
CONSTANTS
  PageUnits, Entries, SmallEntries, Transfers, MaxRetries, MaxRequests, MaxPages,  \* NvmeIod
  ReportLimited, MaxAnswer, Boots,                                         \* KwMenu
  Plans, Buffer, RingDepth, ListDepth, Typed,                              \* KwEditor
  Strokes, EndBytes, ScDepth, KeyDepth, IdentifyMs, Slots, Interval, Burst, MaxStrokes,
                                                                           \* KeyInput
  Namespaces,                                                              \* NvmeVerify
  Commands, FirstCommand, Library, FeatureTags, LbaRange, Frames, Bits, FidBits,
                                                                           \* SpecFields
  NodeList, Elpe, LrtTyped                                                 \* NgdApp

VARIABLES
  part,  \* "plan", "iod", "menu", "editor", "keys", "window",
         \* "fields" or "ngd"
  iodPc, rq, kwCmd, payload, npages, list, mem, firstDma, nents, prp, cmnd, tags, maps, retries,
  used, suspended, odd,
  menuPc, path, node, pos, attr, menuFlags, op, step, menuAsked, par, last, boot, menuDriver,
  menuDev, mine, relock, orphan, unasked,
  asked, parBuffer, iParameter, cParameter, line, ring, iHistory, cHistory, file, iStrHistory,
  nums, texts,
  keysPc, tty, scFIFO, bIdentifying, scanKeyCode, idxTmrSlot, keys, decSlot, decTick, services,
  loaded, due, wrong, pressed,
  flags, geometry, enabled, driverVer, errnoSet, storeDS, files, script, nvmeTest, driver, dev,
  hand, shown, overruled,
  cmd, dw, lastFID, chosen,
  table, click, buffer, ngdErrno, saved, over, mistaken

-----------------------------------------------------------------------------
Iod == INSTANCE NvmeIod WITH pc <- iodPc
Menu == INSTANCE KwMenu WITH
  pc <- menuPc, flags <- menuFlags, asked <- menuAsked, driver <- menuDriver, dev <- menuDev
Editor == INSTANCE KwEditor WITH shown <- line
Keys == INSTANCE KeyInput WITH pc <- keysPc
Window == INSTANCE NvmeVerify
Form == INSTANCE SpecFields
Ngd == INSTANCE NgdApp WITH errnoSet <- ngdErrno

(* Of the constants of NgdApp: the controllers' numbers of log entries are *)
(* a byte, and what is typed for an LBA range type is a number.            *)
ASSUME NgdAssumption ==
  /\ NodeList \in Seq(Ngd!Nodes)
  /\ Elpe \in [Ngd!Nodes -> 0 .. 255]
  /\ LrtTyped \subseteq Nat

(* Of those of NvmeIod: a list of the small pool is no longer than a page, *)
(* and the transfers fit the list pages there are.                         *)
ASSUME IodAssumption ==
  /\ PageUnits \in Nat \ {0} /\ Entries \in Nat /\ Entries > 1 /\ SmallEntries \in 1 .. Entries
  /\ Transfers # {} /\ MaxPages \in Nat
  /\ \A t \in Transfers : t \in Iod!Transfer /\ Iod!WellFormed(t) /\ Iod!NvmeNpages(t) <= MaxPages

(* Of those of NvmeVerify: a namespace is neither of the other values.     *)
ASSUME WindowAssumption == Namespaces \intersect {"none", "filler"} = {}

(* Of those of KwMenu: the arguments ask for calls that arg_decode makes.  *)
ASSUME MenuAssumption ==
  /\ ReportLimited \in Nat /\ MaxAnswer \in Nat
  /\ Boots \subseteq Seq(UNION {{Menu!ArgDecode(n)[k] : k \in DOMAIN Menu!ArgDecode(n)} : n \in 0 .. 3})

(* Of those of KeyInput: the user's bytes fit scFIFO.  A key sends one     *)
(* byte, or a special key up to four after an ESC, of which the last and   *)
(* no other ends the sequence.                                             *)
KeyBytes == UNION {Keys!Range(s) : s \in Strokes}
ASSUME KeysAssumption ==
  /\ Burst \in Nat /\ ScDepth \in Nat /\ Burst < ScDepth /\ KeyDepth \in Nat /\ KeyDepth > 1
  /\ Strokes \subseteq Seq(KeyBytes)
  /\ \A s \in Strokes :
       /\ Len(s) \in 1 .. 5 /\ (Len(s) > 1 => s[1] = "ESC" /\ s[Len(s)] \in EndBytes)
       /\ \A k \in 2 .. Len(s) - 1 : s[k] \notin EndBytes

-----------------------------------------------------------------------------
iodVars == <<iodPc, rq, kwCmd, payload, npages, list, mem, firstDma, nents, prp, cmnd, tags,
             maps, retries, used, suspended, odd>>
menuVars == <<menuPc, path, node, pos, attr, menuFlags, op, step, menuAsked, par, last, boot,
              menuDriver, menuDev, mine, relock, orphan, unasked>>
editorVars == <<asked, parBuffer, iParameter, cParameter, line, ring, iHistory, cHistory, file,
                iStrHistory, nums, texts>>
keysVars == <<keysPc, tty, scFIFO, bIdentifying, scanKeyCode, idxTmrSlot, keys, decSlot, decTick,
              services, loaded, due, wrong, pressed>>
windowVars == <<flags, geometry, enabled, driverVer, errnoSet, storeDS, files, script, nvmeTest,
                driver, dev, hand, shown, overruled>>
formVars == <<cmd, dw, lastFID, chosen>>
ngdVars == <<table, click, buffer, ngdErrno, saved, over, mistaken>>
allVars == <<part, vars, iodVars, menuVars, editorVars, keysVars, windowVars, formVars, ngdVars>>

Parts == {"plan", "iod", "menu", "editor", "keys", "window", "fields", "ngd"}

ComponentsInit ==
  /\ part \in Parts
  /\ Init /\ (part # "plan" => job = [slba |-> 0, nlb |-> 0, qDepth |-> 1, oneTimeNlb |-> 1])
  /\ Iod!Init
  /\ Menu!Init /\ (part # "menu" => boot = <<>> /\ menuDriver = "none")
  /\ Editor!Init /\ (part # "editor" => Len(asked) = 2)
  /\ Keys!Init
  /\ Window!Init /\ (part # "window" => ~errnoSet /\ driver = "none")
  /\ Form!Init
  /\ Ngd!Init /\ (part # "ngd" => ngdErrno)

Others(p) ==
  /\ UNCHANGED part
  /\ p # "plan" => UNCHANGED vars
  /\ p # "iod" => UNCHANGED iodVars
  /\ p # "menu" => UNCHANGED menuVars
  /\ p # "editor" => UNCHANGED editorVars
  /\ p # "keys" => UNCHANGED keysVars
  /\ p # "window" => UNCHANGED windowVars
  /\ p # "fields" => UNCHANGED formVars
  /\ p # "ngd" => UNCHANGED ngdVars

ComponentsNext ==
  \/ part = "plan" /\ Next /\ Others("plan")
  \/ part = "iod" /\ Iod!Next /\ Others("iod")
  \/ part = "menu" /\ Menu!Next /\ Others("menu")
  \/ part = "editor" /\ Editor!Next /\ Others("editor")
  \/ part = "keys" /\ Keys!Next /\ Others("keys")
  \/ part = "window" /\ Window!Next /\ Others("window")
  \/ part = "fields" /\ Form!Next /\ Others("fields")
  \/ part = "ngd" /\ Ngd!Next /\ Others("ngd")

(* The loop of the console programs runs, and the timer's alarm comes. *)
KeysFairness ==
  /\ WF_allVars(part = "keys" /\ Keys!Loop /\ Others("keys"))
  /\ WF_allVars(part = "keys" /\ Keys!Tick /\ Others("keys"))

ComponentsSpec == ComponentsInit /\ [][ComponentsNext]_allVars /\ KeysFairness

-----------------------------------------------------------------------------
(* The properties of the components; see there.                            *)
DeviceReadsTransfer == Iod!DeviceReadsTransfer
GivesBack == Iod!GivesBack
TasksFindWhatTheyNeed == Menu!TasksFindWhatTheyNeed
ImplementsLine == Editor!ImplementsLine
KeysAsPressed == Keys!KeysAsPressed
KeysArrive == Keys!KeysArrive
ScriptEndsReady == Window!ScriptEndsReady
OfferedFitsDevice == Window!OfferedFitsDevice
FieldsFitCommand == Form!FieldsFitCommand
DevicesKeptApart == Ngd!DevicesKeptApart
=============================================================================
