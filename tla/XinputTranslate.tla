--------------------------- MODULE XinputTranslate ---------------------------
(***************************************************************************)
(* The translation of a device's events to an XINPUT_GAMEPAD: the tables   *)
(* that xinput_linux_evdev_generic_translate() makes from the keys and the *)
(* axes the device has (src/src/linux_evdev/xinput_linux_evdev_generic.c), *)
(* and what an event then does to the gamepad                              *)
(* (src/src/linux_evdev/xinput_linux_evdev_translator.c).  Beside it, the   *)
(* drivers of the XBox 360 pads, of which this one is the generalisation:  *)
(* the tables of xinput_linux_evdev_xboxpad_2.c, and the events as         *)
(* xinput_linux_evdev_xboxpad.c translates them by hand.                   *)
(*                                                                         *)
(* Keys and axes are the codes of linux/input-event-codes.h, buttons the   *)
(* bits of wButtons.  The rest of an XINPUT_GAMEPAD is bytes, as the code  *)
(* writes a SHORT wherever an offset says.                                 *)
(***************************************************************************)
EXTENDS Integers, Sequences, FiniteSets

CONSTANTS
  Device,     \* the keys and axes of the devices that may be plugged
  Pressed,    \* the keys that are pressed and released
  AxisValue,  \* values an axis that is no hat reports
  MaxHeld,    \* bound on the keys held at a time
  MaxMoved    \* bound on the axes that report anything

ASSUME DeviceAssumption ==
  \A d \in Device :
    /\ d.keys \subseteq 0 .. 767 /\ d.axes \subseteq 0 .. 63
    \* with no other axis than hats, the code reads beyond ev_abs
    /\ \E x \in d.axes : x \notin 16 .. 23

ASSUME ValueAssumption == AxisValue \subseteq Int

Pad == {2^i : i \in 0 .. 15}
DPadUp == 1      DPadDown == 2      DPadLeft == 4     DPadRight == 8
Reserved0 == 2048
DPad == {DPadUp, DPadDown, DPadLeft, DPadRight}

\* offsets in XINPUT_GAMEPAD_EX
bLeftTrigger == 2  bRightTrigger == 3
sThumbLX == 4  sThumbLY == 6  sThumbRX == 8  sThumbRY == 10
Byte == 2 .. 11

------------------------------------------------------------------------------
(* xinput_linux_evdev_generic_translate(): the keys *)

\* xinput_gamepad_generic_translation[]
Table == <<
  <<\h130, 4096>>, <<\h131, 8192>>, <<\h133, 16384>>, <<\h134, 32768>>,
  <<\h136, 256>>, <<\h137, 512>>, <<\h13a, 32>>, <<\h13b, 16>>,
  <<\h13c, 1024>>, <<\h13d, 64>>, <<\h13e, 128>>,
  <<\h222, DPadLeft>>, <<\h223, DPadRight>>, <<\h220, DPadUp>>, <<\h221, DPadDown>>,
  <<\h2c0, DPadLeft>>, <<\h2c1, DPadRight>>, <<\h2c2, DPadUp>>, <<\h2c3, DPadDown>> >>

\* mutant: a button that has a key already gets another one
RowsAll(d) == {i \in DOMAIN Table : Table[i][1] \in d.keys}

\* the rows that apply: the first one for each button
Rows(d) ==
  {i \in DOMAIN Table :
     /\ Table[i][1] \in d.keys
     /\ \A j \in 1 .. i - 1 : Table[j][2] = Table[i][2] => Table[j][1] \notin d.keys}

TableKeys(d) == {Table[i][1] : i \in Rows(d)}
TablePads(d) == {Table[i][2] : i \in Rows(d)}

Obvious(d) == UNION {pair \in {{0, 1}, {3, 4}, {2}, {5}} : pair \subseteq d.axes}

\* the first hat, unless keys make the D-pad
Hats(d) == {h \in 0 .. 3 : {16 + 2 * h, 17 + 2 * h} \subseteq d.axes}
Hat(d) == IF DPad \cap TablePads(d) # {} THEN {}
          ELSE {h \in Hats(d) : \A k \in Hats(d) : h <= k}
HatPads(d) == IF Hat(d) = {} THEN {} ELSE DPad

\* what is left, in the order of the codes and of the bits; the codes of the
\* axes were cleared among the keys
LeftKeys(d) == d.keys \ (TableKeys(d) \cup Obvious(d))
LeftPads(d) == Pad \ ({Reserved0} \cup TablePads(d) \cup HatPads(d))
Before(S, x) == Cardinality({y \in S : y < x})
Leftover(d) ==
  {l \in LeftKeys(d) \X LeftPads(d) :
     Before(LeftKeys(d), l[1]) = Before(LeftPads(d), l[2])}

\* key_buttons[], as pairs
KeyButtons(d) == {Table[i] : i \in Rows(d)} \cup Leftover(d)

------------------------------------------------------------------------------
(* xinput_linux_evdev_generic_translate(): the axes *)

Axis(to) == [kind |-> "axis", to |-> to]
Sixa(to) == [kind |-> "sixa", to |-> to]
Bttn(pos, neg) == [kind |-> "bttn", pos |-> pos, neg |-> neg]

\* mutant: up and down are not reversed
ObviousItemsPlain ==
  {<<0, Axis(sThumbLX)>>, <<1, Axis(sThumbLY)>>, <<3, Axis(sThumbRX)>>,
   <<4, Axis(sThumbRY)>>, <<2, Axis(bLeftTrigger)>>, <<5, Axis(bRightTrigger)>>}

\* a translator per code, as pairs
ObviousItems ==
  {<<0, Axis(sThumbLX)>>, <<1, Sixa(sThumbLY)>>, <<3, Axis(sThumbRX)>>,
   <<4, Sixa(sThumbRY)>>, <<2, Axis(bLeftTrigger)>>, <<5, Axis(bRightTrigger)>>}

HatItems(d) ==
  UNION {{<<16 + 2 * h, Bttn(DPadRight, DPadLeft)>>,
          <<17 + 2 * h, Bttn(DPadDown, DPadUp)>>} : h \in Hat(d)}

\* any axis left makes up for all that are missing, at the codes 1, 2, 4, ...
\* that name them in the mask: <<axis, code and translator>>
Missing == {<<0, <<1, Axis(sThumbLX)>>>>, <<1, <<2, Sixa(sThumbLY)>>>>,
            <<3, <<4, Axis(sThumbRX)>>>>, <<4, <<8, Sixa(sThumbRY)>>>>,
            <<2, <<16, Axis(sThumbLX)>>>>, <<5, <<32, Axis(sThumbLY)>>>>}
FallbackItems(d) == {m[2] : m \in {m \in Missing : m[1] \notin Obvious(d)}}

EarlierItems(d) ==
  {i \in ObviousItems : i[1] \in Obvious(d)} \cup HatItems(d)
Items(d) ==
  FallbackItems(d) \cup
  {i \in EarlierItems(d) : \A f \in FallbackItems(d) : f[1] # i[1]}

\* the result; the axes are always complete
CanTranslate(d) ==
  {Reserved0} \cup TablePads(d) \cup HatPads(d) \cup {l[2] : l \in Leftover(d)} = Pad

------------------------------------------------------------------------------
(* The tables of the XBox 360 pads *)

\* xinput_gamepad_translation[], from BTN_GAMEPAD, and
\* xinput_gamepad_translation2[], from BTN_TRIGGER_HAPPY1
Translation == <<4096, 8192, 0, 16384, 32768, 0, 256, 512,
                 0, 0, 32, 16, 1024, 64, 128, 0>>
Translation2 == <<DPadLeft, DPadRight, DPadUp, DPadDown>>

\* the button of a key, none for a code without one
HandPad(k) ==
  {IF k \in \h130 .. \h13f THEN Translation[k - \h12f]
   ELSE IF k \in \h2c0 .. \h2c3 THEN Translation2[k - \h2bf] ELSE 0} \ {0}

\* xbox360_key and xbox360_key_bis, xbox360_abs
Keys360 == UNION {{k} \X HandPad(k) : k \in \h130 .. \h13e \cup \h2c0 .. \h2c3}
Abs360 ==
  {<<0, Axis(sThumbLX)>>, <<1, Sixa(sThumbLY)>>, <<2, Axis(bLeftTrigger)>>,
   <<3, Axis(sThumbRX)>>, <<4, Sixa(sThumbRY)>>, <<5, Axis(bRightTrigger)>>,
   <<16, Bttn(DPadRight, DPadLeft)>>, <<17, Bttn(DPadDown, DPadUp)>>}

------------------------------------------------------------------------------
VARIABLES
  dev,       \* the device
  keys,      \* data->key_buttons
  abs,       \* data->abs
  wButtons,  \* the bits that are set
  mem,       \* the bytes from bLeftTrigger to sThumbRY
  held,      \* the keys that are down
  pos,       \* the value an axis has last reported, if it has
  crashed,   \* a NULL translator was called
  handBits,  \* wButtons as the driver written by hand has it ...
  handMem,   \* ... and its bytes
  repeated   \* history: a key has repeated

hand == <<handBits, handMem, repeated>>
data == <<dev, keys, abs>>
vars == <<data, wButtons, mem, held, pos, crashed, hand>>

Value(x) == IF x \in 16 .. 23 THEN {-1, 0, 1} ELSE AxisValue

TypeOK ==
  /\ dev \in Device /\ keys \subseteq dev.keys \X Pad
  /\ wButtons \subseteq Pad
  /\ mem \in [Byte -> 0 .. 255]
  /\ held \subseteq dev.keys
  /\ DOMAIN pos \subseteq dev.axes
  /\ \A x \in DOMAIN pos : pos[x] \in Value(x)
  /\ crashed \in BOOLEAN /\ repeated \in BOOLEAN
  /\ handBits \subseteq Pad /\ handMem \in [Byte -> 0 .. 255]

\* xinput_linux_evdev_generic_new_instance()
Init ==
  /\ dev \in {d \in Device : CanTranslate(d)}
  /\ keys = KeyButtons(dev) /\ abs = Items(dev)
  /\ wButtons = {}
  /\ mem = [b \in Byte |-> 0]
  /\ held = {}
  /\ pos = << >>
  /\ crashed = FALSE /\ repeated = FALSE
  /\ handBits = {} /\ handMem = mem

PadOf(k) == {b[2] : b \in {c \in keys : c[1] = k}}

\* EV_KEY of xinput_linux_evdev_xboxpad_input_event_to_gamepad()
HandKey(k, value) ==
  /\ handBits' = IF value = 1 THEN handBits \cup HandPad(k)
                 ELSE handBits \ HandPad(k)
  /\ repeated' = (repeated \/ value = 2)
  /\ UNCHANGED handMem

\* xinput_linux_evdev_translator_key_input_event_to_gamepad(); value is 1 when
\* the key is pressed, 2 when it repeats
KeyEvent(k, value) ==
  /\ ~crashed
  /\ k \in dev.keys
  /\ IF value # 0
     THEN wButtons' = wButtons \cup PadOf(k) /\ held' = held \cup {k}
     ELSE wButtons' = wButtons \ PadOf(k) /\ held' = held \ {k}
  /\ HandKey(k, value)
  /\ Cardinality(held') <= MaxHeld
  /\ UNCHANGED <<data, mem, pos, crashed>>

\* mutant: the high byte is not cut
StoredWide(m, o, v) ==
  [m EXCEPT ![o] = v % 256, ![o + 1] = v \div 256]

\* mutant: a byte is stored, as the triggers would need
StoredByte(m, o, v) == [m EXCEPT ![o] = v % 256]

\* a SHORT is stored at an offset
Stored(m, o, v) ==
  [m EXCEPT ![o] = v % 256, ![o + 1] = (v \div 256) % 256]

\* mutant: the opposite direction is not released
DirectionSet(i, value) ==
  CASE value > 0 -> wButtons \cup {i.pos}
    [] value < 0 -> wButtons \cup {i.neg}
    [] OTHER     -> wButtons \ {i.pos, i.neg}

Direction(i, value) ==
  CASE value > 0 -> (wButtons \cup {i.pos}) \ {i.neg}
    [] value < 0 -> (wButtons \cup {i.neg}) \ {i.pos}
    [] OTHER     -> wButtons \ {i.pos, i.neg}

\* EV_ABS of xinput_linux_evdev_xboxpad_input_event_to_gamepad(): the triggers
\* are bytes, other axes are ignored
HandAxis(x, value) ==
  /\ handMem' =
       CASE x = 0 -> Stored(handMem, sThumbLX, value)
         [] x = 1 -> Stored(handMem, sThumbLY, -value - 1)
         [] x = 3 -> Stored(handMem, sThumbRX, value)
         [] x = 4 -> Stored(handMem, sThumbRY, -value - 1)
         [] x = 2 -> [handMem EXCEPT ![bLeftTrigger] = value % 256]
         [] x = 5 -> [handMem EXCEPT ![bRightTrigger] = value % 256]
         [] OTHER -> handMem
  /\ handBits' =
       CASE x \notin {16, 17} -> handBits
         [] x = 16 /\ value > 0 -> (handBits \cup {DPadRight}) \ {DPadLeft}
         [] x = 16 /\ value < 0 -> (handBits \cup {DPadLeft}) \ {DPadRight}
         [] x = 17 /\ value > 0 -> (handBits \cup {DPadDown}) \ {DPadUp}
         [] x = 17 /\ value < 0 -> (handBits \cup {DPadUp}) \ {DPadDown}
         [] x = 16 /\ value = 0 -> handBits \ {DPadRight, DPadLeft}
         [] x = 17 /\ value = 0 -> handBits \ {DPadDown, DPadUp}
  /\ UNCHANGED repeated

Reports(x, value) ==
  /\ ~crashed
  /\ x \in dev.axes
  /\ pos' = [y \in DOMAIN pos \cup {x} |-> IF y = x THEN value ELSE pos[y]]
  /\ Cardinality(DOMAIN pos') <= MaxMoved
  /\ HandAxis(x, value)
  /\ UNCHANGED <<data, held>>

\* xinput_linux_evdev_translator_abs_translate_to_axis() and ..._reverse()
AxisEvent(x, value) ==
  /\ Reports(x, value)
  /\ \E i \in abs :
       /\ i[1] = x
       /\ \/ i[2].kind = "axis" /\ mem' = Stored(mem, i[2].to, value)
          \/ i[2].kind = "sixa" /\ mem' = Stored(mem, i[2].to, -value - 1)
  /\ UNCHANGED <<wButtons, crashed>>

\* xinput_linux_evdev_translator_abs_translate_to_buttons()
HatEvent(x, value) ==
  /\ Reports(x, value)
  /\ \E i \in abs :
       i[1] = x /\ i[2].kind = "bttn" /\ wButtons' = Direction(i[2], value)
  /\ UNCHANGED <<mem, crashed>>

\* the axis has no translator: a NULL function is called
UnknownAxis(x, value) ==
  /\ Reports(x, value)
  /\ \A i \in abs : i[1] # x
  /\ crashed' = TRUE
  /\ UNCHANGED <<wButtons, mem>>

Next ==
  \/ \E k \in Pressed, value \in 0 .. 2 : KeyEvent(k, value)
  \/ \E x \in dev.axes : \E value \in Value(x) :
       AxisEvent(x, value) \/ HatEvent(x, value) \/ UnknownAxis(x, value)

Spec == Init /\ [][Next]_vars

------------------------------------------------------------------------------
(* What a gamepad with both sticks and both triggers gets *)

Complete(d) == 0 .. 5 \subseteq d.axes
Directions == {i \in abs : i[2].kind = "bttn"}

\* A device that can be translated (xinput_linux_evdev_generic_can_translate())
\* drives every button, each from one key or from one direction of one hat,
\* and no two axes move the same stick or trigger.
AllDriven ==
  Complete(dev) =>
    /\ \A p \in Pad \ {Reserved0} :
         Cardinality({b \in keys : b[2] = p})
           + Cardinality({i \in Directions : p \in {i[2].pos, i[2].neg}}) = 1
    /\ \A i, j \in abs \ Directions : i # j => i[2].to # j[2].to

\* After any sequence of events the buttons are those whose keys are down and
\* whose hat points at them, however keys repeat and hats swing over.
HatButtons ==
  LET Reported == {i \in Directions : i[1] \in DOMAIN pos} IN
  {i[2].pos : i \in {j \in Reported : pos[j[1]] > 0}} \cup
  {i[2].neg : i \in {j \in Reported : pos[j[1]] < 0}}
ButtonsFollow ==
  Complete(dev) => wButtons = (UNION {PadOf(k) : k \in held}) \cup HatButtons

\* The thumb sticks and the left trigger are where the device has last
\* reported them, up being positive; of sThumbLX only the high byte is, as the
\* right trigger is stored as a SHORT that reaches into it.
Short(o) == mem[o] + 256 * mem[o + 1]
SticksFollow ==
  Complete(dev) =>
    /\ 1 \in DOMAIN pos => Short(sThumbLY) = (-pos[1] - 1) % 65536
    /\ 3 \in DOMAIN pos => Short(sThumbRX) = pos[3] % 65536
    /\ 4 \in DOMAIN pos => Short(sThumbRY) = (-pos[4] - 1) % 65536
    /\ 0 \in DOMAIN pos => mem[sThumbLX + 1] = (pos[0] \div 256) % 256
    /\ 2 \in DOMAIN pos => mem[bLeftTrigger] = pos[2] % 256

\* Of an XBox 360 pad the tables are those written for it: "The next driver I'll
\* write is one that generates the same tables" (xinput_linux_evdev_xboxpad_2.c:36).
\* Its D-pad is a hat or, of a wireless one, keys, never both.
Is360(d) ==
  /\ {Table[i][1] : i \in 1 .. 11} \subseteq d.keys
  /\ \A k \in d.keys : HandPad(k) # {}
  /\ Complete(d)
  /\ \/ d.axes = 0 .. 5 \cup {16, 17} /\ d.keys \cap \h2c0 .. \h2c3 = {}
     \/ d.axes = 0 .. 5
SameTables ==
  Is360(dev) =>
    /\ keys = {b \in Keys360 : b[1] \in dev.keys}
    /\ abs = {i \in Abs360 : i[1] \in dev.axes}

\* Any sequence of events of such a pad has then the effect it has with the
\* driver that translates by hand, but for a key that repeats and for the bytes
\* a trigger stored as a SHORT reaches into.
DriversAgree ==
  Is360(dev) =>
    /\ ~repeated => wButtons = handBits
    /\ \A b \in Byte \ {bRightTrigger, sThumbLX} : mem[b] = handMem[b]

==============================================================================
