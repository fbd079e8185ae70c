------------------------ MODULE XinputTranslateProofs ------------------------
(***************************************************************************)
(* The translation of events, for any devices, any values an axis reports  *)
(* and any number of keys held.                                            *)
(*                                                                         *)
(* The arguments: the tables never change, so what is said of them is said *)
(* of the operators that make them; of each button there is one key, since *)
(* the rows are the first of their buttons and what is left is paired by   *)
(* rank; a hat's directions have no keys.  The rest are inductions over    *)
(* the events, with the device's tables and the types as their context.    *)
(***************************************************************************)
EXTENDS XinputTranslate, TLAPS, FiniteSetTheorems

\* The bits of wButtons.
LEMMA PadFacts ==
  /\ Pad = {1, 2, 4, 8, 16, 32, 64, 128, 256, 512, 1024, 2048, 4096, 8192, 16384, 32768}
  /\ DPad = {1, 2, 4, 8} /\ DPad \subseteq Pad
<1>1. Pad = {1, 2, 4, 8, 16, 32, 64, 128, 256, 512, 1024, 2048, 4096, 8192, 16384, 32768}
  BY DEF Pad
<1> QED
  BY <1>1 DEF DPad, DPadUp, DPadDown, DPadLeft, DPadRight

\* A row of the table is a key and a button.
LEMMA TablePairs == \A i \in 1 .. 19 : Table[i] = <<Table[i][1], Table[i][2]>>
BY DEF Table

\* The table's codes and buttons; none is the reserved bit.
LEMMA TableFacts ==
  /\ DOMAIN Table = 1 .. 19
  /\ \A i \in 1 .. 19 : Table[i][1] \in \h130 .. \h2c3
  /\ \A i \in 1 .. 19 : Table[i][2] \in Pad \ {Reserved0}
<1>1. DOMAIN Table = 1 .. 19
  BY DEF Table
<1>2. \A i \in 1 .. 19 : Table[i][1] \in \h130 .. \h2c3
  BY DEF Table
<1>3. \A i \in 1 .. 19 :
        Table[i][2] \in {1, 2, 4, 8, 16, 32, 64, 128, 256, 512, 1024, 4096, 8192, 16384, 32768}
  BY DEF Table, DPadUp, DPadDown, DPadLeft, DPadRight
<1>4. {1, 2, 4, 8, 16, 32, 64, 128, 256, 512, 1024, 4096, 8192, 16384, 32768}
        = Pad \ {Reserved0}
  BY PadFacts DEF Reserved0
<1>5. \A i \in 1 .. 19 : Table[i][2] \in Pad \ {Reserved0}
  BY <1>3, <1>4
<1> QED
  BY <1>1, <1>2, <1>5

\* key_buttons[] is of the device's keys.
LEMMA KeysType ==
  ASSUME NEW d
  PROVE  KeyButtons(d) \subseteq d.keys \X Pad
<1>1. \A i \in Rows(d) : Table[i] \in d.keys \X Pad
  <2>1. \A i \in Rows(d) : i \in 1 .. 19 /\ Table[i][1] \in d.keys /\ Table[i][2] \in Pad
    BY TableFacts DEF Rows
  <2>2. \A i \in Rows(d) : <<Table[i][1], Table[i][2]>> \in d.keys \X Pad
    BY <2>1
  <2> QED
    BY <2>1, <2>2, TablePairs, Zenon
<1>2. Leftover(d) \subseteq d.keys \X Pad
  BY DEF Leftover, LeftKeys, LeftPads
<1> QED
  BY <1>1, <1>2 DEF KeyButtons

\* The bytes of the gamepad, and the offsets at which something is stored.
Memory == [Byte -> 0 .. 255]
Offset == {2, 3, 4, 6, 8, 10}

\* A translator to an axis and one to two buttons.
IsAxis(i) == i[2].kind \in {"axis", "sixa"} /\ i[2].to \in Offset
IsBttn(i) == i[2].kind = "bttn" /\ i[2].pos \in DPad /\ i[2].neg \in DPad

\* A translator stores at an offset of the gamepad or sets a direction.
LEMMA ItemsType ==
  ASSUME NEW d, NEW i \in Items(d)
  PROVE  IsAxis(i) \/ IsBttn(i)
<1> USE DEF Offset, Axis, Sixa, sThumbLX, sThumbLY, sThumbRX, sThumbRY,
            bLeftTrigger, bRightTrigger
<1>1. \A m \in Missing : IsAxis(m[2])
  BY DEF Missing, IsAxis
<1>2. \A j \in ObviousItems : IsAxis(j)
  BY DEF ObviousItems, IsAxis
<1>3. \A j \in HatItems(d) : IsBttn(j)
  BY DEF HatItems, Bttn, IsBttn, DPad
<1> QED
  BY <1>1, <1>2, <1>3 DEF Items, FallbackItems, EarlierItems

\* The two bytes of a SHORT.
Low(v) == v % 256
High(v) == (v \div 256) % 256

\* What storing a SHORT does: two bytes are its own, the others stay.
LEMMA StoredFacts ==
  ASSUME NEW m \in Memory, NEW o \in Offset, NEW v \in Int
  PROVE  /\ Stored(m, o, v) \in Memory
         /\ Stored(m, o, v)[o] = Low(v)
         /\ Stored(m, o, v)[o + 1] = High(v)
         /\ \A b \in Byte : b # o /\ b # o + 1 => Stored(m, o, v)[b] = m[b]
<1>1. v % 256 \in 0 .. 255 /\ (v \div 256) % 256 \in 0 .. 255
  OBVIOUS
<1>2. o \in Byte /\ o + 1 \in Byte /\ o # o + 1 /\ o \in Int
  BY DEF Byte, Offset
<1>3. m \in [Byte -> 0 .. 255]
  BY DEF Memory
<1>5. Stored(m, o, v) = [m EXCEPT ![o] = v % 256, ![o + 1] = (v \div 256) % 256]
  BY DEF Stored
<1>6. /\ Low(v) \in 0 .. 255 /\ High(v) \in 0 .. 255
      /\ Stored(m, o, v) = [m EXCEPT ![o] = Low(v), ![o + 1] = High(v)]
  BY <1>1, <1>5 DEF Low, High
<1>7. /\ Stored(m, o, v) \in Memory
      /\ Stored(m, o, v)[o] = Low(v) /\ Stored(m, o, v)[o + 1] = High(v)
      /\ \A b \in Byte : b # o /\ b # o + 1 => Stored(m, o, v)[b] = m[b]
  BY <1>2, <1>3, <1>6 DEF Memory
<1> QED
  BY <1>7

\* The buttons of the driver written by hand.
LEMMA HandPadType == \A k : HandPad(k) \subseteq Pad \ {Reserved0}
<1>1. ASSUME NEW k \in \h130 .. \h13f
      PROVE  Translation[k - \h12f] \in
               {0, 4096, 8192, 16384, 32768, 256, 512, 32, 16, 1024, 64, 128}
  BY <1>1 DEF Translation
<1>2. ASSUME NEW k \in \h2c0 .. \h2c3
      PROVE  Translation2[k - \h2bf] \in {1, 2, 4, 8}
  BY <1>2 DEF Translation2, DPadUp, DPadDown, DPadLeft, DPadRight
<1> QED
  BY <1>1, <1>2, PadFacts DEF HandPad, Reserved0

\* What an axis reports is a number.
LEMMA ValueInt == \A x \in 0 .. 63 : Value(x) \subseteq Int
BY ValueAssumption DEF Value

\* The types, and what generic_new_instance() has set for good.
TypeInv ==
  /\ TypeOK
  /\ CanTranslate(dev)
  /\ keys = KeyButtons(dev) /\ abs = Items(dev)

\* The types and the tables, initially ...
LEMMA TypeInit == Init => TypeInv
<1> SUFFICES ASSUME Init PROVE TypeInv
  OBVIOUS
<1>1. keys \subseteq dev.keys \X Pad
  BY KeysType DEF Init
<1>2. mem \in Memory /\ handMem = mem
  BY DEF Init, Memory
<1>3. dev \in Device /\ CanTranslate(dev) /\ keys = KeyButtons(dev) /\ abs = Items(dev)
  BY DEF Init
<1>4. DOMAIN pos = {}
  BY DEF Init
<1>5. /\ wButtons = {} /\ held = {} /\ handBits = {}
      /\ crashed \in BOOLEAN /\ repeated \in BOOLEAN
  BY DEF Init
<1> QED
  BY <1>1, <1>2, <1>3, <1>4, <1>5 DEF TypeInv, TypeOK, Memory

\* What an event of an axis leaves of the types: everything but the gamepad.
LEMMA ReportsType ==
  ASSUME TypeInv, NEW x \in dev.axes, NEW value \in Value(x), Reports(x, value)
  PROVE  /\ value \in Int /\ x \in 0 .. 63
         /\ UNCHANGED <<dev, keys, abs, held, repeated>>
         /\ DOMAIN pos' = DOMAIN pos \cup {x}
         /\ pos'[x] = value
         /\ \A y \in DOMAIN pos : y # x => pos'[y] = pos[y]
         /\ DOMAIN pos' \subseteq dev.axes
         /\ \A y \in DOMAIN pos' : pos'[y] \in Value(y)
         /\ handMem' \in Memory
         /\ handBits' \subseteq Pad
<1>1. value \in Int /\ x \in 0 .. 63
  BY ValueInt, DeviceAssumption DEF TypeInv, TypeOK, Memory
<1>2. UNCHANGED <<dev, keys, abs, held, repeated>>
  BY DEF Reports, data, HandAxis
<1>3. pos' = [y \in DOMAIN pos \cup {x} |-> IF y = x THEN value ELSE pos[y]]
  BY DEF Reports
<1>4. /\ DOMAIN pos' = DOMAIN pos \cup {x}
      /\ pos'[x] = value
      /\ \A y \in DOMAIN pos : y # x => pos'[y] = pos[y]
  BY <1>3
<1>5. DOMAIN pos' \subseteq dev.axes /\ \A y \in DOMAIN pos' : pos'[y] \in Value(y)
  BY <1>4 DEF TypeInv, TypeOK, Memory
<1>6. handMem \in Memory /\ handBits \subseteq Pad
  BY DEF TypeInv, TypeOK, Memory
<1>7. handMem' \in Memory
  <2>0. sThumbLX \in Offset /\ sThumbLY \in Offset /\ sThumbRX \in Offset /\ sThumbRY \in Offset
    BY DEF Offset, sThumbLX, sThumbLY, sThumbRX, sThumbRY
  <2>1. -value - 1 \in Int /\ value % 256 \in 0 .. 255
    BY <1>1
  <2>2. /\ Stored(handMem, sThumbLX, value) \in Memory
        /\ Stored(handMem, sThumbLY, -value - 1) \in Memory
        /\ Stored(handMem, sThumbRX, value) \in Memory
        /\ Stored(handMem, sThumbRY, -value - 1) \in Memory
    BY <1>1, <1>6, <2>1, <2>0, StoredFacts
  <2>3. /\ [handMem EXCEPT ![bLeftTrigger] = value % 256] \in Memory
        /\ [handMem EXCEPT ![bRightTrigger] = value % 256] \in Memory
    BY <1>6, <2>1 DEF Memory
  <2> QED
    BY <1>6, <2>2, <2>3 DEF Reports, HandAxis
<1>8. handBits' \subseteq Pad
  BY <1>1, <1>6, PadFacts DEF Reports, HandAxis, DPad, DPadUp, DPadDown, DPadLeft, DPadRight
<1> QED
  BY <1>1, <1>2, <1>4, <1>5, <1>7, <1>8

\* ... and after each event.
LEMMA TypeStep == TypeInv /\ [Next]_vars => TypeInv'
<1> SUFFICES ASSUME TypeInv, [Next]_vars PROVE TypeInv'
  OBVIOUS
<1>0. /\ dev \in Device /\ keys \subseteq dev.keys \X Pad
      /\ CanTranslate(dev) /\ keys = KeyButtons(dev) /\ abs = Items(dev)
      /\ wButtons \subseteq Pad /\ mem \in Memory
      /\ crashed \in BOOLEAN /\ repeated \in BOOLEAN /\ held \subseteq dev.keys
      /\ handBits \subseteq Pad /\ handMem \in Memory
      /\ DOMAIN pos \subseteq dev.axes /\ \A y \in DOMAIN pos : pos[y] \in Value(y)
  BY DEF TypeInv, TypeOK, Memory
<1>1. ASSUME NEW k \in Pressed, NEW value \in 0 .. 2, KeyEvent(k, value)
      PROVE  TypeInv'
  <2>1. PadOf(k) \subseteq Pad
    BY <1>0 DEF PadOf
  <2>2. wButtons' \subseteq Pad /\ held' \subseteq dev.keys
    BY <1>0, <1>1, <2>1 DEF KeyEvent
  <2>3. handBits' \subseteq Pad /\ handMem' = handMem
    BY <1>0, <1>1, HandPadType DEF KeyEvent, HandKey
  <2>4. repeated' \in BOOLEAN
    BY <1>1, Zenon DEF KeyEvent, HandKey
  <2>5. UNCHANGED <<dev, keys, abs, mem, pos, crashed>>
    BY <1>1 DEF KeyEvent, data
  <2> QED
    BY <1>0, <2>2, <2>3, <2>4, <2>5 DEF TypeInv, TypeOK, Memory
<1>2. ASSUME NEW x \in dev.axes, NEW value \in Value(x),
             AxisEvent(x, value) \/ HatEvent(x, value) \/ UnknownAxis(x, value)
      PROVE  TypeInv'
  <2>1. Reports(x, value)
    BY <1>2 DEF AxisEvent, HatEvent, UnknownAxis
  <2>2. /\ value \in Int /\ x \in 0 .. 63
        /\ UNCHANGED <<dev, keys, abs, held, repeated>>
        /\ DOMAIN pos' = DOMAIN pos \cup {x}
        /\ pos'[x] = value
        /\ \A y \in DOMAIN pos : y # x => pos'[y] = pos[y]
        /\ DOMAIN pos' \subseteq dev.axes
        /\ \A y \in DOMAIN pos' : pos'[y] \in Value(y)
        /\ handMem' \in Memory
        /\ handBits' \subseteq Pad
    BY <2>1, ReportsType, Zenon
  <2>3. /\ wButtons' \subseteq Pad /\ mem' \in Memory
        /\ crashed' \in BOOLEAN
    <3>1. ASSUME AxisEvent(x, value)
          PROVE  mem' \in Memory /\ wButtons' = wButtons /\ crashed' = crashed
      <4>1. PICK i \in abs :
              \/ i[2].kind = "axis" /\ mem' = Stored(mem, i[2].to, value)
              \/ i[2].kind = "sixa" /\ mem' = Stored(mem, i[2].to, -value - 1)
        BY <3>1 DEF AxisEvent
      <4>2. i[2].to \in Offset
        BY <1>0, <4>1, ItemsType DEF IsAxis, IsBttn
      <4>3. PICK o \in Offset, v \in Int : mem' = Stored(mem, o, v)
        BY <2>2, <4>1, <4>2
      <4>5. mem \in Memory
        BY <1>0
      <4>4. mem' \in Memory
        BY <4>3, <4>5, StoredFacts
      <4> QED
        BY <3>1, <4>4 DEF AxisEvent
    <3>2. ASSUME HatEvent(x, value)
          PROVE  mem' = mem /\ wButtons' \subseteq Pad /\ crashed' = crashed
      <4>1. PICK i \in abs : i[2].kind = "bttn" /\ wButtons' = Direction(i[2], value)
        BY <3>2 DEF HatEvent
      <4>2. i[2].pos \in Pad /\ i[2].neg \in Pad
        BY <1>0, <4>1, ItemsType, PadFacts DEF IsAxis, IsBttn
      <4>3. wButtons' \subseteq Pad
        BY <1>0, <2>2, <4>1, <4>2 DEF Direction
      <4> QED
        BY <3>2, <4>3 DEF HatEvent
    <3>3. ASSUME UnknownAxis(x, value)
          PROVE  mem' = mem /\ wButtons' = wButtons /\ crashed' = TRUE
      BY <3>3 DEF UnknownAxis
    <3> QED
      BY <1>0, <1>2, <3>1, <3>2, <3>3
  <2> QED
    BY <1>0, <2>2, <2>3 DEF TypeInv, TypeOK, Memory
<1>3. CASE UNCHANGED vars
  <2>1. UNCHANGED <<dev, keys, abs, wButtons, mem, held, pos, crashed, handBits, handMem, repeated>>
    BY <1>3 DEF vars, data, hand
  <2> QED
    BY <1>0, <2>1 DEF TypeInv, TypeOK, Memory
<1> QED
  BY <1>1, <1>2, <1>3 DEF Next

\* Type correctness.
THEOREM TypeOKHolds == Spec => []TypeOK
<1>1. TypeInv => TypeOK
  BY DEF TypeInv
<1> QED
  BY <1>1, TypeInit, TypeStep, PTL DEF Spec

------------------------------------------------------------------------------
(* The axes of a device that has both sticks and both triggers *)

\* With both sticks and both triggers nothing has to be made up for.
LEMMA CompleteItems ==
  ASSUME NEW d, Complete(d)
  PROVE  Items(d) = ObviousItems \cup HatItems(d)
<1>1. {0, 1} \subseteq d.axes /\ {3, 4} \subseteq d.axes /\ {2} \subseteq d.axes /\ {5} \subseteq d.axes
  BY DEF Complete
<1>2. 0 \in Obvious(d) /\ 1 \in Obvious(d) /\ 2 \in Obvious(d)
      /\ 3 \in Obvious(d) /\ 4 \in Obvious(d) /\ 5 \in Obvious(d)
  BY <1>1 DEF Obvious
<1>3. FallbackItems(d) = {}
  BY <1>2 DEF FallbackItems, Missing
<1>4. \A i \in ObviousItems : i[1] \in Obvious(d)
  BY <1>2 DEF ObviousItems
<1>5. EarlierItems(d) = ObviousItems \cup HatItems(d)
  BY <1>4 DEF EarlierItems
<1> QED
  BY <1>3, <1>5 DEF Items

\* One hat at most is used, and its two axes are the directions of the D-pad.
LEMMA HatFacts ==
  ASSUME NEW d
  PROVE  /\ Hat(d) \subseteq 0 .. 3
         /\ \A h, k \in Hat(d) : h = k
         /\ \A i \in HatItems(d) : \E h \in Hat(d) :
              \/ i[1] = 16 + 2 * h /\ i[2] = Bttn(DPadRight, DPadLeft)
              \/ i[1] = 17 + 2 * h /\ i[2] = Bttn(DPadDown, DPadUp)
         /\ \A h \in Hat(d) :
              /\ <<16 + 2 * h, Bttn(DPadRight, DPadLeft)>> \in HatItems(d)
              /\ <<17 + 2 * h, Bttn(DPadDown, DPadUp)>> \in HatItems(d)
<1>1. Hat(d) \subseteq 0 .. 3
  BY DEF Hat, Hats
<1>2. \A h, k \in Hat(d) : h = k
  <2>1. \A h, k \in Hat(d) : h <= k /\ k <= h
    BY DEF Hat
  <2> QED
    BY <1>1, <2>1
<1>3. \A i \in HatItems(d) : \E h \in Hat(d) :
        \/ i = <<16 + 2 * h, Bttn(DPadRight, DPadLeft)>>
        \/ i = <<17 + 2 * h, Bttn(DPadDown, DPadUp)>>
  BY DEF HatItems
<1>4. \A h \in Hat(d) :
        /\ <<16 + 2 * h, Bttn(DPadRight, DPadLeft)>> \in HatItems(d)
        /\ <<17 + 2 * h, Bttn(DPadDown, DPadUp)>> \in HatItems(d)
  BY DEF HatItems
<1> QED
  BY <1>1, <1>2, <1>3, <1>4

\* What the first six axes do: an item each, and each to an offset of its own.
LEMMA ObviousFacts ==
  /\ \A i \in ObviousItems :
       \/ i[1] = 0 /\ i[2].kind = "axis" /\ i[2].to = 4
       \/ i[1] = 1 /\ i[2].kind = "sixa" /\ i[2].to = 6
       \/ i[1] = 3 /\ i[2].kind = "axis" /\ i[2].to = 8
       \/ i[1] = 4 /\ i[2].kind = "sixa" /\ i[2].to = 10
       \/ i[1] = 2 /\ i[2].kind = "axis" /\ i[2].to = 2
       \/ i[1] = 5 /\ i[2].kind = "axis" /\ i[2].to = 3
  /\ \A x \in 0 .. 5 : \E i \in ObviousItems : i[1] = x
  /\ \A i, j \in ObviousItems : i[1] = j[1] => i = j
<1> USE DEF Axis, Sixa, sThumbLX, sThumbLY, sThumbRX, sThumbRY, bLeftTrigger, bRightTrigger
<1>1. \A i \in ObviousItems :
       \/ i[1] = 0 /\ i[2].kind = "axis" /\ i[2].to = 4
       \/ i[1] = 1 /\ i[2].kind = "sixa" /\ i[2].to = 6
       \/ i[1] = 3 /\ i[2].kind = "axis" /\ i[2].to = 8
       \/ i[1] = 4 /\ i[2].kind = "sixa" /\ i[2].to = 10
       \/ i[1] = 2 /\ i[2].kind = "axis" /\ i[2].to = 2
       \/ i[1] = 5 /\ i[2].kind = "axis" /\ i[2].to = 3
  BY DEF ObviousItems
<1>2. \A x \in 0 .. 5 : \E i \in ObviousItems : i[1] = x
  BY DEF ObviousItems
<1>3. \A i, j \in ObviousItems : i[1] = j[1] => i = j
  BY DEF ObviousItems
<1> QED
  BY <1>1, <1>2, <1>3

\* The directions of a translator to buttons.
LEMMA BttnFacts ==
  \A p, n : Bttn(p, n).kind = "bttn" /\ Bttn(p, n).pos = p /\ Bttn(p, n).neg = n
BY DEF Bttn

\* Where an event of one of the six axes is stored.
LEMMA AxisMoves ==
  ASSUME TypeInv, Complete(dev), NEW x, NEW value, AxisEvent(x, value)
  PROVE  \/ x = 0 /\ mem' = Stored(mem, 4, value)
         \/ x = 1 /\ mem' = Stored(mem, 6, -value - 1)
         \/ x = 3 /\ mem' = Stored(mem, 8, value)
         \/ x = 4 /\ mem' = Stored(mem, 10, -value - 1)
         \/ x = 2 /\ mem' = Stored(mem, 2, value)
         \/ x = 5 /\ mem' = Stored(mem, 3, value)
<1>1. PICK i \in Items(dev) :
        /\ i[1] = x
        /\ \/ i[2].kind = "axis" /\ mem' = Stored(mem, i[2].to, value)
           \/ i[2].kind = "sixa" /\ mem' = Stored(mem, i[2].to, -value - 1)
  BY DEF AxisEvent, TypeInv
<1>2. i \notin HatItems(dev)
  BY <1>1, HatFacts, BttnFacts
<1>3. i \in ObviousItems
  BY <1>2, CompleteItems
<1> QED
  BY <1>1, <1>3, ObviousFacts

\* What an event of the hat sets.
LEMMA HatMoves ==
  ASSUME TypeInv, Complete(dev), NEW x, NEW value, HatEvent(x, value)
  PROVE  \E h \in Hat(dev) :
           \/ x = 16 + 2 * h /\ wButtons' = Direction(Bttn(DPadRight, DPadLeft), value)
           \/ x = 17 + 2 * h /\ wButtons' = Direction(Bttn(DPadDown, DPadUp), value)
<1>1. PICK i \in Items(dev) :
        i[1] = x /\ i[2].kind = "bttn" /\ wButtons' = Direction(i[2], value)
  BY DEF HatEvent, TypeInv
<1>2. i \notin ObviousItems
  BY <1>1, ObviousFacts
<1>3. i \in HatItems(dev)
  BY <1>2, CompleteItems
<1> QED
  BY <1>1, <1>3, HatFacts

\* Only an axis beside the six and the hat lacks a translator.
LEMMA UnknownIsOther ==
  ASSUME TypeInv, Complete(dev), NEW x, NEW value, UnknownAxis(x, value)
  PROVE  /\ x \notin 0 .. 5
         /\ \A h \in Hat(dev) : x # 16 + 2 * h /\ x # 17 + 2 * h
<1>1. \A i \in ObviousItems \cup HatItems(dev) : i[1] # x
  BY CompleteItems DEF UnknownAxis, TypeInv
<1>2. x \notin 0 .. 5
  BY <1>1, ObviousFacts
<1>3. ASSUME NEW h \in Hat(dev) PROVE x # 16 + 2 * h /\ x # 17 + 2 * h
  <2>1. /\ <<16 + 2 * h, Bttn(DPadRight, DPadLeft)>> \in HatItems(dev)
        /\ <<17 + 2 * h, Bttn(DPadDown, DPadUp)>> \in HatItems(dev)
    BY HatFacts
  <2>2. \A i \in HatItems(dev) : i[1] # x
    BY <1>1
  <2> QED
    BY <2>1, <2>2
<1> QED
  BY <1>2, <1>3

\* The bytes of a SHORT are the SHORT.
LEMMA ShortFacts ==
  ASSUME NEW v \in Int
  PROVE  (v % 256) + 256 * ((v \div 256) % 256) = v % 65536
OBVIOUS

Sticks == TypeInv /\ SticksFollow

\* Each event stores what it reports, and away from the others' bytes.
LEMMA SticksStep == Sticks /\ [Next]_vars => Sticks'
<1> SUFFICES ASSUME Sticks, [Next]_vars PROVE Sticks'
  OBVIOUS
<1>t. TypeInv /\ TypeInv' /\ SticksFollow
  BY TypeStep DEF Sticks
<1> SUFFICES ASSUME Complete(dev)' PROVE SticksFollow'
  BY <1>t DEF Sticks, SticksFollow
<1>1. ASSUME NEW k \in Pressed, NEW value \in 0 .. 2, KeyEvent(k, value)
      PROVE  SticksFollow'
  BY <1>t, <1>1 DEF KeyEvent, data, SticksFollow, Short, Complete
<1>2. ASSUME NEW x \in dev.axes, NEW value \in Value(x),
             AxisEvent(x, value) \/ HatEvent(x, value) \/ UnknownAxis(x, value)
      PROVE  SticksFollow'
  <2>1. Reports(x, value)
    BY <1>2 DEF AxisEvent, HatEvent, UnknownAxis
  <2>2. /\ value \in Int /\ x \in 0 .. 63
        /\ dev' = dev
        /\ DOMAIN pos' = DOMAIN pos \cup {x}
        /\ pos'[x] = value
        /\ \A y \in DOMAIN pos : y # x => pos'[y] = pos[y]
    BY <1>t, <2>1, ReportsType
  <2>3. Complete(dev)
    BY <2>2
  <2>4. mem \in Memory /\ mem' \in Memory
    BY <1>t DEF TypeInv, TypeOK, Memory
  <2>5. /\ 1 \in DOMAIN pos => mem[6] + 256 * mem[7] = (-pos[1] - 1) % 65536
        /\ 3 \in DOMAIN pos => mem[8] + 256 * mem[9] = pos[3] % 65536
        /\ 4 \in DOMAIN pos => mem[10] + 256 * mem[11] = (-pos[4] - 1) % 65536
        /\ 0 \in DOMAIN pos => mem[5] = (pos[0] \div 256) % 256
        /\ 2 \in DOMAIN pos => mem[2] = pos[2] % 256
    BY <1>t, <2>3 DEF SticksFollow, Short, sThumbLX, sThumbLY, sThumbRX, sThumbRY, bLeftTrigger
  <2> DEFINE
    Goal ==
        /\ 1 \in DOMAIN pos' => mem'[6] + 256 * mem'[7] = (-pos'[1] - 1) % 65536
        /\ 3 \in DOMAIN pos' => mem'[8] + 256 * mem'[9] = pos'[3] % 65536
        /\ 4 \in DOMAIN pos' => mem'[10] + 256 * mem'[11] = (-pos'[4] - 1) % 65536
        /\ 0 \in DOMAIN pos' => mem'[5] = (pos'[0] \div 256) % 256
        /\ 2 \in DOMAIN pos' => mem'[2] = pos'[2] % 256
  <2>6. ASSUME mem' = mem, x \notin 0 .. 5 PROVE Goal
    BY <2>2, <2>5, <2>6
  <2>7. ASSUME AxisEvent(x, value) PROVE Goal
    <3>1. PICK o \in Offset, v \in Int :
            /\ mem' = Stored(mem, o, v)
            /\ \/ x = 0 /\ o = 4 /\ v = value
               \/ x = 1 /\ o = 6 /\ v = -value - 1
               \/ x = 3 /\ o = 8 /\ v = value
               \/ x = 4 /\ o = 10 /\ v = -value - 1
               \/ x = 2 /\ o = 2 /\ v = value
               \/ x = 5 /\ o = 3 /\ v = value
      <4>1. 4 \in Offset /\ 6 \in Offset /\ 8 \in Offset /\ 10 \in Offset /\ 2 \in Offset /\ 3 \in Offset
        BY DEF Offset
      <4>2. -value - 1 \in Int
        BY <2>2
      <4> QED
        BY <1>t, <2>2, <2>3, <2>7, <4>1, <4>2, AxisMoves
    <3>2. /\ mem'[o] = Low(v) /\ mem'[o + 1] = High(v)
          /\ \A b \in Byte : b # o /\ b # o + 1 => mem'[b] = mem[b]
      BY <2>4, <3>1, StoredFacts
    <3>3. mem'[o] + 256 * mem'[o + 1] = v % 65536
      BY <3>2, ShortFacts DEF Low, High
    <3>4. \A b \in 2 .. 11 : b # o /\ b # o + 1 => mem'[b] = mem[b]
      BY <3>2 DEF Byte
    <3>5. CASE x = 0
      BY <2>2, <2>5, <3>1, <3>2, <3>4, <3>5 DEF High
    <3>6. CASE x = 1
      BY <2>2, <2>5, <3>1, <3>3, <3>4, <3>6
    <3>7. CASE x = 3
      BY <2>2, <2>5, <3>1, <3>3, <3>4, <3>7
    <3>8. CASE x = 4
      BY <2>2, <2>5, <3>1, <3>3, <3>4, <3>8
    <3>9. CASE x = 2
      BY <2>2, <2>5, <3>1, <3>2, <3>4, <3>9 DEF Low
    <3>10. CASE x = 5
      BY <2>2, <2>5, <3>1, <3>2, <3>4, <3>10
    <3> QED
      BY <3>1, <3>5, <3>6, <3>7, <3>8, <3>9, <3>10
  <2>8. ASSUME HatEvent(x, value) PROVE Goal
    <3>1. mem' = mem
      BY <2>8 DEF HatEvent
    <3>2. x \notin 0 .. 5
      BY <1>t, <2>3, <2>8, HatMoves, HatFacts
    <3> QED
      BY <2>6, <3>1, <3>2
  <2>9. ASSUME UnknownAxis(x, value) PROVE Goal
    <3>1. mem' = mem
      BY <2>9 DEF UnknownAxis
    <3> QED
      BY <1>t, <2>3, <2>6, <2>9, <3>1, UnknownIsOther
  <2>10. Goal
    BY <1>2, <2>7, <2>8, <2>9
  <2> QED
    BY <2>10 DEF SticksFollow, Short, sThumbLX, sThumbLY, sThumbRX, sThumbRY, bLeftTrigger
<1>3. CASE UNCHANGED vars
  BY <1>t, <1>3 DEF vars, data, SticksFollow, Short, Complete
<1> QED
  BY <1>1, <1>2, <1>3 DEF Next

\* The sticks and the left trigger are where the device has last reported them.
THEOREM SticksFollowHolds == Spec => []SticksFollow
<1>1. Init => Sticks
  BY TypeInit DEF Init, Sticks, SticksFollow
<1>2. Sticks => SticksFollow
  BY DEF Sticks
<1> QED
  BY <1>1, <1>2, SticksStep, PTL DEF Spec

------------------------------------------------------------------------------
(* The keys: a button has one key, or the D-pad one hat *)

\* No two members of a finite set of numbers have one rank.
LEMMA RankIncreases ==
  ASSUME NEW S, IsFiniteSet(S), S \subseteq Int, NEW x \in S, NEW y \in S, x < y
  PROVE  Before(S, x) # Before(S, y)
<1> DEFINE Lower == {z \in S : z < x}
           Upper == {z \in S : z < y}
<1>1. Lower \cup {x} \subseteq Upper /\ x \notin Lower
  <2>1. \A z \in S : z \in Int
    OBVIOUS
  <2>2. \A z \in S : z < x => z < y
    BY <2>1
  <2>3. ~(x < x)
    BY <2>1
  <2>4. Lower \subseteq Upper
    BY <2>2
  <2> QED
    BY <2>3, <2>4
<1>2. IsFiniteSet(Upper) /\ IsFiniteSet(Lower)
  BY FS_Subset
<1> HIDE DEF Lower, Upper
<1>3. /\ IsFiniteSet(Lower \cup {x})
      /\ Cardinality(Lower \cup {x}) = Cardinality(Lower) + 1
  BY <1>1, <1>2, FS_AddElement
<1>4. Cardinality(Lower \cup {x}) <= Cardinality(Upper)
  BY <1>1, <1>2, FS_Subset
<1>5. Cardinality(Lower) \in Nat /\ Cardinality(Upper) \in Nat
  BY <1>2, FS_CardinalityType
<1>6. Cardinality(Lower) # Cardinality(Upper)
  BY <1>3, <1>4, <1>5
<1> QED
  BY <1>6 DEF Before, Lower, Upper

\* No two keys are of the same button.
LEMMA KeysUnique ==
  ASSUME NEW d \in Device, NEW a \in KeyButtons(d), NEW b \in KeyButtons(d), a[2] = b[2]
  PROVE  a = b
<1>1. ASSUME NEW i \in Rows(d), NEW j \in Rows(d), Table[i][2] = Table[j][2]
      PROVE  i = j
  <2>1. i \in 1 .. 19 /\ j \in 1 .. 19
    BY TableFacts DEF Rows
  <2>2. ~(i < j) /\ ~(j < i)
    BY <1>1, <2>1 DEF Rows
  <2> QED
    BY <2>1, <2>2
<1>2. ASSUME NEW l \in Leftover(d)
      PROVE  /\ l[1] \in LeftKeys(d) /\ l[2] \in LeftPads(d) /\ l = <<l[1], l[2]>>
             /\ Before(LeftKeys(d), l[1]) = Before(LeftPads(d), l[2])
  BY DEF Leftover
<1>3. ASSUME NEW l \in Leftover(d), NEW i \in Rows(d) PROVE l[2] # Table[i][2]
  BY <1>2 DEF LeftPads, TablePads
<1>4. ASSUME NEW l \in Leftover(d), NEW m \in Leftover(d), l[2] = m[2]
      PROVE  l = m
  <2>1. LeftKeys(d) \subseteq 0 .. 767
    BY DeviceAssumption DEF LeftKeys
  <2>2. IsFiniteSet(LeftKeys(d)) /\ LeftKeys(d) \subseteq Int
    <3>1. /\ LeftKeys(d) \in SUBSET Nat /\ LeftKeys(d) \subseteq Int
          /\ 767 \in Nat /\ \A k \in LeftKeys(d) : k <= 767
      BY <2>1
    <3>2. PICK n \in Nat : \A k \in LeftKeys(d) : k <= n
      BY <3>1
    <3>3. IsFiniteSet(LeftKeys(d))
      BY <3>1, <3>2, FS_BoundedSetOfNaturals
    <3> QED
      BY <3>1, <3>3
  <2>3. l[1] \in Int /\ m[1] \in Int
    BY <1>2, <2>2
  <2>4. ~(l[1] < m[1]) /\ ~(m[1] < l[1])
    BY <1>2, <1>4, <2>2, RankIncreases
  <2>5. l[1] = m[1]
    BY <2>3, <2>4
  <2> QED
    BY <1>2, <1>4, <2>5
<1>5. /\ a \in Leftover(d) \/ \E i \in Rows(d) : a = Table[i]
      /\ b \in Leftover(d) \/ \E i \in Rows(d) : b = Table[i]
  BY DEF KeyButtons
<1> QED
  BY <1>1, <1>3, <1>4, <1>5

\* A hat's directions have no keys.
LEMMA HatAlone ==
  ASSUME NEW d, NEW h \in Hat(d), NEW b \in KeyButtons(d)
  PROVE  b[2] \notin DPad
<1>1. DPad \cap TablePads(d) = {} /\ HatPads(d) = DPad
  BY DEF Hat, HatPads
<1>2. CASE b \in Leftover(d)
  BY <1>1, <1>2 DEF Leftover, LeftPads
<1>3. CASE \E i \in Rows(d) : b = Table[i]
  BY <1>1, <1>3 DEF TablePads
<1> QED
  BY <1>2, <1>3 DEF KeyButtons

\* The directions are the hat's.
LEMMA DirectionsAre ==
  ASSUME TypeInv, Complete(dev)
  PROVE  Directions = HatItems(dev)
<1>1. \A i \in HatItems(dev) : i[2].kind = "bttn"
  BY HatFacts, BttnFacts
<1>2. \A i \in ObviousItems : i[2].kind # "bttn"
  BY ObviousFacts
<1> QED
  BY <1>1, <1>2, CompleteItems DEF Directions, TypeInv

\* What directions say of the values last reported.
SaidBy(D, last) ==
  {i[2].pos : i \in {j \in D : j[1] \in DOMAIN last /\ last[j[1]] > 0}} \cup
  {i[2].neg : i \in {j \in D : j[1] \in DOMAIN last /\ last[j[1]] < 0}}

\* The axes of the hat say what their last values mean; no others say anything.
LEMMA SaidByHat ==
  ASSUME NEW d, NEW h \in Hat(d), NEW last
  PROVE  SaidBy(HatItems(d), last) =
           {p \in DPad :
              \/ 16 + 2 * h \in DOMAIN last /\ last[16 + 2 * h] > 0 /\ p = DPadRight
              \/ 16 + 2 * h \in DOMAIN last /\ last[16 + 2 * h] < 0 /\ p = DPadLeft
              \/ 17 + 2 * h \in DOMAIN last /\ last[17 + 2 * h] > 0 /\ p = DPadDown
              \/ 17 + 2 * h \in DOMAIN last /\ last[17 + 2 * h] < 0 /\ p = DPadUp}
<1> DEFINE r == <<16 + 2 * h, Bttn(DPadRight, DPadLeft)>>
           v == <<17 + 2 * h, Bttn(DPadDown, DPadUp)>>
<1>1. HatItems(d) = {r, v}
  BY HatFacts DEF HatItems
<1>2. /\ r[1] = 16 + 2 * h /\ r[2].pos = DPadRight /\ r[2].neg = DPadLeft
      /\ v[1] = 17 + 2 * h /\ v[2].pos = DPadDown /\ v[2].neg = DPadUp
  BY BttnFacts
<1> HIDE DEF r, v
<1>3. \A p : p \in SaidBy(HatItems(d), last) <=>
              \/ r[1] \in DOMAIN last /\ last[r[1]] > 0 /\ p = r[2].pos
              \/ r[1] \in DOMAIN last /\ last[r[1]] < 0 /\ p = r[2].neg
              \/ v[1] \in DOMAIN last /\ last[v[1]] > 0 /\ p = v[2].pos
              \/ v[1] \in DOMAIN last /\ last[v[1]] < 0 /\ p = v[2].neg
  BY <1>1 DEF SaidBy
<1> QED
  BY <1>2, <1>3 DEF DPad

\* Without a hat nothing is said.
LEMMA SaidByNoHat ==
  ASSUME NEW d, Hat(d) = {}, NEW last
  PROVE  SaidBy(HatItems(d), last) = {}
<1>1. HatItems(d) = {}
  BY HatFacts
<1> QED
  BY <1>1 DEF SaidBy

\* An axis that is not the hat's reports.
OffHat(d, last, next, x) ==
  /\ DOMAIN next = DOMAIN last \cup {x}
  /\ \A y \in DOMAIN last : y # x => next[y] = last[y]
  /\ \A h \in Hat(d) : x # 16 + 2 * h /\ x # 17 + 2 * h

\* It changes nothing of what the hat says.
LEMMA SaidSame ==
  ASSUME NEW d, NEW last, NEW next, NEW x, OffHat(d, last, next, x)
  PROVE  SaidBy(HatItems(d), next) = SaidBy(HatItems(d), last)
<1>1. CASE Hat(d) = {}
  BY <1>1, SaidByNoHat
<1>2. CASE Hat(d) # {}
  <2>1. PICK h \in Hat(d) : TRUE
    BY <1>2
  <2>2. \A y \in {16 + 2 * h, 17 + 2 * h} :
          (y \in DOMAIN next <=> y \in DOMAIN last) /\ (y \in DOMAIN last => next[y] = last[y])
    BY <2>1 DEF OffHat
  <2> QED
    BY <2>2, SaidByHat
<1> QED
  BY <1>1, <1>2

Buttons == TypeInv /\ ButtonsFollow

\* Each event changes the buttons as it changes the keys that are down or what
\* the hat says.
LEMMA ButtonsStep == Buttons /\ [Next]_vars => Buttons'
<1> SUFFICES ASSUME Buttons, [Next]_vars PROVE Buttons'
  OBVIOUS
<1>t. TypeInv /\ TypeInv' /\ ButtonsFollow
  BY TypeStep DEF Buttons
<1> SUFFICES ASSUME Complete(dev)' PROVE ButtonsFollow'
  BY <1>t DEF Buttons, ButtonsFollow
<1>0. dev' = dev /\ keys' = keys /\ abs' = abs
  BY DEF Next, KeyEvent, AxisEvent, HatEvent, UnknownAxis, Reports, data, vars
<1>c. /\ Complete(dev) /\ dev \in Device
      /\ keys = KeyButtons(dev) /\ abs = Items(dev)
  BY <1>0, <1>t DEF TypeInv, TypeOK, Complete
<1> DEFINE Down(S) == UNION {PadOf(k) : k \in S}
           Said == SaidBy(HatItems(dev), pos)
           SaidNext == SaidBy(HatItems(dev), pos')
<1>d. Directions = HatItems(dev) /\ Directions' = HatItems(dev)
  BY <1>0, <1>t, <1>c, DirectionsAre DEF Directions
<1>e. HatButtons = Said /\ HatButtons' = SaidNext
  BY <1>d DEF HatButtons, SaidBy
<1>f. wButtons = Down(held) \cup Said
  BY <1>t, <1>c, <1>e DEF ButtonsFollow
<1>g. \A k : PadOf(k)' = PadOf(k)
  BY <1>0 DEF PadOf
<1>h. SUFFICES wButtons' = Down(held') \cup SaidNext
  BY <1>e, <1>g DEF ButtonsFollow
<1>1. ASSUME NEW k \in Pressed, NEW value \in 0 .. 2, KeyEvent(k, value)
      PROVE  wButtons' = Down(held') \cup SaidNext
  <2>1. Said = SaidNext
    BY <1>1 DEF KeyEvent
  <2>2. CASE value # 0
    BY <1>1, <1>f, <2>1, <2>2 DEF KeyEvent
  <2>3. CASE value = 0
    <3>1. wButtons' = wButtons \ PadOf(k) /\ held' = held \ {k}
      BY <1>1, <2>3 DEF KeyEvent
    <3>2. \A j : j # k => PadOf(j) \cap PadOf(k) = {}
      BY <1>c, KeysUnique DEF PadOf
    <3>3. Said \cap PadOf(k) = {}
      <4>1. \A h \in Hat(dev) : DPad \cap PadOf(k) = {}
        BY <1>c, HatAlone DEF PadOf
      <4>2. CASE Hat(dev) = {}
        BY <4>2, SaidByNoHat
      <4>3. CASE Hat(dev) # {}
        <5>1. PICK h \in Hat(dev) : TRUE
          BY <4>3
        <5>2. Said \subseteq DPad
          BY <5>1, SaidByHat
        <5> QED
          BY <4>1, <5>1, <5>2
      <4> QED
        BY <4>2, <4>3
    <3> HIDE DEF Said, SaidNext
    <3>4. Down(held \ {k}) = Down(held) \ PadOf(k)
      BY <3>2
    <3> QED
      BY <1>f, <2>1, <3>1, <3>3, <3>4
  <2> QED
    BY <2>2, <2>3
<1>2. ASSUME NEW x \in dev.axes, NEW value \in Value(x), Reports(x, value)
      PROVE  /\ held' = held /\ value \in Int
             /\ DOMAIN pos' = DOMAIN pos \cup {x}
             /\ pos'[x] = value
             /\ \A y \in DOMAIN pos : y # x => pos'[y] = pos[y]
  BY <1>t, <1>2, ReportsType
<1>3. ASSUME NEW x \in dev.axes, NEW value \in Value(x), AxisEvent(x, value)
      PROVE  wButtons' = Down(held') \cup SaidNext
  <2>1. x \in 0 .. 5
    BY <1>t, <1>c, <1>3, AxisMoves
  <2>2. \A h \in Hat(dev) : x # 16 + 2 * h /\ x # 17 + 2 * h
    BY <2>1, HatFacts
  <2>3. Reports(x, value) /\ wButtons' = wButtons
    BY <1>3 DEF AxisEvent
  <2>4. Said = SaidNext
    <3>1. OffHat(dev, pos, pos', x)
      BY <1>2, <2>2, <2>3 DEF OffHat
    <3> QED
      BY <3>1, SaidSame
  <2> QED
    BY <1>2, <1>f, <2>3, <2>4
<1>4. ASSUME NEW x \in dev.axes, NEW value \in Value(x), UnknownAxis(x, value)
      PROVE  wButtons' = Down(held') \cup SaidNext
  <2>1. \A h \in Hat(dev) : x # 16 + 2 * h /\ x # 17 + 2 * h
    BY <1>t, <1>c, <1>4, UnknownIsOther
  <2>2. Reports(x, value) /\ wButtons' = wButtons
    BY <1>4 DEF UnknownAxis
  <2>3. Said = SaidNext
    <3>1. OffHat(dev, pos, pos', x)
      BY <1>2, <2>1, <2>2 DEF OffHat
    <3> QED
      BY <3>1, SaidSame
  <2> QED
    BY <1>2, <1>f, <2>2, <2>3
<1>5. ASSUME NEW x \in dev.axes, NEW value \in Value(x), HatEvent(x, value)
      PROVE  wButtons' = Down(held') \cup SaidNext
  <2>1. PICK h \in Hat(dev) :
           \/ x = 16 + 2 * h /\ wButtons' = Direction(Bttn(DPadRight, DPadLeft), value)
           \/ x = 17 + 2 * h /\ wButtons' = Direction(Bttn(DPadDown, DPadUp), value)
    BY <1>t, <1>c, <1>5, HatMoves
  <2>2. h \in 0 .. 3
    BY HatFacts
  <2>3. Reports(x, value)
    BY <1>5 DEF HatEvent
  <2>4. /\ held' = held /\ value \in Int
        /\ DOMAIN pos' = DOMAIN pos \cup {x}
        /\ pos'[x] = value
        /\ \A y \in DOMAIN pos : y # x => pos'[y] = pos[y]
    BY <1>2, <2>3
  <2>5. Down(held) \cap DPad = {}
    BY <1>c, HatAlone DEF PadOf
  <2>6. /\ DPad = {DPadUp, DPadDown, DPadLeft, DPadRight}
        /\ DPadUp # DPadDown /\ DPadUp # DPadLeft /\ DPadUp # DPadRight
        /\ DPadDown # DPadLeft /\ DPadDown # DPadRight /\ DPadLeft # DPadRight
    BY DEF DPad, DPadUp, DPadDown, DPadLeft, DPadRight
  <2> DEFINE r == 16 + 2 * h   v == 17 + 2 * h
             Says(last, p) ==
               \/ r \in DOMAIN last /\ last[r] > 0 /\ p = DPadRight
               \/ r \in DOMAIN last /\ last[r] < 0 /\ p = DPadLeft
               \/ v \in DOMAIN last /\ last[v] > 0 /\ p = DPadDown
               \/ v \in DOMAIN last /\ last[v] < 0 /\ p = DPadUp
  <2>7. /\ Said = {p \in DPad : Says(pos, p)}
        /\ SaidNext = {p \in DPad : Says(pos', p)}
    BY SaidByHat
  <2>8. r # v /\ (x = r \/ x = v)
    BY <2>1, <2>2
  <2>9. /\ x = r => wButtons' = Direction(Bttn(DPadRight, DPadLeft), value)
        /\ x = v => wButtons' = Direction(Bttn(DPadDown, DPadUp), value)
    BY <2>1, <2>2
  <2> HIDE DEF r, v, Said, SaidNext
  <2>10. CASE x = r
    <3>1. /\ wButtons' = CASE value > 0 -> (wButtons \cup {DPadRight}) \ {DPadLeft}
                           [] value < 0 -> (wButtons \cup {DPadLeft}) \ {DPadRight}
                           [] OTHER     -> wButtons \ {DPadRight, DPadLeft}
      BY <2>9, <2>10, BttnFacts DEF Direction
    <3>2. /\ v \in DOMAIN pos' <=> v \in DOMAIN pos
          /\ v \in DOMAIN pos => pos'[v] = pos[v]
          /\ r \in DOMAIN pos' /\ pos'[r] = value
      BY <2>4, <2>8, <2>10
    <3>3. CASE value > 0
      BY <1>f, <2>4, <2>5, <2>6, <2>7, <3>1, <3>2, <3>3
    <3>4. CASE value < 0
      BY <1>f, <2>4, <2>5, <2>6, <2>7, <3>1, <3>2, <3>4
    <3>5. CASE value = 0
      BY <1>f, <2>4, <2>5, <2>6, <2>7, <3>1, <3>2, <3>5
    <3> QED
      BY <2>4, <3>3, <3>4, <3>5
  <2>11. CASE x = v
    <3>1. /\ wButtons' = CASE value > 0 -> (wButtons \cup {DPadDown}) \ {DPadUp}
                           [] value < 0 -> (wButtons \cup {DPadUp}) \ {DPadDown}
                           [] OTHER     -> wButtons \ {DPadDown, DPadUp}
      BY <2>9, <2>11, BttnFacts DEF Direction
    <3>2. /\ r \in DOMAIN pos' <=> r \in DOMAIN pos
          /\ r \in DOMAIN pos => pos'[r] = pos[r]
          /\ v \in DOMAIN pos' /\ pos'[v] = value
      BY <2>4, <2>8, <2>11
    <3>3. CASE value > 0
      BY <1>f, <2>4, <2>5, <2>6, <2>7, <3>1, <3>2, <3>3
    <3>4. CASE value < 0
      BY <1>f, <2>4, <2>5, <2>6, <2>7, <3>1, <3>2, <3>4
    <3>5. CASE value = 0
      BY <1>f, <2>4, <2>5, <2>6, <2>7, <3>1, <3>2, <3>5
    <3> QED
      BY <2>4, <3>3, <3>4, <3>5
  <2> QED
    BY <2>8, <2>10, <2>11
<1>6. CASE UNCHANGED vars
  <2>1. wButtons' = wButtons /\ held' = held /\ pos' = pos
    BY <1>6 DEF vars
  <2> QED
    BY <1>f, <2>1
<1> QED
  BY <1>1, <1>3, <1>4, <1>5, <1>6 DEF Next

\* The buttons are those whose keys are down and whose hat points at them.
THEOREM ButtonsFollowHolds == Spec => []ButtonsFollow
<1>1. Init => Buttons
  BY TypeInit DEF Init, Buttons, ButtonsFollow, HatButtons
<1>2. Buttons => ButtonsFollow
  BY DEF Buttons
<1> QED
  BY <1>1, <1>2, ButtonsStep, PTL DEF Spec

\* What drives a button: one key and no direction, or no key and one direction.
LEMMA DrivenByOne ==
  ASSUME TypeInv, Complete(dev), NEW p \in Pad \ {Reserved0}
  PROVE  \/ /\ \E b : {c \in keys : c[2] = p} = {b}
            /\ {i \in Directions : p \in {i[2].pos, i[2].neg}} = {}
         \/ /\ {c \in keys : c[2] = p} = {}
            /\ \E b : {i \in Directions : p \in {i[2].pos, i[2].neg}} = {b}
<1>0. /\ dev \in Device /\ CanTranslate(dev) /\ keys = KeyButtons(dev)
      /\ Directions = HatItems(dev)
  BY DirectionsAre DEF TypeInv, TypeOK
<1>1. ASSUME NEW b \in keys, b[2] = p
      PROVE  /\ {c \in keys : c[2] = p} = {b}
             /\ {i \in Directions : p \in {i[2].pos, i[2].neg}} = {}
  <2>1. {c \in keys : c[2] = p} = {b}
    BY <1>0, <1>1, KeysUnique
  <2>2. \A h \in Hat(dev) : p \notin DPad
    BY <1>0, <1>1, HatAlone
  <2>3. \A i \in HatItems(dev) : \E h \in Hat(dev) : i[2].pos \in DPad /\ i[2].neg \in DPad
    BY HatFacts, BttnFacts DEF DPad
  <2> QED
    BY <1>0, <2>1, <2>2, <2>3
<1>2. ASSUME \A b \in keys : b[2] # p
      PROVE  \E b : {i \in Directions : p \in {i[2].pos, i[2].neg}} = {b}
  <2>1. p \notin TablePads(dev)
    BY <1>0, <1>2 DEF TablePads, KeyButtons
  <2>2. p \notin {l[2] : l \in Leftover(dev)}
    BY <1>0, <1>2 DEF KeyButtons
  <2>3. p \in HatPads(dev)
    BY <1>0, <2>1, <2>2 DEF CanTranslate
  <2>4. PICK h \in Hat(dev) : TRUE
    BY <2>3 DEF HatPads
  <2>5. p \in DPad
    BY <2>3 DEF HatPads
  <2> DEFINE r == <<16 + 2 * h, Bttn(DPadRight, DPadLeft)>>
             v == <<17 + 2 * h, Bttn(DPadDown, DPadUp)>>
  <2>6. HatItems(dev) = {r, v}
    BY HatFacts DEF HatItems
  <2>7. /\ r[2].pos = DPadRight /\ r[2].neg = DPadLeft
        /\ v[2].pos = DPadDown /\ v[2].neg = DPadUp
    BY BttnFacts
  <2>8. /\ DPad = {DPadUp, DPadDown, DPadLeft, DPadRight}
        /\ DPadUp # DPadLeft /\ DPadUp # DPadRight
        /\ DPadDown # DPadLeft /\ DPadDown # DPadRight
    BY DEF DPad, DPadUp, DPadDown, DPadLeft, DPadRight
  <2> HIDE DEF r, v
  <2>9. CASE p \in {DPadRight, DPadLeft}
    <3>1. {i \in Directions : p \in {i[2].pos, i[2].neg}} = {r}
      BY <1>0, <2>6, <2>7, <2>8, <2>9
    <3> QED
      BY <3>1
  <2>10. CASE p \in {DPadDown, DPadUp}
    <3>1. {i \in Directions : p \in {i[2].pos, i[2].neg}} = {v}
      BY <1>0, <2>6, <2>7, <2>8, <2>10
    <3> QED
      BY <3>1
  <2> QED
    BY <2>5, <2>8, <2>9, <2>10
<1>3. CASE \E b \in keys : b[2] = p
  <2>1. PICK b \in keys : b[2] = p
    BY <1>3
  <2> QED
    BY <1>1, <2>1
<1>4. CASE \A b \in keys : b[2] # p
  <2>1. {c \in keys : c[2] = p} = {}
    BY <1>4
  <2> QED
    BY <1>2, <1>4, <2>1
<1> QED
  BY <1>3, <1>4

\* One of two sets has one member and the other none.
LEMMA OneOfTwo ==
  ASSUME NEW A, NEW B,
         \/ (\E x : A = {x}) /\ B = {}
         \/ A = {} /\ (\E x : B = {x})
  PROVE  Cardinality(A) + Cardinality(B) = 1
<1>1. Cardinality({}) = 0 /\ \A x : Cardinality({x}) = 1
  BY FS_EmptySet, FS_Singleton
<1>2. ASSUME NEW x, A = {x}, B = {} PROVE Cardinality(A) = 1 /\ Cardinality(B) = 0
  BY <1>1, <1>2
<1>3. ASSUME NEW x, B = {x}, A = {} PROVE Cardinality(A) = 0 /\ Cardinality(B) = 1
  BY <1>1, <1>3
<1> QED
  BY <1>2, <1>3

\* It is a property of the tables.
LEMMA AllDrivenInv == TypeInv => AllDriven
<1> SUFFICES ASSUME TypeInv, Complete(dev) PROVE AllDriven
  BY DEF AllDriven
<1>1. ASSUME NEW p \in Pad \ {Reserved0}
      PROVE  Cardinality({b \in keys : b[2] = p})
               + Cardinality({i \in Directions : p \in {i[2].pos, i[2].neg}}) = 1
  BY DrivenByOne, OneOfTwo
<1>2. ASSUME NEW i \in abs \ Directions, NEW j \in abs \ Directions, i # j
      PROVE  i[2].to # j[2].to
  <2>1. abs = ObviousItems \cup HatItems(dev) /\ Directions = HatItems(dev)
    BY CompleteItems, DirectionsAre DEF TypeInv
  <2>2. i \in ObviousItems /\ j \in ObviousItems
    BY <2>1
  <2>3. i[1] # j[1]
    BY <1>2, <2>2, ObviousFacts
  <2> QED
    BY <2>2, <2>3, ObviousFacts
<1> QED
  BY <1>1, <1>2 DEF AllDriven

\* Each button has one key or one direction of a hat, and no two axes move the
\* same stick or trigger.
THEOREM AllDrivenHolds == Spec => []AllDriven
BY AllDrivenInv, TypeInit, TypeStep, PTL DEF Spec

------------------------------------------------------------------------------
(* The XBox 360 pads *)

\* The rows the pads have: the keys of the gamepad and, of a wireless one, of
\* the D-pad.
LEMMA HandRows ==
  /\ \A i \in 1 .. 11 \cup 16 .. 19 : HandPad(Table[i][1]) = {Table[i][2]}
  /\ \A i \in 12 .. 15 : HandPad(Table[i][1]) = {}
  /\ \A k : HandPad(k) # {} =>
       \E i \in 1 .. 11 \cup 16 .. 19 : Table[i][1] = k
  /\ \A i \in 1 .. 11 : Table[i][1] \in \h130 .. \h13e
  /\ \A i \in 16 .. 19 : Table[i][1] \in \h2c0 .. \h2c3
<1> USE DEF DPadUp, DPadDown, DPadLeft, DPadRight
<1>1. \A i \in 1 .. 11 : Table[i][1] \in \h130 .. \h13e
  BY DEF Table
<1>2. \A i \in 16 .. 19 : Table[i][1] \in \h2c0 .. \h2c3
  BY DEF Table
<1>3. \A i \in 12 .. 15 : Table[i][1] \in \h220 .. \h223
  BY DEF Table
<1>4. \A i \in 1 .. 11 : Translation[Table[i][1] - \h12f] = Table[i][2] /\ Table[i][2] # 0
  BY DEF Table, Translation
<1>5. \A i \in 16 .. 19 : Translation2[Table[i][1] - \h2bf] = Table[i][2] /\ Table[i][2] # 0
  BY DEF Table, Translation2
<1>6. \A i \in 1 .. 11 : HandPad(Table[i][1]) = {Table[i][2]}
  BY <1>1, <1>4 DEF HandPad
<1>7. \A i \in 16 .. 19 : HandPad(Table[i][1]) = {Table[i][2]}
  BY <1>2, <1>5 DEF HandPad
<1>8. \A i \in 12 .. 15 : HandPad(Table[i][1]) = {}
  BY <1>3 DEF HandPad
<1>9. ASSUME NEW k \in \h130 .. \h13f, Translation[k - \h12f] # 0
      PROVE  \E i \in 1 .. 11 : Table[i][1] = k
  BY <1>9 DEF Translation, Table
<1>10. ASSUME NEW k \in \h2c0 .. \h2c3
       PROVE  \E i \in 16 .. 19 : Table[i][1] = k
  BY <1>10 DEF Table
<1>11. ASSUME NEW k, HandPad(k) # {}
       PROVE  (k \in \h130 .. \h13f /\ Translation[k - \h12f] # 0) \/ k \in \h2c0 .. \h2c3
  BY <1>11 DEF HandPad
<1>12. ASSUME NEW k, HandPad(k) # {}
       PROVE  \E i \in 1 .. 11 \cup 16 .. 19 : Table[i][1] = k
  <2>1. CASE k \in \h130 .. \h13f /\ Translation[k - \h12f] # 0
    BY <1>9, <2>1
  <2>2. CASE k \in \h2c0 .. \h2c3
    BY <1>10, <2>2
  <2> QED
    BY <1>11, <1>12, <2>1, <2>2
<1>13. \A i \in 1 .. 11 \cup 16 .. 19 : HandPad(Table[i][1]) = {Table[i][2]}
  BY <1>6, <1>7
<1> QED
  BY <1>1, <1>2, <1>8, <1>12, <1>13

\* No two of the rows of the pads are of the same button.
LEMMA RowPads ==
  /\ \A i \in 1 .. 11, j \in 1 .. 11 \cup 16 .. 19 : i # j => Table[i][2] # Table[j][2]
  /\ \A i \in 16 .. 19, j \in 16 .. 19 : i # j => Table[i][2] # Table[j][2]
  /\ \A i \in 1 .. 11 : Table[i][2] \notin DPad
BY DEF Table, DPad, DPadUp, DPadDown, DPadLeft, DPadRight

\* All the keys of the gamepad apply and, if the pad has them, those of the D-pad ...
LEMMA Rows360 ==
  ASSUME NEW d, Is360(d)
  PROVE  Rows(d) = {i \in 1 .. 11 \cup 16 .. 19 : Table[i][1] \in d.keys}
<1>1. \A i \in 1 .. 11 : Table[i][1] \in d.keys
  BY DEF Is360
<1>2. \A i \in 12 .. 15 : Table[i][1] \notin d.keys
  BY HandRows DEF Is360
<1>3. ASSUME NEW i \in 1 .. 11
      PROVE  i \in Rows(d)
  <2>1. \A j \in 1 .. i - 1 : j \in 1 .. 11 /\ j # i
    OBVIOUS
  <2>2. \A j \in 1 .. i - 1 : Table[j][2] # Table[i][2]
    BY <2>1, RowPads
  <2>3. i \in DOMAIN Table
    BY TableFacts
  <2> QED
    BY <1>1, <2>2, <2>3 DEF Rows
<1>4. ASSUME NEW i \in 16 .. 19, Table[i][1] \in d.keys
      PROVE  i \in Rows(d)
  <2>1. ASSUME NEW j \in 1 .. i - 1, Table[j][2] = Table[i][2] PROVE Table[j][1] \notin d.keys
    <3>1. j \in 1 .. 11 \/ j \in 12 .. 15 \/ (j \in 16 .. 19 /\ j # i)
      OBVIOUS
    <3>2. j \notin 1 .. 11
      <4>1. i \in 1 .. 11 \cup 16 .. 19 /\ \A k \in 1 .. 11 : k # i
        OBVIOUS
      <4> QED
        BY <2>1, <4>1, RowPads
    <3>3. ~(j \in 16 .. 19 /\ j # i)
      BY <2>1, RowPads
    <3> QED
      BY <1>2, <3>1, <3>2, <3>3
  <2>2. i \in DOMAIN Table
    BY TableFacts
  <2> QED
    BY <1>4, <2>1, <2>2 DEF Rows
<1>5. ASSUME NEW i \in Rows(d)
      PROVE  i \in 1 .. 11 \cup 16 .. 19 /\ Table[i][1] \in d.keys
  <2>1. i \in 1 .. 19 /\ Table[i][1] \in d.keys
    BY TableFacts DEF Rows
  <2>2. i \in 1 .. 11 \/ i \in 12 .. 15 \/ i \in 16 .. 19
    BY <2>1
  <2> QED
    BY <1>2, <2>1, <2>2
<1> QED
  BY <1>3, <1>4, <1>5

\* ... and leave none that has to be given a button.
LEMMA Keys360Are ==
  ASSUME NEW d, Is360(d)
  PROVE  KeyButtons(d) = {b \in Keys360 : b[1] \in d.keys}
<1>1. ASSUME NEW k \in d.keys PROVE \E i \in Rows(d) : Table[i][1] = k
  <2>1. HandPad(k) # {}
    BY DEF Is360
  <2> QED
    BY <2>1, HandRows, Rows360
<1>2. LeftKeys(d) = {}
  BY <1>1 DEF LeftKeys, TableKeys
<1>3. Leftover(d) = {}
  BY <1>2 DEF Leftover
<1>4. KeyButtons(d) = {Table[i] : i \in Rows(d)}
  BY <1>3 DEF KeyButtons
<1> DEFINE Codes == \h130 .. \h13e \cup \h2c0 .. \h2c3
<1>5. ASSUME NEW i \in Rows(d)
      PROVE  /\ Table[i] = <<Table[i][1], Table[i][2]>>
             /\ Table[i][1] \in d.keys
             /\ Table[i][1] \in Codes
             /\ HandPad(Table[i][1]) = {Table[i][2]}
  <2>1. i \in 1 .. 11 \cup 16 .. 19 /\ i \in 1 .. 19 /\ Table[i][1] \in d.keys
    BY Rows360
  <2>2. Table[i][1] \in Codes
    BY <2>1, HandRows
  <2>3. HandPad(Table[i][1]) = {Table[i][2]}
    BY <2>1, HandRows
  <2>4. Table[i] = <<Table[i][1], Table[i][2]>>
    BY <2>1, TablePairs, Zenon
  <2> HIDE DEF Codes
  <2> QED
    BY <2>1, <2>2, <2>3, <2>4, Zenon
<1>6. \A k \in Codes : {k} \X HandPad(k) \subseteq Keys360
  BY DEF Keys360
<1>7. \A b \in Keys360 : \E k, p : b = <<k, p>> /\ p \in HandPad(k)
  BY DEF Keys360
<1> HIDE DEF Codes
<1>8. ASSUME NEW i \in Rows(d) PROVE Table[i] \in Keys360 /\ Table[i][1] \in d.keys
  <2>1. <<Table[i][1], Table[i][2]>> \in {Table[i][1]} \X HandPad(Table[i][1])
    BY <1>5
  <2>2. <<Table[i][1], Table[i][2]>> \in Keys360
    BY <1>5, <1>6, <2>1
  <2> QED
    BY <1>5, <2>2, Zenon
<1>9. ASSUME NEW b \in Keys360, b[1] \in d.keys PROVE \E i \in Rows(d) : b = Table[i]
  <2>1. PICK k, p : b = <<k, p>> /\ p \in HandPad(k)
    BY <1>7
  <2>2. b[1] = k
    BY <2>1
  <2>3. PICK i \in Rows(d) : Table[i][1] = k
    BY <1>1, <1>9, <2>2
  <2>4. p = Table[i][2]
    BY <1>5, <2>1, <2>3
  <2>5. Table[i] = <<Table[i][1], Table[i][2]>>
    BY <1>5
  <2> QED
    BY <2>1, <2>3, <2>4, <2>5, Zenon
<1> QED
  BY <1>4, <1>8, <1>9

\* The axes of these pads, with the hat or without.
LEMMA Abs360Are ==
  ASSUME NEW d, Is360(d)
  PROVE  /\ Items(d) = {i \in Abs360 : i[1] \in d.axes}
         /\ d.axes \subseteq 0 .. 5 \cup {16, 17}
         /\ Hat(d) = IF 16 \in d.axes THEN {0} ELSE {}
<1>0. Complete(d)
  BY DEF Is360
<1>1. Abs360 = ObviousItems \cup
        {<<16, Bttn(DPadRight, DPadLeft)>>, <<17, Bttn(DPadDown, DPadUp)>>}
  BY DEF Abs360, ObviousItems
<1>2. \A i \in ObviousItems : i[1] \in 0 .. 5
  BY ObviousFacts
<1>3. CASE d.axes = 0 .. 5 \cup {16, 17} /\ d.keys \cap \h2c0 .. \h2c3 = {}
  <2>1. \A i \in Rows(d) : Table[i][2] \notin DPad
    <3>1. ASSUME NEW i \in Rows(d) PROVE i \in 1 .. 11
      <4>1. i \in 1 .. 11 \cup 16 .. 19 /\ Table[i][1] \in d.keys
        BY Rows360
      <4>2. i \notin 16 .. 19
        BY <1>3, <4>1, HandRows
      <4> QED
        BY <4>1, <4>2
    <3> QED
      BY <3>1, RowPads
  <2>2. DPad \cap TablePads(d) = {}
    BY <2>1 DEF TablePads
  <2>3. \A h \in 0 .. 3 : {16 + 2 * h, 17 + 2 * h} \subseteq d.axes <=> h = 0
    BY <1>3
  <2>4. Hats(d) = {0}
    BY <2>3 DEF Hats
  <2>5. Hat(d) = {0}
    BY <2>2, <2>4 DEF Hat
  <2>6. HatItems(d) = {<<16, Bttn(DPadRight, DPadLeft)>>, <<17, Bttn(DPadDown, DPadUp)>>}
    BY <2>5 DEF HatItems
  <2>7. Items(d) = Abs360
    BY <1>0, <1>1, <2>6, CompleteItems
  <2>8. \A i \in Abs360 : i[1] \in 0 .. 5 \cup {16, 17}
    BY <1>1, <1>2
  <2> QED
    BY <1>3, <2>5, <2>7, <2>8
<1>4. CASE d.axes = 0 .. 5
  <2>1. \A h \in 0 .. 3 : ~({16 + 2 * h, 17 + 2 * h} \subseteq d.axes)
    BY <1>4
  <2>2. Hat(d) = {}
    BY <2>1 DEF Hat, Hats
  <2>3. HatItems(d) = {}
    BY <2>2 DEF HatItems
  <2>4. Items(d) = ObviousItems
    BY <1>0, <2>3, CompleteItems
  <2>5. ObviousItems = {i \in Abs360 : i[1] \in 0 .. 5}
    BY <1>1, <1>2
  <2>6. 16 \notin 0 .. 5
    OBVIOUS
  <2> QED
    BY <1>4, <2>2, <2>4, <2>5, <2>6
<1> QED
  BY <1>3, <1>4 DEF Is360

\* It is a property of the tables.
LEMMA SameTablesInv == TypeInv => SameTables
BY Keys360Are, Abs360Are DEF TypeInv, SameTables

\* Of an XBox 360 pad the tables are those written for it.
THEOREM SameTablesHolds == Spec => []SameTables
BY SameTablesInv, TypeInit, TypeStep, PTL DEF Spec

\* A key has the button that the driver written by hand gives it.
LEMMA HandPadOf ==
  ASSUME TypeInv, Is360(dev), NEW k \in dev.keys
  PROVE  PadOf(k) = HandPad(k)
<1>1. keys = {b \in Keys360 : b[1] \in dev.keys}
  BY Keys360Are DEF TypeInv
<1>2. \A b \in Keys360 : \E c, p : b = <<c, p>> /\ p \in HandPad(c)
  BY DEF Keys360
<1>3. ASSUME NEW p \in HandPad(k) PROVE <<k, p>> \in Keys360
  <2>1. \E i \in 1 .. 11 \cup 16 .. 19 : Table[i][1] = k
    BY HandRows DEF Is360
  <2>2. k \in \h130 .. \h13e \cup \h2c0 .. \h2c3
    BY <2>1, HandRows
  <2> QED
    BY <2>2 DEF Keys360
<1>4. ASSUME NEW p \in HandPad(k) PROVE p \in PadOf(k)
  <2>1. <<k, p>> \in keys
    BY <1>1, <1>3
  <2> QED
    BY <2>1 DEF PadOf
<1>5. ASSUME NEW p \in PadOf(k) PROVE p \in HandPad(k)
  <2>1. PICK b \in keys : b[1] = k /\ b[2] = p
    BY DEF PadOf
  <2>2. PICK c, q : b = <<c, q>> /\ q \in HandPad(c)
    BY <1>1, <1>2, <2>1
  <2> QED
    BY <2>1, <2>2
<1> QED
  BY <1>4, <1>5

Agree == TypeInv /\ DriversAgree

\* Each event has the same effect with both drivers, but for what is excepted.
LEMMA AgreeStep == Agree /\ [Next]_vars => Agree'
<1> SUFFICES ASSUME Agree, [Next]_vars PROVE Agree'
  OBVIOUS
<1>t. TypeInv /\ TypeInv' /\ DriversAgree
  BY TypeStep DEF Agree
<1> SUFFICES ASSUME Is360(dev)' PROVE DriversAgree'
  BY <1>t DEF Agree, DriversAgree
<1>0. dev' = dev /\ keys' = keys /\ abs' = abs
  BY DEF Next, KeyEvent, AxisEvent, HatEvent, UnknownAxis, Reports, data, vars
<1>c. Is360(dev)
  BY <1>0
<1>d. Complete(dev)
  BY <1>c DEF Is360
<1>e. /\ ~repeated => wButtons = handBits
      /\ \A b \in Byte \ {3, 4} : mem[b] = handMem[b]
  BY <1>t, <1>c DEF DriversAgree, bRightTrigger, sThumbLX
<1>m. mem \in Memory /\ handMem \in Memory
  BY <1>t DEF TypeInv, TypeOK, Memory
<1>g. SUFFICES /\ ~repeated' => wButtons' = handBits'
               /\ \A b \in Byte \ {3, 4} : mem'[b] = handMem'[b]
  BY DEF DriversAgree, bRightTrigger, sThumbLX
<1>1. ASSUME NEW k \in Pressed, NEW value \in 0 .. 2, KeyEvent(k, value)
      PROVE  /\ ~repeated' => wButtons' = handBits'
             /\ \A b \in Byte \ {3, 4} : mem'[b] = handMem'[b]
  <2>1. PadOf(k) = HandPad(k)
    BY <1>t, <1>c, <1>1, HandPadOf DEF KeyEvent
  <2>2. mem' = mem /\ handMem' = handMem
    BY <1>1 DEF KeyEvent, HandKey
  <2>3. ASSUME ~repeated' PROVE wButtons' = handBits'
    <3>1. ~repeated /\ value # 2
      BY <1>1, <2>3 DEF KeyEvent, HandKey
    <3>2. wButtons = handBits
      BY <1>e, <3>1
    <3>3. CASE value = 1
      BY <1>1, <2>1, <3>2, <3>3 DEF KeyEvent, HandKey
    <3>4. CASE value = 0
      BY <1>1, <2>1, <3>2, <3>4 DEF KeyEvent, HandKey
    <3> QED
      BY <3>1, <3>3, <3>4
  <2> QED
    BY <1>e, <2>2, <2>3
<1>2. ASSUME NEW x \in dev.axes, NEW value \in Value(x), Reports(x, value)
      PROVE  value \in Int /\ repeated' = repeated
  BY <1>t, <1>2, ReportsType
<1>3. ASSUME NEW x \in dev.axes, NEW value \in Value(x), AxisEvent(x, value)
      PROVE  /\ ~repeated' => wButtons' = handBits'
             /\ \A b \in Byte \ {3, 4} : mem'[b] = handMem'[b]
  <2>1. Reports(x, value) /\ wButtons' = wButtons
    BY <1>3 DEF AxisEvent
  <2>2. value \in Int /\ -value - 1 \in Int /\ repeated' = repeated
    <3>1. value \in Int /\ repeated' = repeated
      BY <1>2, <2>1
    <3> QED
      BY <3>1
  <2>3. \/ x = 0 /\ mem' = Stored(mem, 4, value)
        \/ x = 1 /\ mem' = Stored(mem, 6, -value - 1)
        \/ x = 3 /\ mem' = Stored(mem, 8, value)
        \/ x = 4 /\ mem' = Stored(mem, 10, -value - 1)
        \/ x = 2 /\ mem' = Stored(mem, 2, value)
        \/ x = 5 /\ mem' = Stored(mem, 3, value)
    BY <1>t, <1>d, <1>3, AxisMoves
  <2>4. handBits' = handBits
    BY <2>1, <2>3 DEF Reports, HandAxis
  <2>5. 4 \in Offset /\ 6 \in Offset /\ 8 \in Offset /\ 10 \in Offset /\ 2 \in Offset /\ 3 \in Offset
    BY DEF Offset
  <2>6. ASSUME NEW o \in Offset, NEW v \in Int,
               mem' = Stored(mem, o, v), handMem' = Stored(handMem, o, v)
        PROVE  \A b \in Byte \ {3, 4} : mem'[b] = handMem'[b]
    <3>1. /\ mem'[o] = Low(v) /\ mem'[o + 1] = High(v)
          /\ \A b \in Byte : b # o /\ b # o + 1 => mem'[b] = mem[b]
      BY <1>m, <2>6, StoredFacts
    <3>2. /\ handMem'[o] = Low(v) /\ handMem'[o + 1] = High(v)
          /\ \A b \in Byte : b # o /\ b # o + 1 => handMem'[b] = handMem[b]
      BY <1>m, <2>6, StoredFacts
    <3> QED
      BY <1>e, <3>1, <3>2
  <2>7. CASE x \in {0, 1, 3, 4}
    <3>1. \E o \in Offset, v \in Int : mem' = Stored(mem, o, v) /\ handMem' = Stored(handMem, o, v)
      BY <2>1, <2>2, <2>3, <2>5, <2>7
         DEF Reports, HandAxis, sThumbLX, sThumbLY, sThumbRX, sThumbRY
    <3>2. \A b \in Byte \ {3, 4} : mem'[b] = handMem'[b]
      BY <2>6, <3>1
    <3> QED
      BY <1>e, <2>1, <2>2, <2>4, <3>2
  <2>8. CASE x = 2
    <3>1. PICK o \in Offset : o = 2 /\ mem' = Stored(mem, o, value)
      BY <2>3, <2>5, <2>8
    <3>2. handMem' = [handMem EXCEPT ![2] = Low(value)]
      BY <2>1, <2>8 DEF Reports, HandAxis, bLeftTrigger, Low
    <3>3. /\ mem'[o] = Low(value)
          /\ \A b \in Byte : b # o /\ b # o + 1 => mem'[b] = mem[b]
      BY <1>m, <2>2, <3>1, StoredFacts
    <3>4. /\ handMem'[2] = Low(value)
          /\ \A b \in Byte : b # 2 => handMem'[b] = handMem[b]
      BY <1>m, <3>2 DEF Memory, Byte
    <3>5. \A b \in Byte \ {3, 4} : mem'[b] = handMem'[b]
      BY <1>e, <3>1, <3>3, <3>4 DEF Byte
    <3> QED
      BY <1>e, <2>1, <2>2, <2>4, <3>5
  <2>9. CASE x = 5
    <3>1. PICK o \in Offset : o = 3 /\ mem' = Stored(mem, o, value)
      BY <2>3, <2>5, <2>9
    <3>2. handMem' = [handMem EXCEPT ![3] = Low(value)]
      BY <2>1, <2>9 DEF Reports, HandAxis, bRightTrigger, Low
    <3>3. \A b \in Byte : b # o /\ b # o + 1 => mem'[b] = mem[b]
      BY <1>m, <2>2, <3>1, StoredFacts
    <3>4. \A b \in Byte : b # 3 => handMem'[b] = handMem[b]
      BY <1>m, <3>2 DEF Memory, Byte
    <3>5. \A b \in Byte \ {3, 4} : mem'[b] = handMem'[b]
      BY <1>e, <3>1, <3>3, <3>4 DEF Byte
    <3> QED
      BY <1>e, <2>1, <2>2, <2>4, <3>5
  <2> QED
    BY <2>3, <2>7, <2>8, <2>9
<1>4. ASSUME NEW x \in dev.axes, NEW value \in Value(x), HatEvent(x, value)
      PROVE  /\ ~repeated' => wButtons' = handBits'
             /\ \A b \in Byte \ {3, 4} : mem'[b] = handMem'[b]
  <2>1. Reports(x, value) /\ mem' = mem
    BY <1>4 DEF HatEvent
  <2>2. value \in Int /\ repeated' = repeated
    BY <1>2, <2>1
  <2>3. \/ x = 16 /\ wButtons' = Direction(Bttn(DPadRight, DPadLeft), value)
        \/ x = 17 /\ wButtons' = Direction(Bttn(DPadDown, DPadUp), value)
    <3>1. PICK h \in Hat(dev) :
            \/ x = 16 + 2 * h /\ wButtons' = Direction(Bttn(DPadRight, DPadLeft), value)
            \/ x = 17 + 2 * h /\ wButtons' = Direction(Bttn(DPadDown, DPadUp), value)
      BY <1>t, <1>d, <1>4, HatMoves
    <3>2. h = 0
      BY <1>c, Abs360Are
    <3> QED
      BY <3>1, <3>2
  <2>4. handMem' = handMem
    BY <2>1, <2>3 DEF Reports, HandAxis
  <2>5. ASSUME wButtons = handBits PROVE wButtons' = handBits'
    <3>1. HandAxis(x, value)
      BY <2>1 DEF Reports
    <3>2. CASE x = 16
      <4>1. wButtons' = Direction(Bttn(DPadRight, DPadLeft), value)
        BY <2>3, <3>2
      <4>2. wButtons' = CASE value > 0 -> (wButtons \cup {DPadRight}) \ {DPadLeft}
                          [] value < 0 -> (wButtons \cup {DPadLeft}) \ {DPadRight}
                          [] OTHER     -> wButtons \ {DPadRight, DPadLeft}
        BY <4>1, BttnFacts DEF Direction
      <4>3. /\ value > 0 => handBits' = (handBits \cup {DPadRight}) \ {DPadLeft}
            /\ value < 0 => handBits' = (handBits \cup {DPadLeft}) \ {DPadRight}
            /\ value = 0 => handBits' = handBits \ {DPadRight, DPadLeft}
        BY <2>2, <3>1, <3>2 DEF HandAxis
      <4>4. /\ value > 0 => wButtons' = (wButtons \cup {DPadRight}) \ {DPadLeft}
            /\ value < 0 => wButtons' = (wButtons \cup {DPadLeft}) \ {DPadRight}
            /\ value = 0 => wButtons' = wButtons \ {DPadRight, DPadLeft}
        BY <2>2, <4>2
      <4>5. value > 0 \/ value < 0 \/ value = 0
        BY <2>2
      <4> QED
        BY <2>5, <4>3, <4>4, <4>5
    <3>3. CASE x = 17
      <4>1. wButtons' = Direction(Bttn(DPadDown, DPadUp), value)
        BY <2>3, <3>3
      <4>2. wButtons' = CASE value > 0 -> (wButtons \cup {DPadDown}) \ {DPadUp}
                          [] value < 0 -> (wButtons \cup {DPadUp}) \ {DPadDown}
                          [] OTHER     -> wButtons \ {DPadDown, DPadUp}
        BY <4>1, BttnFacts DEF Direction
      <4>3. /\ value > 0 => handBits' = (handBits \cup {DPadDown}) \ {DPadUp}
            /\ value < 0 => handBits' = (handBits \cup {DPadUp}) \ {DPadDown}
            /\ value = 0 => handBits' = handBits \ {DPadDown, DPadUp}
        BY <2>2, <3>1, <3>3 DEF HandAxis
      <4>4. /\ value > 0 => wButtons' = (wButtons \cup {DPadDown}) \ {DPadUp}
            /\ value < 0 => wButtons' = (wButtons \cup {DPadUp}) \ {DPadDown}
            /\ value = 0 => wButtons' = wButtons \ {DPadDown, DPadUp}
        BY <2>2, <4>2
      <4>5. value > 0 \/ value < 0 \/ value = 0
        BY <2>2
      <4> QED
        BY <2>5, <4>3, <4>4, <4>5
    <3> QED
      BY <2>3, <3>2, <3>3
  <2> QED
    BY <1>e, <2>1, <2>2, <2>4, <2>5
<1>5. ASSUME NEW x \in dev.axes, NEW value \in Value(x), UnknownAxis(x, value)
      PROVE  FALSE
  <2>1. /\ x \notin 0 .. 5
        /\ \A h \in Hat(dev) : x # 16 + 2 * h /\ x # 17 + 2 * h
    BY <1>t, <1>d, <1>5, UnknownIsOther
  <2>2. x = 16 \/ x = 17
    BY <1>c, <2>1, Abs360Are
  <2>3. 16 \in dev.axes
    BY <1>c, <2>2 DEF Is360
  <2>4. 0 \in Hat(dev)
    BY <1>c, <2>3, Abs360Are
  <2> QED
    BY <2>1, <2>2, <2>4
<1>6. CASE UNCHANGED vars
  <2>1. UNCHANGED <<mem, wButtons, handBits, handMem, repeated>>
    BY <1>6 DEF vars, hand
  <2> QED
    BY <1>e, <2>1
<1> QED
  BY <1>1, <1>3, <1>4, <1>5, <1>6 DEF Next

\* Any sequence of events of an XBox 360 pad has the effect it has with the
\* driver written by hand.
THEOREM DriversAgreeHolds == Spec => []DriversAgree
<1>1. Init => Agree
  BY TypeInit DEF Init, Agree, DriversAgree
<1>2. Agree => DriversAgree
  BY DEF Agree
<1> QED
  BY <1>1, <1>2, AgreeStep, PTL DEF Spec

==============================================================================
