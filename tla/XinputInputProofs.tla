-------------------------- MODULE XinputInputProofs --------------------------
(***************************************************************************)
(* What a program gets of a gamepad's state, for any buttons, sticks and   *)
(* positions, however a state is split into parts and the copies made of   *)
(* it overlap.                                                             *)
(*                                                                         *)
(* The arguments: the keys the program has been told of are those of       *)
(* xinputkeystroke_state, whatever states it is compared with; and a       *)
(* reader that has touched the shared memory must count before it waits    *)
(* again, so a copy during which nothing was counted and that ends with a  *)
(* waiting reader is a copy of one state.                                  *)
(***************************************************************************)
EXTENDS XinputInput, TLAPS, WellFoundedInduction, SequenceTheorems

\* What a gamepad may report at a time.
State == {b \in [Group -> (UNION {Position[g] : g \in Group}) \cup {None}] :
            \A g \in Group : b[g] \in Position[g] \cup {None}}

\* The copies are of states the gamepad has had.
TypeInv ==
  /\ TypeOK
  /\ hist \in Seq(State) /\ keys \in State
  /\ \A p \in Part : shm[p] <= Len(hist) /\ out[p] <= Len(hist) /\ seen[p] <= Len(hist)

\* Each event is counted once and its EV_SYN once, so that the counter stays
\* behind the number of states.
Due == (IF rpc \in {"copy", "count"} THEN 1 ELSE 0) + (IF syn THEN 1 ELSE 0)
CountInv ==
  /\ packet + Due <= 2 * (Len(hist) - 1)
  /\ serial <= packet /\ since <= packet

\* A key is down, once, when it is in the keystroke state.
Held(k) == keys[k[1]] = k[2]
KeysInv == \A k \in Key : down[k] = IF Held(k) THEN 1 ELSE 0

\* What has been copied while nothing was counted is what a waiting reader has
\* left in the shared memory ...
Waiting == rpc \in {"off", "read"}
CopyInv ==
  Waiting /\ cpc = "state" /\ packet = since
    => \A p \in Part \ ctodo : out[p] = shm[p]

\* ... and so is what the program has handled with the current number.
HandledInv == Waiting /\ serial = packet /\ ~overtaken => seen = shm

InputInv == TypeInv /\ CountInv /\ KeysInv /\ CopyInv /\ HandledInv

------------------------------------------------------------------------------
(* The order of the entries *)

LessThan == {ss \in Nat \X Nat : ss[1] < ss[2]}

LEMMA Minimum ==
  ASSUME NEW S \in SUBSET Nat, S # {}
  PROVE  \E m \in S : \A n \in S : m <= n
<1>1. IsWellFoundedOn(LessThan, Nat)
  BY NatLessThanWellFounded, Zenon DEF OpToRel, LessThan
<1>2. PICK m \in S : \A n \in S : <<n, m>> \notin LessThan
  BY <1>1, WFMin
<1>3. \A n \in S : ~(n < m)
  BY <1>2 DEF LessThan
<1> QED
  BY <1>3

\* XInputGetNextKeyStroke() finds an entry when there is one.
LEMMA FirstIsMember ==
  ASSUME NEW G \in SUBSET Group, G # {}
  PROVE  First(G) \in G
<1> DEFINE S == {Rank[g] : g \in G}
<1>1. S \in SUBSET Nat /\ S # {}
  BY InputAssumption
<1>2. PICK m \in S : \A n \in S : m <= n
  BY <1>1, Minimum
<1>3. \E g \in G : \A h \in G : Rank[g] <= Rank[h]
  BY <1>2
<1> QED
  BY <1>3 DEF First

------------------------------------------------------------------------------
(* Lemmas about states and keys *)

LEMMA NeutralIsState == Neutral \in State
BY DEF Neutral, State

LEMMA ChangedIsState ==
  ASSUME NEW b \in State, NEW g \in Group, NEW x \in Position[g] \cup {None}
  PROVE  [b EXCEPT ![g] = x] \in State
<1>1. x \in (UNION {Position[h] : h \in Group}) \cup {None}
  OBVIOUS
<1> QED
  BY <1>1 DEF State

\* One more state leaves those before it as they were.
LEMMA AppendKeeps ==
  ASSUME TypeInv, NEW b \in State, hist' = Append(hist, b), Len(hist) < MaxState
  PROVE  /\ hist' \in Seq(State) /\ Len(hist') = Len(hist) + 1
         /\ Len(hist') \in Version
         /\ \A i \in DOMAIN hist' : \A g \in Group : hist'[i][g] \in Position[g] \cup {None}
<1>1. hist \in Seq(State) /\ Len(hist) \in Nat
  BY DEF TypeInv
<1>2. hist' \in Seq(State) /\ Len(hist') = Len(hist) + 1
  BY <1>1, AppendProperties
<1>3. \A i \in DOMAIN hist' : hist'[i] \in State
  BY <1>2
<1> QED
  BY <1>1, <1>2, <1>3, InputAssumption DEF State, Version

\* What the program copied is a mixture of states, of which each group is one
\* the gamepad has had.
LEMMA ButtonsAreState ==
  ASSUME TypeInv
  PROVE  Buttons \in State
<1>1. ASSUME NEW g \in Group  PROVE hist[out[PartOf[g]]][g] \in Position[g] \cup {None}
  <2>1. PartOf[g] \in Part
    BY InputAssumption
  <2>2. out[PartOf[g]] \in 1 .. Len(hist)
    BY <2>1 DEF TypeInv, TypeOK, Version
  <2>3. hist[out[PartOf[g]]] \in State
    BY <2>2 DEF TypeInv
  <2> QED
    BY <2>3 DEF State
<1> QED
  BY <1>1 DEF Buttons, State

LEMMA KeyIsPair ==
  ASSUME NEW k \in Key
  PROVE  /\ k = <<k[1], k[2]>>
         /\ k[1] \in Group /\ k[2] \in Position[k[1]] /\ k[2] # None
BY InputAssumption DEF Key

\* Entering or leaving one position changes one key.
LEMMA StrokeKeepsKeys ==
  ASSUME TypeInv, KeysInv, NEW g \in Group, NEW x \in Position[g], NEW y, NEW n \in Int,
         keys' = [keys EXCEPT ![g] = y],
         down' = [down EXCEPT ![<<g, x>>] = @ + n],
         \/ keys[g] = x /\ y = None /\ n = -1
         \/ keys[g] = None /\ y = x /\ n = 1
  PROVE  KeysInv' /\ down' \in [Key -> Int]
<1>1. <<g, x>> \in Key /\ x # None
  BY InputAssumption DEF Key
<1>2. down \in [Key -> Int] /\ keys \in State /\ DOMAIN keys = Group
  BY DEF TypeInv, TypeOK, State
<1>3. down[<<g, x>>] = IF keys[g] = x THEN 1 ELSE 0
  BY <1>1 DEF KeysInv, Held
<1>4. down' \in [Key -> Int]
  BY <1>1, <1>2
<1>5. ASSUME NEW k \in Key  PROVE down'[k] = IF Held(k)' THEN 1 ELSE 0
  <2>1. k = <<k[1], k[2]>> /\ k[1] \in Group /\ k[2] # None
    BY KeyIsPair
  <2>2. down[k] = IF keys[k[1]] = k[2] THEN 1 ELSE 0
    BY DEF KeysInv, Held
  <2>3. CASE k = <<g, x>>
    BY <2>3, <1>1, <1>2, <1>3 DEF Held
  <2>4. CASE k # <<g, x>>
    <3>1. down'[k] = down[k]
      BY <2>4, <1>2
    <3>2. keys'[k[1]] = k[2] <=> keys[k[1]] = k[2]
      <4>1. CASE k[1] = g
        <5>1. k[2] # x
          BY <4>1, <2>1, <2>4
        <5> QED
          BY <4>1, <5>1, <2>1, <1>1, <1>2
      <4>2. CASE k[1] # g
        BY <4>2, <2>1, <1>2
      <4> QED
        BY <4>1, <4>2
    <3> QED
      BY <3>1, <3>2, <2>2 DEF Held
  <2> QED
    BY <2>3, <2>4
<1> QED
  BY <1>4, <1>5 DEF KeysInv

------------------------------------------------------------------------------
(* The invariant *)

LEMMA InputInit == Init => InputInv
<1> SUFFICES ASSUME Init  PROVE InputInv
  OBVIOUS
<1> USE InputAssumption
<1>1. hist \in Seq(State) /\ Len(hist) = 1 /\ keys \in State
  BY NeutralIsState DEF Init
<1>2. TypeInv
  <2>1. hist[1] \in State /\ DOMAIN hist = 1 .. 1
    BY NeutralIsState DEF Init
  <2>2. \A i \in DOMAIN hist : \A g \in Group : hist[i][g] \in Position[g] \cup {None}
    BY <2>1 DEF State
  <2>3. \A g \in Group : keys[g] \in Position[g] \cup {None}
    BY <1>1 DEF State
  <2>4. \A p \in Part : shm[p] = 1 /\ out[p] = 1 /\ seen[p] = 1
    BY DEF Init
  <2>5. TypeOK
    <3>1. /\ 1 \in Version /\ 0 \in 0 .. 2 * MaxState
      BY DEF Version
    <3>2. /\ shm \in [Part -> Version] /\ out \in [Part -> Version]
          /\ seen \in [Part -> Version] /\ down \in [Key -> Int]
      BY <3>1 DEF Init
    <3> QED
      BY <1>1, <2>2, <2>3, <3>1, <3>2 DEF Init, TypeOK
  <2> QED
    BY <1>1, <2>4, <2>5 DEF TypeInv
<1>3. KeysInv
  <2> SUFFICES ASSUME NEW k \in Key  PROVE down[k] = IF Held(k) THEN 1 ELSE 0
    BY DEF KeysInv
  <2>1. k[1] \in Group /\ k[2] # None
    BY KeyIsPair
  <2> QED
    BY <2>1 DEF Init, Neutral, Held
<1>4. CountInv /\ CopyInv /\ HandledInv
  BY <1>1 DEF Init, CountInv, Due, CopyInv, HandledInv
<1> QED
  BY <1>2, <1>3, <1>4 DEF InputInv

\* The reader's steps.
LEMMA ReaderStep ==
  ASSUME InputInv,
         \/ Begin \/ End \/ Sync \/ Count
         \/ \E g \in Group : \E x \in Position[g] \cup {None} : Event(g, x)
         \/ \E p \in Part : Update(p)
  PROVE  InputInv'
<1> USE InputAssumption DEF InputInv
<1>0. /\ hist \in Seq(State) /\ Len(hist) \in Nat /\ Len(hist) <= MaxState
      /\ packet \in Nat /\ serial \in Nat /\ since \in Nat
  BY DEF TypeInv, TypeOK, Version
<1>1. UNCHANGED <<caller, program>>
  BY DEF Begin, End, Sync, Count, Event, Update
<1>2. KeysInv'
  BY <1>1 DEF program, KeysInv, Held
<1>3. CASE Begin
  <2>1. /\ hist' \in Seq(State) /\ Len(hist') = Len(hist) + 1 /\ Len(hist') \in Version
        /\ \A i \in DOMAIN hist' : \A g \in Group : hist'[i][g] \in Position[g] \cup {None}
    BY <1>3, AppendKeeps, NeutralIsState DEF Begin
  <2>2. TypeInv'
    BY <1>3, <1>1, <2>1 DEF Begin, caller, program, TypeInv, TypeOK, Version
  <2>3. CountInv'
    BY <1>0, <1>1, <1>3, <2>1 DEF Begin, program, CountInv, Due
  <2>4. CopyInv' /\ HandledInv'
    BY <1>1, <1>3 DEF Begin, caller, program, CopyInv, HandledInv, Waiting
  <2> QED
    BY <1>2, <2>2, <2>3, <2>4
<1>4. ASSUME NEW g \in Group, NEW x \in Position[g] \cup {None}, Event(g, x)
      PROVE InputInv'
  <2>1. Now \in State
    BY DEF Now, TypeInv, TypeOK, Version
  <2>2. [Now EXCEPT ![g] = x] \in State
    BY <2>1, ChangedIsState
  <2>3. /\ hist' \in Seq(State) /\ Len(hist') = Len(hist) + 1 /\ Len(hist') \in Version
        /\ \A i \in DOMAIN hist' : \A h \in Group : hist'[i][h] \in Position[h] \cup {None}
    BY <1>4, <2>2, AppendKeeps DEF Event
  <2>4. TypeInv'
    <3>1. \A p \in Part : shm[p] \in Nat /\ out[p] \in Nat /\ seen[p] \in Nat
      BY DEF TypeInv, TypeOK, Version
    <3>2. UNCHANGED <<shm, packet, connected, cpc, ctodo, out, enabled, serial,
                      seen, since, overtaken, keys, down>>
      BY <1>1, <1>4 DEF Event, shared, caller, program
    <3>3. TypeOK'
      BY <1>4, <2>3, <3>2 DEF Event, TypeInv, TypeOK
    <3> QED
      BY <1>0, <2>3, <3>1, <3>2, <3>3 DEF TypeInv
  <2>5. CountInv'
    BY <1>0, <1>1, <1>4, <2>3 DEF Event, shared, program, CountInv, Due
  <2>6. CopyInv' /\ HandledInv'
    BY <1>4 DEF Event, CopyInv, HandledInv, Waiting
  <2> QED
    BY <1>2, <2>4, <2>5, <2>6
<1>5. CASE Sync
  <2>1. TypeInv'
    BY <1>5, <1>1 DEF Sync, shared, caller, program, TypeInv, TypeOK
  <2>2. CountInv'
    BY <1>0, <1>1, <1>5 DEF Sync, shared, program, CountInv, Due
  <2>3. CopyInv' /\ HandledInv'
    BY <1>5 DEF Sync, CopyInv, HandledInv, Waiting
  <2> QED
    BY <1>2, <2>1, <2>2, <2>3
<1>6. ASSUME NEW p \in Part, Update(p)  PROVE InputInv'
  <2>1. TypeInv'
    BY <1>6, <1>1 DEF Update, device, caller, program, TypeInv, TypeOK, Version
  <2>2. CountInv'
    BY <1>0, <1>1, <1>6 DEF Update, device, program, CountInv, Due
  <2>3. CopyInv' /\ HandledInv'
    BY <1>6 DEF Update, CopyInv, HandledInv, Waiting
  <2> QED
    BY <1>2, <2>1, <2>2, <2>3
<1>7. CASE Count
  <2>1. packet' = packet + 1 /\ Due' = Due - 1 /\ Due \in Nat
    BY <1>7 DEF Count, device, Due
  <2>2. CountInv'
    BY <1>0, <1>1, <1>7, <2>1 DEF Count, device, program, CountInv
  <2>3. packet' \in 0 .. 2 * MaxState
    BY <1>0, <2>1 DEF CountInv
  <2>4. TypeInv'
    BY <1>7, <1>1, <2>3 DEF Count, device, caller, program, TypeInv, TypeOK
  <2>5. CopyInv' /\ HandledInv'
    BY <1>0, <1>1, <2>1 DEF program, CountInv, CopyInv, HandledInv
  <2> QED
    BY <1>2, <2>2, <2>4, <2>5
<1>8. CASE End
  <2>1. TypeInv'
    BY <1>8, <1>1 DEF End, caller, program, TypeInv, TypeOK
  <2>2. CountInv'
    BY <1>0, <1>1, <1>8 DEF End, program, CountInv, Due
  <2>3. CopyInv' /\ HandledInv'
    BY <1>1, <1>8 DEF End, caller, program, CopyInv, HandledInv, Waiting
  <2> QED
    BY <1>2, <2>1, <2>2, <2>3
<1> QED
  BY <1>3, <1>4, <1>5, <1>6, <1>7, <1>8

\* The program's steps other than the strokes.
LEMMA CallerStep ==
  ASSUME InputInv,
         \/ GetState \/ IsEnabled \/ IsDisabled \/ CopyPacket \/ GetKeystroke
         \/ \E b \in BOOLEAN : Enable(b)
         \/ \E p \in Part : Copy(p)
  PROVE  InputInv'
<1> USE DEF InputInv
<1>1. UNCHANGED <<device, shared, reader, keys, down>>
  BY DEF GetState, IsEnabled, IsDisabled, CopyPacket, GetKeystroke, Enable, Copy, program
<1>2. KeysInv'
  BY <1>1 DEF KeysInv, Held
<1>3. packet \in Nat /\ serial \in Nat /\ since \in Nat
  BY DEF TypeInv, TypeOK
<1>4. CASE GetState \/ IsDisabled
  <2>1. UNCHANGED <<ctodo, out, program>> /\ cpc' \in {"enabled", "out"}
    BY <1>4 DEF GetState, IsDisabled
  <2>2. TypeInv'
    BY <1>1, <2>1 DEF device, shared, reader, program, TypeInv, TypeOK
  <2>3. CountInv' /\ CopyInv' /\ HandledInv'
    BY <1>1, <2>1 DEF device, shared, reader, program, CountInv, Due, CopyInv,
         HandledInv, Waiting
  <2> QED
    BY <1>2, <2>2, <2>3
<1>5. CASE GetKeystroke
  <2>1. TypeInv'
    BY <1>1, <1>5 DEF GetKeystroke, device, shared, reader, program, TypeInv, TypeOK
  <2>2. CountInv' /\ CopyInv' /\ HandledInv'
    BY <1>1, <1>5 DEF GetKeystroke, device, shared, reader, program, CountInv, Due,
         CopyInv, HandledInv, Waiting
  <2> QED
    BY <1>2, <2>1, <2>2
<1>6. CASE IsEnabled
  <2>1. TypeInv'
    BY <1>1, <1>6 DEF IsEnabled, device, shared, reader, TypeInv, TypeOK
  <2>2. CountInv'
    BY <1>1, <1>3, <1>6 DEF IsEnabled, device, shared, reader, CountInv, Due
  <2>3. CopyInv' /\ HandledInv'
    BY <1>1, <1>6 DEF IsEnabled, device, shared, reader, CopyInv, HandledInv, Waiting
  <2> QED
    BY <1>2, <2>1, <2>2, <2>3
<1>7. ASSUME NEW b \in BOOLEAN, Enable(b)  PROVE InputInv'
  <2>1. TypeInv'
    BY <1>1, <1>7 DEF Enable, device, shared, reader, caller, TypeInv, TypeOK
  <2>2. CountInv' /\ CopyInv' /\ HandledInv'
    BY <1>1, <1>7 DEF Enable, device, shared, reader, caller, CountInv, Due, CopyInv,
         HandledInv, Waiting
  <2> QED
    BY <1>2, <2>1, <2>2
<1>8. ASSUME NEW p \in Part, Copy(p)  PROVE InputInv'
  <2>1. out' = [out EXCEPT ![p] = shm[p]] /\ out \in [Part -> Version]
    BY <1>8 DEF Copy, TypeInv, TypeOK
  <2>2. TypeInv'
    BY <1>1, <1>8, <2>1 DEF Copy, device, shared, reader, program, TypeInv, TypeOK
  <2>3. CountInv' /\ HandledInv'
    BY <1>1, <1>8 DEF Copy, device, shared, reader, program, CountInv, Due,
         HandledInv, Waiting
  <2>4. CopyInv'
    BY <1>1, <1>8, <2>1 DEF Copy, device, shared, reader, program, CopyInv, Waiting
  <2> QED
    BY <1>2, <2>2, <2>3, <2>4
<1>9. CASE CopyPacket
  <2>0. /\ packet = serial => seen' = seen /\ overtaken' = overtaken
        /\ packet # serial => seen' = out /\ (overtaken' <=> packet # since)
        /\ overtaken' = (packet # since) \/ overtaken' = overtaken
        /\ serial' = packet
    BY <1>9, Zenon DEF CopyPacket
  <2>1. overtaken' \in BOOLEAN
    BY <2>0, Zenon DEF TypeInv, TypeOK
  <2>2. TypeInv'
    <3>1. /\ serial' = packet /\ since' = 0 /\ cpc' = "out"
          /\ UNCHANGED <<ctodo, out, enabled>>
      BY <1>9 DEF CopyPacket
    <3>2. seen' = seen \/ seen' = out
      BY <2>0
    <3>3. since' \in 0 .. 2 * MaxState
      BY <3>1, InputAssumption
    <3> QED
      BY <1>1, <2>1, <3>1, <3>2, <3>3 DEF device, shared, reader, TypeInv, TypeOK
  <2>3. CountInv' /\ CopyInv'
    BY <1>1, <1>3, <1>9 DEF CopyPacket, device, shared, reader, CountInv, Due, CopyInv
  <2>4. ASSUME packet = serial  PROVE HandledInv'
    <3>1. UNCHANGED <<shm, rpc, seen, overtaken>> /\ serial' = serial
      BY <1>1, <2>0, <2>4, Zenon DEF shared, reader
    <3>2. packet' = packet
      BY <1>1 DEF shared
    <3> QED
      BY <3>1, <3>2, Zenon DEF HandledInv, Waiting
  <2>5. ASSUME packet # serial  PROVE HandledInv'
    <3>1. ASSUME Waiting, packet = since  PROVE out = shm
      <4>1. \A p \in Part : out[p] = shm[p]
        BY <1>9, <3>1 DEF CopyPacket, CopyInv
      <4> QED
        BY <4>1 DEF TypeInv, TypeOK
    <3>2. UNCHANGED <<shm, rpc>> /\ seen' = out /\ (overtaken' <=> packet # since)
      BY <1>1, <2>0, <2>5, Zenon DEF shared, reader
    <3> QED
      BY <3>1, <3>2, Zenon DEF HandledInv, Waiting
  <2> QED
    BY <1>2, <2>2, <2>3, <2>4, <2>5
<1> QED
  BY <1>4, <1>5, <1>6, <1>7, <1>8, <1>9

\* A stroke touches the keys only.
LEMMA StrokeStep ==
  ASSUME InputInv, KeyUp \/ KeyDown \/ NoStroke
  PROVE  InputInv'
<1> USE DEF InputInv
<1>1. /\ UNCHANGED <<device, shared, reader, ctodo, out, enabled, serial, seen,
                     since, overtaken>>
      /\ cpc' = "out"
  BY DEF KeyUp, KeyDown, NoStroke, Stroke
<1>2. CountInv' /\ CopyInv' /\ HandledInv'
  BY <1>1 DEF device, shared, reader, CountInv, Due, CopyInv, HandledInv, Waiting
<1>3. Buttons \in State /\ keys \in State
  BY ButtonsAreState DEF TypeInv
<1>4. ASSUME keys' \in State, down' \in [Key -> Int]  PROVE TypeInv'
  <2>1. \A g \in Group : keys'[g] \in Position[g] \cup {None}
    BY <1>4 DEF State
  <2> QED
    BY <1>1, <1>4, <2>1 DEF device, shared, reader, TypeInv, TypeOK
<1>5. CASE NoStroke
  <2>1. UNCHANGED <<keys, down>>
    BY <1>5 DEF NoStroke
  <2>2. keys' \in State /\ down' \in [Key -> Int]
    BY <2>1 DEF TypeInv, TypeOK
  <2>3. KeysInv'
    BY <2>1 DEF KeysInv, Held
  <2> QED
    BY <1>2, <1>4, <2>2, <2>3
<1>6. CASE KeyUp
  <2> DEFINE g == First(Released)
  <2>1. g \in Released
    BY <1>6, FirstIsMember DEF KeyUp, Released
  <2>2. /\ keys' = [keys EXCEPT ![g] = None]
        /\ down' = [down EXCEPT ![<<g, keys[g]>>] = @ - 1]
    BY <1>6 DEF KeyUp
  <2> HIDE DEF g
  <2>3. g \in Group /\ keys[g] \in Position[g]
    BY <2>1, <1>3 DEF Released, State
  <2>4. <<g, keys[g]>> \in Key
    BY <2>3 DEF Key
  <2>5. down' = [down EXCEPT ![<<g, keys[g]>>] = @ + (-1)]
    BY <2>2, <2>4 DEF TypeInv, TypeOK
  <2>6. KeysInv' /\ down' \in [Key -> Int]
    <3> DEFINE x == keys[g]
    <3>1. /\ TypeInv /\ KeysInv /\ -1 \in Int /\ x \in Position[g] /\ keys[g] = x
          /\ down' = [down EXCEPT ![<<g, x>>] = @ + (-1)]
      BY <2>3, <2>5
    <3> HIDE DEF x
    <3> QED
      BY <2>2, <2>3, <3>1, StrokeKeepsKeys
  <2>7. keys' \in State
    BY <1>3, <2>2, <2>3, ChangedIsState
  <2> QED
    BY <1>2, <1>4, <2>6, <2>7
<1>7. CASE KeyDown
  <2> DEFINE g == First(Pressed)
  <2>1. g \in Pressed /\ Released = {}
    BY <1>7, FirstIsMember DEF KeyDown, Pressed
  <2>2. /\ keys' = [keys EXCEPT ![g] = Buttons[g]]
        /\ down' = [down EXCEPT ![<<g, Buttons[g]>>] = @ + 1]
    BY <1>7 DEF KeyDown
  <2> HIDE DEF g
  <2>3. /\ g \in Group /\ Buttons[g] \in Position[g]
        /\ keys[g] = None
    BY <2>1, <1>3 DEF Pressed, Released, State
  <2>4. KeysInv' /\ down' \in [Key -> Int]
    <3> DEFINE x == Buttons[g]
    <3>1. /\ TypeInv /\ KeysInv /\ 1 \in Int /\ x \in Position[g]
          /\ keys' = [keys EXCEPT ![g] = x]
          /\ down' = [down EXCEPT ![<<g, x>>] = @ + 1]
      BY <2>2, <2>3
    <3> HIDE DEF x
    <3> QED
      BY <2>3, <3>1, StrokeKeepsKeys
  <2>5. keys' \in State
    BY <1>3, <2>2, <2>3, ChangedIsState
  <2> QED
    BY <1>2, <1>4, <2>4, <2>5
<1> QED
  BY <1>5, <1>6, <1>7

LEMMA InputStep == InputInv /\ [Next]_vars => InputInv'
<1> SUFFICES ASSUME InputInv, [Next]_vars  PROVE InputInv'
  OBVIOUS
<1>1. CASE UNCHANGED vars
  <2>1. TypeInv' /\ CountInv' /\ KeysInv'
    BY <1>1 DEF vars, device, shared, reader, caller, program, InputInv, TypeInv,
         TypeOK, CountInv, Due, KeysInv, Held
  <2>2. CopyInv' /\ HandledInv'
    BY <1>1 DEF vars, device, shared, reader, caller, program, InputInv, CopyInv,
         HandledInv, Waiting
  <2> QED
    BY <2>1, <2>2 DEF InputInv
<1> QED
  BY <1>1, ReaderStep, CallerStep, StrokeStep DEF Next, Reader, Caller

------------------------------------------------------------------------------
\* The copies of a gamepad's state (xinput_service_gamepad_reader_thread(),
\* copy_state()) are of states it has had, and the numbers stay in their bounds.
THEOREM TypeOKHolds == Spec => []TypeOK
<1>1. InputInv => TypeOK
  BY DEF InputInv, TypeInv
<1> QED
  BY InputInit, InputStep, <1>1, PTL DEF Spec

\* No key goes down twice or up twice and no stick is in two positions at once
\* (XInputGetNextKeyStroke()), also when the states are torn.
THEOREM StrokesPairedHolds == Spec => []StrokesPaired
<1>1. InputInv => StrokesPaired
  <2> SUFFICES ASSUME InputInv  PROVE StrokesPaired
    OBVIOUS
  <2>1. \A k \in Key : down[k] = IF Held(k) THEN 1 ELSE 0
    BY DEF InputInv, KeysInv
  <2>2. ASSUME NEW j \in Key, NEW k \in Key, j[1] = k[1], down[j] + down[k] > 1
        PROVE  j = k
    <3>1. Held(j) /\ Held(k)
      BY <2>1, <2>2
    <3>2. j = <<j[1], j[2]>> /\ k = <<k[1], k[2]>>
      BY KeyIsPair
    <3> QED
      BY <2>2, <3>1, <3>2 DEF Held
  <2> QED
    BY <2>1, <2>2 DEF StrokesPaired
<1> QED
  BY InputInit, InputStep, <1>1, PTL DEF Spec

\* A program that has handled the current packet number has handled the current
\* state (copy_state()), unless an event was counted while it copied.
THEOREM MissedOnlyWhenOvertakenHolds == Spec => []MissedOnlyWhenOvertaken
<1>1. InputInv => MissedOnlyWhenOvertaken
  BY DEF InputInv, HandledInv, Waiting, MissedOnlyWhenOvertaken, Silent, Content
<1> QED
  BY InputInit, InputStep, <1>1, PTL DEF Spec

==============================================================================
