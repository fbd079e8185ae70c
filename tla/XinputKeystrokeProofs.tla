----------------------- MODULE XinputKeystrokeProofs -----------------------
(***************************************************************************)
(* What the keystrokes of several threads promise, for any number of       *)
(* users, threads, buttons and positions.                                  *)
(*                                                                         *)
(* The argument: a thread that no other has overtaken still holds the      *)
(* keystroke state it has read, so the key it reports is one the program   *)
(* has, or has not, been told of; and a user the counter of ANY has passed *)
(* has been looked at or is about to be.                                   *)
(***************************************************************************)
EXTENDS XinputKeystroke, TLAPS

\* A thread that looks at the gamepad of a user has a user.
TypeInv ==
  /\ TypeOK
  /\ \A c \in Caller :
       /\ pc[c] = "bump" => index[c] \in 0 .. MaxAny - 1
       /\ pc[c] \in {"read", "store"} => index[c] \in User

\* A thread that is not overtaken holds the present keystroke state.
HeldInv ==
  \A c \in Caller :
    pc[c] = "store" /\ c \notin overtaken => from[c] = keystate[index[c]]

\* The users ANY has passed have been looked at, or will be by the thread that
\* holds their number.
Covered(u) ==
  \/ u \in looked
  \/ \E c \in Caller : pc[c] = "look" /\ calls[c] > 0 /\ index[c] = u
AnyInv ==
  /\ \A u \in User : u < anyFirst => Covered(u)
  /\ \A c \in Caller, u \in User : pc[c] = "bump" /\ u < index[c] => Covered(u)

------------------------------------------------------------------------------
(* Lemmas about buttons and keys *)

LEMMA NeutralIsButtons == Neutral \in Buttons
BY DEF Neutral, Buttons

LEMMA ChangedIsButtons ==
  ASSUME NEW b \in Buttons, NEW g \in Group, NEW x \in Position[g] \cup {None}
  PROVE  [b EXCEPT ![g] = x] \in Buttons
<1>1. x \in (UNION {Position[h] : h \in Group}) \cup {None}
  OBVIOUS
<1> QED
  BY <1>1 DEF Buttons

\* What a position that is pressed adds to the keys that are down ...
LEMMA PressedKeys ==
  ASSUME NEW b \in Buttons, NEW g \in Group, NEW x \in Position[g], b[g] = None
  PROVE  /\ <<g, x>> \in Key
         /\ <<g, x>> \notin KeysOf(b)
         /\ KeysOf([b EXCEPT ![g] = x]) = KeysOf(b) \cup {<<g, x>>}
<1> DEFINE n == [b EXCEPT ![g] = x]
<1>1. x # None
  BY KeystrokeAssumption
<1>2. /\ DOMAIN b = Group /\ n[g] = x
      /\ \A h \in Group : h # g => n[h] = b[h]
  BY DEF Buttons
<1>3. <<g, x>> \in Key
  BY DEF Key
<1>4. <<g, x>> \notin KeysOf(b)
  BY <1>1 DEF KeysOf
<1> HIDE DEF n
<1>5. ASSUME NEW k \in Key
      PROVE  n[k[1]] = k[2] <=> b[k[1]] = k[2] \/ k = <<g, x>>
  <2>1. PICK h \in Group : k \in {h} \X Position[h]
    BY DEF Key
  <2>2. k = <<h, k[2]>> /\ k[2] # None
    BY <2>1, KeystrokeAssumption
  <2> QED
    BY <2>1, <2>2, <1>2
<1>6. KeysOf(n) = KeysOf(b) \cup {<<g, x>>}
  BY <1>3, <1>5 DEF KeysOf
<1> QED
  BY <1>3, <1>4, <1>6 DEF n

\* ... and what one that is released takes away.
LEMMA ReleasedKeys ==
  ASSUME NEW b \in Buttons, NEW g \in Group, b[g] # None
  PROVE  /\ <<g, b[g]>> \in KeysOf(b)
         /\ KeysOf([b EXCEPT ![g] = None]) = KeysOf(b) \ {<<g, b[g]>>}
<1> DEFINE n == [b EXCEPT ![g] = None]
<1>1. b[g] \in Position[g]
  BY DEF Buttons
<1>2. /\ DOMAIN b = Group /\ n[g] = None
      /\ \A h \in Group : h # g => n[h] = b[h]
  BY DEF Buttons
<1>3. <<g, b[g]>> \in Key
  BY <1>1 DEF Key
<1>4. <<g, b[g]>> \in KeysOf(b)
  BY <1>3 DEF KeysOf
<1> HIDE DEF n
<1>5. ASSUME NEW k \in Key
      PROVE  n[k[1]] = k[2] <=> b[k[1]] = k[2] /\ k # <<g, b[g]>>
  <2>1. PICK h \in Group : k \in {h} \X Position[h]
    BY DEF Key
  <2>2. k = <<h, k[2]>> /\ k[2] # None
    BY <2>1, KeystrokeAssumption
  <2> QED
    BY <2>1, <2>2, <1>2
<1>6. KeysOf(n) = KeysOf(b) \ {<<g, b[g]>>}
  BY <1>5 DEF KeysOf
<1> QED
  BY <1>4, <1>6 DEF n

------------------------------------------------------------------------------
(* The types *)

\* What the end of a call without a keystroke leaves.
LEMMA EmptyKeepsType ==
  ASSUME TypeInv, NEW c \in Caller, Empty(c)
  PROVE  /\ pc' \in [Caller -> {"out", "bump", "look", "read", "store"}]
         /\ index' \in [Caller -> User \cup Index]
         /\ calls' \in [Caller -> 0 .. UserMax + MaxAny]
         /\ to' \in [Caller -> Buttons] /\ from' \in [Caller -> Buttons]
         /\ overtaken' \subseteq Caller
         /\ pc'[c] \in {"out", "look"}
         /\ \A d \in Caller \ {c} : pc'[d] = pc[d] /\ index'[d] = index[d]
BY NeutralIsButtons, KeystrokeAssumption
   DEF TypeInv, TypeOK, Empty, Forget, Goto, Index

\* What storing a keystroke state leaves.
LEMMA StoreKeepsType ==
  ASSUME TypeInv, NEW c \in Caller, pc[c] = "store", NEW next \in Buttons,
         NEW key \in Key, NEW isDown \in BOOLEAN, Store(c, next, key, isDown)
  PROVE  TypeInv'
<1>1. index[c] \in User
  BY DEF TypeInv
<1>2. /\ keystate' \in [User -> Buttons] /\ raced' \subseteq User
      /\ told' \in [User -> SUBSET Key] /\ unpaired' \subseteq User
  BY <1>1 DEF Store, TypeInv, TypeOK
<1>3. /\ to' \in [Caller -> Buttons] /\ from' \in [Caller -> Buttons]
      /\ overtaken' \subseteq Caller
  BY NeutralIsButtons DEF Store, TypeInv, TypeOK
<1>4. /\ pc' = [pc EXCEPT ![c] = "out"]
      /\ index' = [index EXCEPT ![c] = 0]
      /\ calls' = [calls EXCEPT ![c] = 0]
      /\ UNCHANGED <<connected, buttons, changes, anyFirst, looked>>
  BY DEF Store, Goto, pads
<1>5. 0 \in Index /\ 0 \in 0 .. UserMax + MaxAny
  BY KeystrokeAssumption DEF Index
<1> QED
  BY <1>2, <1>3, <1>4, <1>5 DEF TypeInv, TypeOK

LEMMA TypeStep == TypeInv /\ [Next]_vars => TypeInv'
<1> SUFFICES ASSUME TypeInv, [Next]_vars  PROVE TypeInv'
  OBVIOUS
<1>1. CASE UNCHANGED vars
  BY <1>1 DEF TypeInv, TypeOK, vars, pads, shared, local, strokes
<1>2. ASSUME NEW u \in User, Plug(u)  PROVE TypeInv'
  BY <1>2, KeystrokeAssumption
     DEF Plug, TypeInv, TypeOK, shared, local, strokes
<1>3. ASSUME NEW u \in User, NEW g \in Group, NEW x \in Position[g] \cup {None},
             Change(u, g, x)
      PROVE  TypeInv'
  <2>1. buttons' \in [User -> Buttons]
    BY <1>3, ChangedIsButtons DEF Change, TypeInv, TypeOK
  <2> QED
    BY <1>3, <2>1, KeystrokeAssumption
       DEF Change, TypeInv, TypeOK, shared, local, strokes
<1>4. ASSUME NEW c \in Caller, NEW u \in User, Poll(c, u)  PROVE TypeInv'
  BY <1>4 DEF Poll, Goto, TypeInv, TypeOK, pads, shared, strokes
<1>5. ASSUME NEW c \in Caller, PollAny(c)  PROVE TypeInv'
  BY <1>5, KeystrokeAssumption
     DEF PollAny, Goto, TypeInv, TypeOK, Index, pads, shared, strokes
<1>6. ASSUME NEW c \in Caller, Bump(c)  PROVE TypeInv'
  <2>1. index[c] \in 0 .. MaxAny - 1
    BY <1>6 DEF Bump, TypeInv
  <2>2. index[c] + 1 \in Index /\ Loops(index[c]) \in 0 .. UserMax + MaxAny
    BY <2>1, KeystrokeAssumption DEF Index, Loops
  <2> QED
    BY <1>6, <2>2 DEF Bump, Goto, TypeInv, TypeOK, pads, strokes
<1>7. ASSUME NEW c \in Caller, Look(c)  PROVE TypeInv'
  <2>1. looked' \subseteq User /\ to' \in [Caller -> Buttons]
    BY <1>7 DEF Look, Looked, TypeInv, TypeOK
  <2> QED
    BY <1>7, <2>1 DEF Look, Goto, TypeInv, TypeOK, pads, shared, strokes
<1>8. ASSUME NEW c \in Caller, LookNowhere(c)  PROVE TypeInv'
  <2>1. looked' \subseteq User
    BY <1>8 DEF LookNowhere, Looked, TypeInv, TypeOK
  <2>2. Empty(c) /\ UNCHANGED <<pads, shared, raced, told, unpaired>>
    BY <1>8 DEF LookNowhere
  <2> QED
    BY <2>1, <2>2, EmptyKeepsType DEF TypeInv, TypeOK, pads, shared
<1>9. ASSUME NEW c \in Caller, Read(c)  PROVE TypeInv'
  <2>1. index[c] \in User
    BY <1>9 DEF Read, TypeInv
  <2>2. from' \in [Caller -> Buttons]
    BY <1>9, <2>1 DEF Read, TypeInv, TypeOK
  <2> QED
    BY <1>9, <2>1, <2>2 DEF Read, Goto, TypeInv, TypeOK, pads, shared, strokes
<1>10. ASSUME NEW c \in Caller, KeyUp(c)  PROVE TypeInv'
  <2>1. PICK g \in Group :
          /\ Foremost(g, Released(c))
          /\ Store(c, [from[c] EXCEPT ![g] = None], <<g, from[c][g]>>, FALSE)
    BY <1>10 DEF KeyUp
  <2>2. from[c] \in Buttons /\ from[c][g] # None
    BY <2>1 DEF Foremost, Released, TypeInv, TypeOK
  <2>3. [from[c] EXCEPT ![g] = None] \in Buttons /\ <<g, from[c][g]>> \in Key
    BY <2>2, ChangedIsButtons, ReleasedKeys DEF KeysOf
  <2>4. pc[c] = "store"
    BY <1>10 DEF KeyUp
  <2> QED
    BY <2>1, <2>3, <2>4, StoreKeepsType
<1>11. ASSUME NEW c \in Caller, KeyDown(c)  PROVE TypeInv'
  <2>1. PICK g \in Group :
          /\ Foremost(g, Pressed(c))
          /\ Store(c, [from[c] EXCEPT ![g] = to[c][g]], <<g, to[c][g]>>, TRUE)
    BY <1>11 DEF KeyDown
  <2>2. from[c] \in Buttons /\ to[c] \in Buttons /\ to[c][g] # None
    BY <2>1 DEF Foremost, Pressed, TypeInv, TypeOK
  <2>3. to[c][g] \in Position[g]
    BY <2>2 DEF Buttons
  <2>4. [from[c] EXCEPT ![g] = to[c][g]] \in Buttons /\ <<g, to[c][g]>> \in Key
    BY <2>2, <2>3, ChangedIsButtons DEF Key
  <2>5. pc[c] = "store"
    BY <1>11 DEF KeyDown
  <2> QED
    BY <2>1, <2>4, <2>5, StoreKeepsType
<1>12. ASSUME NEW c \in Caller, NoStroke(c)  PROVE TypeInv'
  <2>1. Empty(c) /\ UNCHANGED <<pads, shared, raced, told, unpaired, looked>>
    BY <1>12 DEF NoStroke
  <2> QED
    BY <2>1, EmptyKeepsType DEF TypeInv, TypeOK, pads, shared
<1> QED
  BY <1>1, <1>2, <1>3, <1>4, <1>5, <1>6, <1>7, <1>8, <1>9, <1>10, <1>11, <1>12
     DEF Next, CallerStep

LEMMA TypeInit == Init => TypeInv
BY NeutralIsButtons, KeystrokeAssumption DEF Init, TypeInv, TypeOK, Index, User

\* Every variable keeps its type, and a thread that looks at a gamepad has a
\* user (the index checks of XInputGetKeystroke()).
THEOREM TypeOKHolds == Spec => []TypeOK
<1>1. TypeInv => TypeOK
  BY DEF TypeInv
<1> QED
  BY TypeInit, TypeStep, <1>1, PTL DEF Spec

------------------------------------------------------------------------------
(* The keystrokes *)

StrokeInv == TypeInv /\ HeldInv /\ ToldIsState

LEMMA StrokeInit == Init => StrokeInv
<1> SUFFICES ASSUME Init  PROVE StrokeInv
  OBVIOUS
<1>1. KeysOf(Neutral) = {}
  <2> SUFFICES ASSUME NEW k \in Key, Neutral[k[1]] = k[2]  PROVE FALSE
    BY DEF KeysOf
  <2>1. PICK g \in Group : k \in {g} \X Position[g]
    BY DEF Key
  <2> QED
    BY <2>1, KeystrokeAssumption DEF Neutral
<1> QED
  BY <1>1, TypeInit DEF Init, StrokeInv, HeldInv, ToldIsState

\* A step that stores no keystroke state disturbs nothing, if a thread that
\* comes to hold one holds the present one.
LEMMA QuietKeeps ==
  ASSUME StrokeInv, UNCHANGED <<keystate, raced, told, unpaired>>,
         \A c \in Caller : pc'[c] = "store" /\ c \notin overtaken' =>
           \/ from'[c] = keystate[index'[c]]
           \/ /\ pc[c] = "store" /\ c \notin overtaken
              /\ from'[c] = from[c] /\ index'[c] = index[c]
  PROVE  HeldInv' /\ ToldIsState'
BY DEF StrokeInv, HeldInv, ToldIsState

\* The threads that hold the state another one replaces are overtaken.
LEMMA StoreKeepsHeld ==
  ASSUME StrokeInv, NEW c \in Caller, pc[c] = "store", NEW next, NEW key,
         NEW isDown, Store(c, next, key, isDown)
  PROVE  HeldInv'
<1> SUFFICES ASSUME NEW d \in Caller, pc'[d] = "store", d \notin overtaken'
             PROVE  from'[d] = keystate'[index'[d]]
  BY DEF HeldInv
<1>1. d # c
  BY DEF Store, Goto, StrokeInv, TypeInv, TypeOK
<1>2. /\ pc[d] = "store" /\ d \notin overtaken /\ index[d] # index[c]
      /\ from'[d] = from[d] /\ index'[d] = index[d]
  BY <1>1 DEF Store, Goto, StrokeInv, TypeInv, TypeOK
<1>3. keystate'[index[d]] = keystate[index[d]]
  BY <1>2 DEF Store, StrokeInv, TypeInv, TypeOK
<1> QED
  BY <1>2, <1>3 DEF StrokeInv, HeldInv

\* What the program is told of a user, when the thread has not been overtaken,
\* is what the keystroke state then says.
LEMMA StoreTells ==
  ASSUME StrokeInv, NEW c \in Caller, pc[c] = "store", NEW next \in Buttons,
         NEW key \in Key, NEW isDown \in BOOLEAN, Store(c, next, key, isDown),
         (key \in KeysOf(from[c])) # isDown,
         KeysOf(next) = IF isDown THEN KeysOf(from[c]) \cup {key}
                                  ELSE KeysOf(from[c]) \ {key}
  PROVE  ToldIsState'
<1> SUFFICES ASSUME NEW u \in User, u \notin raced'
             PROVE  u \notin unpaired' /\ told'[u] = KeysOf(keystate'[u])
  BY DEF ToldIsState
<1> DEFINE v == index[c]
<1>1. v \in User
  BY DEF StrokeInv, TypeInv
<1>2. u \notin raced
  BY DEF Store
<1>3. u \notin unpaired /\ told[u] = KeysOf(keystate[u])
  BY <1>2 DEF StrokeInv, ToldIsState
<1>4. keystate' = [keystate EXCEPT ![v] = next]
  BY DEF Store
<1>5. CASE u # v
  <2>1. keystate'[u] = keystate[u]
    BY <1>4, <1>5 DEF StrokeInv, TypeInv, TypeOK
  <2>2. told'[u] = told[u]
    BY <1>1, <1>5 DEF Store, StrokeInv, TypeInv, TypeOK
  <2>3. u \notin unpaired'
    BY <1>3, <1>5 DEF Store
  <2> QED
    BY <1>3, <2>1, <2>2, <2>3
<1>6. CASE u = v
  <2>1. c \notin overtaken
    BY <1>6 DEF Store
  <2>2. told[u] = KeysOf(from[c])
    BY <1>3, <1>6, <2>1 DEF StrokeInv, HeldInv
  <2>3. keystate'[u] = next
    BY <1>1, <1>4, <1>6 DEF StrokeInv, TypeInv, TypeOK
  <2>4. told'[u] = IF isDown THEN told[u] \cup {key} ELSE told[u] \ {key}
    BY <1>1, <1>6 DEF Store, StrokeInv, TypeInv, TypeOK
  <2>5. u \notin unpaired'
    BY <1>3, <1>6, <2>2 DEF Store
  <2> QED
    BY <2>2, <2>3, <2>4, <2>5
<1> QED
  BY <1>5, <1>6

LEMMA StrokeStep == StrokeInv /\ [Next]_vars => StrokeInv'
<1> SUFFICES ASSUME StrokeInv, [Next]_vars  PROVE HeldInv' /\ ToldIsState'
  BY TypeStep DEF StrokeInv
<1> USE DEF StrokeInv
<1>1. CASE UNCHANGED vars
  BY <1>1, QuietKeeps DEF vars, shared, local, strokes
<1>2. ASSUME NEW u \in User,
             \/ Plug(u)
             \/ \E g \in Group : \E x \in Position[g] \cup {None} :
                  Change(u, g, x)
      PROVE  HeldInv' /\ ToldIsState'
  BY <1>2, QuietKeeps DEF Plug, Change, shared, local, strokes
<1>3. ASSUME NEW c \in Caller,
             \/ \E u \in User : Poll(c, u)
             \/ PollAny(c) \/ Bump(c) \/ Look(c)
      PROVE  HeldInv' /\ ToldIsState'
  <2>1. /\ UNCHANGED <<keystate, from, strokes>>
        /\ pc[c] # "store" /\ \E l \in {"bump", "look", "read"} : Goto(c, l)
        /\ \A d \in Caller \ {c} : index'[d] = index[d]
    BY <1>3 DEF Poll, PollAny, Bump, Look, shared, TypeInv, TypeOK
  <2>2. \A d \in Caller : pc'[d] = "store" => d # c /\ pc[d] = "store"
    BY <2>1 DEF Goto, TypeInv, TypeOK
  <2> QED
    BY <2>1, <2>2, QuietKeeps DEF strokes
<1>4. ASSUME NEW c \in Caller, LookNowhere(c) \/ NoStroke(c)
      PROVE  HeldInv' /\ ToldIsState'
  <2>1. Empty(c) /\ UNCHANGED <<keystate, raced, told, unpaired>>
    BY <1>4 DEF LookNowhere, NoStroke, shared
  <2>2. \A d \in Caller : pc'[d] = "store" => d # c /\ pc[d] = "store"
    BY <2>1, EmptyKeepsType DEF TypeInv, TypeOK
  <2>3. \A d \in Caller \ {c} : /\ from'[d] = from[d]
                                /\ d \in overtaken => d \in overtaken'
    BY <2>1 DEF Empty, Forget, TypeInv, TypeOK
  <2>4. \A d \in Caller \ {c} : index'[d] = index[d]
    BY <2>1, EmptyKeepsType
  <2>5. \A d \in Caller : pc'[d] = "store" /\ d \notin overtaken' =>
          /\ pc[d] = "store" /\ d \notin overtaken
          /\ from'[d] = from[d] /\ index'[d] = index[d]
    BY <2>2, <2>3, <2>4
  <2> QED
    BY <2>1, <2>5, QuietKeeps
<1>5. ASSUME NEW c \in Caller, Read(c)  PROVE HeldInv' /\ ToldIsState'
  <2>1. /\ UNCHANGED <<keystate, index, strokes>>
        /\ from' = [from EXCEPT ![c] = keystate[index[c]]]
        /\ pc' = [pc EXCEPT ![c] = "store"]
    BY <1>5 DEF Read, Goto, shared
  <2>2. from'[c] = keystate[index'[c]]
    BY <2>1 DEF TypeInv, TypeOK
  <2>3. \A d \in Caller \ {c} : pc'[d] = pc[d] /\ from'[d] = from[d]
    BY <2>1 DEF TypeInv, TypeOK
  <2> QED
    BY <2>1, <2>2, <2>3, QuietKeeps DEF strokes
<1>6. ASSUME NEW c \in Caller, KeyUp(c)  PROVE HeldInv' /\ ToldIsState'
  <2>1. PICK g \in Group :
          /\ Foremost(g, Released(c))
          /\ Store(c, [from[c] EXCEPT ![g] = None], <<g, from[c][g]>>, FALSE)
    BY <1>6 DEF KeyUp
  <2>2. from[c] \in Buttons /\ from[c][g] # None /\ pc[c] = "store"
    BY <1>6, <2>1 DEF KeyUp, Foremost, Released, TypeInv, TypeOK
  <2>3. [from[c] EXCEPT ![g] = None] \in Buttons /\ <<g, from[c][g]>> \in Key
    BY <2>2, ChangedIsButtons, ReleasedKeys DEF KeysOf
  <2>4. HeldInv'
    BY <2>1, <2>2, StoreKeepsHeld
  <2>5. ToldIsState'
    BY <2>1, <2>2, <2>3, ReleasedKeys, StoreTells
  <2> QED
    BY <2>4, <2>5
<1>7. ASSUME NEW c \in Caller, KeyDown(c)  PROVE HeldInv' /\ ToldIsState'
  <2>1. PICK g \in Group :
          /\ Foremost(g, Pressed(c))
          /\ Store(c, [from[c] EXCEPT ![g] = to[c][g]], <<g, to[c][g]>>, TRUE)
    BY <1>7 DEF KeyDown
  <2>2. /\ from[c] \in Buttons /\ to[c] \in Buttons /\ pc[c] = "store"
        /\ to[c][g] \notin {None, from[c][g]}
    BY <1>7, <2>1 DEF KeyDown, Foremost, Pressed, TypeInv, TypeOK
  <2>3. to[c][g] \in Position[g]
    BY <2>2 DEF Buttons
  <2>4. from[c][g] = None
    BY <1>7, <2>2 DEF KeyDown, Released
  <2>5. [from[c] EXCEPT ![g] = to[c][g]] \in Buttons
    BY <2>2, <2>3, ChangedIsButtons
  <2>6. HeldInv'
    BY <2>1, <2>2, StoreKeepsHeld
  <2>7. /\ <<g, to[c][g]>> \in Key /\ <<g, to[c][g]>> \notin KeysOf(from[c])
        /\ KeysOf([from[c] EXCEPT ![g] = to[c][g]])
             = KeysOf(from[c]) \cup {<<g, to[c][g]>>}
    BY <2>2, <2>3, <2>4, PressedKeys
  <2>8. ToldIsState'
    BY <2>1, <2>2, <2>5, <2>7, StoreTells
  <2> QED
    BY <2>6, <2>8
<1> QED
  BY <1>1, <1>2, <1>3, <1>4, <1>5, <1>6, <1>7 DEF Next, CallerStep

\* As long as no thread stores over a state another has stored meanwhile,
\* however they interleave, a program is told of every key that goes down or up
\* once (XInputGetNextKeyStroke()).
THEOREM ToldIsStateHolds == Spec => []ToldIsState
<1>1. StrokeInv => ToldIsState
  BY DEF StrokeInv
<1> QED
  BY StrokeInit, StrokeStep, <1>1, PTL DEF Spec

------------------------------------------------------------------------------
(* XUSER_INDEX_ANY *)

\* A user stays covered while the threads move on.
LEMMA CoveredStays ==
  ASSUME TypeInv, NEW u \in User, Covered(u), looked \subseteq looked',
         \A c \in Caller : pc[c] = "look" /\ calls[c] > 0 /\ index[c] = u =>
           \/ u \in looked'
           \/ pc'[c] = "look" /\ calls'[c] > 0 /\ index'[c] = u
  PROVE  Covered(u)'
BY DEF Covered

LEMMA AnyInit == Init => AnyInv
BY KeystrokeAssumption DEF Init, AnyInv, User

LEMMA AnyStep == TypeInv /\ AnyInv /\ [Next]_vars => AnyInv'
<1> SUFFICES ASSUME TypeInv, AnyInv, [Next]_vars  PROVE AnyInv'
  OBVIOUS
<1>1. CASE UNCHANGED vars
  BY <1>1 DEF AnyInv, Covered, vars, shared, local
<1>2. ASSUME NEW u \in User,
             \/ Plug(u)
             \/ \E g \in Group : \E x \in Position[g] \cup {None} :
                  Change(u, g, x)
      PROVE  AnyInv'
  BY <1>2 DEF Plug, Change, AnyInv, Covered, shared, local
<1>3. ASSUME NEW c \in Caller, NEW u \in User, Poll(c, u)  PROVE AnyInv'
  <2>1. /\ UNCHANGED <<anyFirst, looked, calls>> /\ pc[c] = "out"
        /\ pc' = [pc EXCEPT ![c] = "look"] /\ index' = [index EXCEPT ![c] = u]
    BY <1>3 DEF Poll, Goto, shared
  <2>2. \A v \in User : Covered(v) => Covered(v)'
    BY <2>1, CoveredStays DEF TypeInv, TypeOK
  <2> QED
    BY <2>1, <2>2 DEF AnyInv, TypeInv, TypeOK
<1>4. ASSUME NEW c \in Caller, PollAny(c)  PROVE AnyInv'
  <2>1. /\ UNCHANGED <<anyFirst, looked, calls>> /\ pc[c] = "out"
        /\ pc' = [pc EXCEPT ![c] = "bump"]
        /\ index' = [index EXCEPT ![c] = anyFirst]
    BY <1>4 DEF PollAny, Goto, shared
  <2>2. \A v \in User : Covered(v) => Covered(v)'
    BY <2>1, CoveredStays DEF TypeInv, TypeOK
  <2> QED
    BY <2>1, <2>2 DEF AnyInv, TypeInv, TypeOK
<1>5. ASSUME NEW c \in Caller, Bump(c)  PROVE AnyInv'
  <2>1. /\ UNCHANGED <<index, looked>> /\ pc[c] = "bump"
        /\ anyFirst' = index[c] + 1
        /\ pc' = [pc EXCEPT ![c] = "look"]
        /\ calls' = [calls EXCEPT ![c] = Loops(index[c])]
    BY <1>5 DEF Bump, Goto
  <2>2. index[c] \in Nat /\ Loops(index[c]) > 0
    BY <2>1, KeystrokeAssumption DEF TypeInv, Loops
  <2>3. \A v \in User : Covered(v) => Covered(v)'
    BY <2>1, CoveredStays DEF TypeInv, TypeOK
  <2>4. ASSUME NEW v \in User, v = index[c]  PROVE Covered(v)'
    BY <2>1, <2>2, <2>4 DEF Covered, TypeInv, TypeOK
  <2>5. \A v \in User : v < anyFirst' => v < index[c] \/ v = index[c]
    BY <2>1, <2>2, KeystrokeAssumption DEF User
  <2> QED
    BY <2>1, <2>3, <2>4, <2>5 DEF AnyInv, TypeInv, TypeOK
<1>6. ASSUME NEW c \in Caller, Look(c)  PROVE AnyInv'
  <2>1. /\ UNCHANGED <<anyFirst, index, calls>> /\ pc[c] = "look" /\ Looked(c)
        /\ pc' = [pc EXCEPT ![c] = "read"]
    BY <1>6 DEF Look, Goto, shared
  <2>2. \A v \in User : Covered(v) => Covered(v)'
    BY <2>1, CoveredStays DEF Looked, TypeInv, TypeOK
  <2> QED
    BY <2>1, <2>2 DEF AnyInv, TypeInv, TypeOK
<1>7. ASSUME NEW c \in Caller, LookNowhere(c)  PROVE AnyInv'
  <2>1. UNCHANGED anyFirst /\ pc[c] = "look" /\ Looked(c) /\ Empty(c)
    BY <1>7 DEF LookNowhere, shared
  <2>2. \A d \in Caller \ {c} : /\ pc'[d] = pc[d] /\ calls'[d] = calls[d]
                                /\ index'[d] = index[d]
    BY <2>1 DEF Empty, Goto, TypeInv, TypeOK
  <2>3. \A v \in User : Covered(v) => Covered(v)'
    BY <2>1, <2>2, CoveredStays DEF Looked
  <2>4. pc'[c] # "bump"
    BY <2>1, EmptyKeepsType
  <2> QED
    BY <2>1, <2>2, <2>3, <2>4 DEF AnyInv
<1>8. ASSUME NEW c \in Caller, Read(c) \/ NoStroke(c)  PROVE AnyInv'
  <2>1. /\ UNCHANGED <<anyFirst, looked>> /\ pc[c] \in {"read", "store"}
        /\ pc'[c] # "bump"
        /\ \A d \in Caller \ {c} : /\ pc'[d] = pc[d] /\ calls'[d] = calls[d]
                                   /\ index'[d] = index[d]
    BY <1>8, EmptyKeepsType
       DEF Read, NoStroke, Empty, Goto, shared, TypeInv, TypeOK
  <2>2. \A v \in User : Covered(v) => Covered(v)'
    BY <2>1, CoveredStays
  <2> QED
    BY <2>1, <2>2 DEF AnyInv
<1>9. ASSUME NEW c \in Caller, KeyUp(c) \/ KeyDown(c)  PROVE AnyInv'
  <2>1. PICK next, key, isDown : pc[c] = "store" /\ Store(c, next, key, isDown)
    BY <1>9 DEF KeyUp, KeyDown
  <2>2. /\ UNCHANGED <<anyFirst, looked>>
        /\ pc' = [pc EXCEPT ![c] = "out"]
        /\ calls' = [calls EXCEPT ![c] = 0]
        /\ index' = [index EXCEPT ![c] = 0]
    BY <2>1 DEF Store, Goto
  <2>3. \A v \in User : Covered(v) => Covered(v)'
    BY <2>1, <2>2, CoveredStays DEF TypeInv, TypeOK
  <2> QED
    BY <2>2, <2>3 DEF AnyInv, TypeInv, TypeOK
<1> QED
  BY <1>1, <1>2, <1>3, <1>4, <1>5, <1>6, <1>7, <1>8, <1>9 DEF Next, CallerStep

\* The calls with XUSER_INDEX_ANY leave no user out (XInputGetKeystroke()),
\* with any number of users and of threads that increment the counter at a time.
THEOREM AnyRoundHolds == Spec => []AnyRound
<1>1. TypeInv /\ AnyInv => AnyRound
  <2> SUFFICES ASSUME TypeInv, AnyInv, anyFirst >= UserMax,
                      \A c \in Caller : calls[c] = 0 /\ pc[c] # "bump"
               PROVE  looked = User
    BY DEF AnyRound
  <2>1. \A u \in User : u < anyFirst
    BY KeystrokeAssumption DEF User, TypeInv, TypeOK, Index
  <2>2. \A u \in User : Covered(u)
    BY <2>1 DEF AnyInv
  <2>3. \A c \in Caller : ~(calls[c] > 0)
    BY KeystrokeAssumption
  <2> QED
    BY <2>2, <2>3 DEF Covered, TypeInv, TypeOK
<1> QED
  BY TypeInit, TypeStep, AnyInit, AnyStep, <1>1, PTL DEF Spec

==============================================================================
