--------------------------- MODULE XinputKeystroke ---------------------------
(***************************************************************************)
(* XInputGetKeystroke() called by several threads of a program             *)
(* (src/src/xinput1_3_main.c, the same code as src/src/dll.c).  What each  *)
(* user was last told to have pressed, xinputkeystroke_state[], and the    *)
(* user XUSER_INDEX_ANY looks at, xinputkeystroke_any_first, are shared by *)
(* the threads "loosely (a.k.a : without mutex)".                          *)
(*                                                                         *)
(* The buttons are copied in one step: copies in several steps are in      *)
(* XinputInput.  Groups, ranks and positions are those of XinputInput.     *)
(***************************************************************************)
EXTENDS Naturals, FiniteSets

CONSTANTS
  UserMax,     \* XUSER_MAX_COUNT: the users are 0 .. UserMax - 1
  Caller,      \* threads that poll keystrokes
  Group,       \* buttons and sticks
  Rank,        \* the order of their entries in xinputkeystroke_vk_button
  Position,    \* per group: what it reports when it is pressed or moved
  None,        \* released, or in the middle
  MaxChange,   \* bound on the changes of the gamepads
  MaxAny       \* bound on xinputkeystroke_any_first

User == 0 .. UserMax - 1
Index == 0 .. MaxAny

ASSUME KeystrokeAssumption ==
  /\ UserMax \in Nat \ {0} /\ MaxAny \in Nat /\ MaxChange \in Nat
  /\ Rank \in [Group -> Nat]
  /\ \A g, h \in Group : Rank[g] = Rank[h] => g = h
  /\ DOMAIN Position = Group
  /\ \A g \in Group : None \notin Position[g]

Neutral == [g \in Group |-> None]
Buttons == {b \in [Group -> (UNION {Position[g] : g \in Group}) \cup {None}] :
              \A g \in Group : b[g] \in Position[g] \cup {None}}
Key == UNION {{g} \X Position[g] : g \in Group}
KeysOf(b) == {k \in Key : b[k[1]] = k[2]}

VARIABLES
  connected,   \* per user: there is a gamepad
  buttons,     \* per user: what it reports
  changes,     \* changes of the gamepads so far
  keystate,    \* per user: xinputkeystroke_state[]
  anyFirst,    \* xinputkeystroke_any_first
  pc,          \* per caller: where it is
  index,       \* per caller: the user it looks at
  calls,       \* per caller: calls it has left in the loops of ANY, 0: no ANY
  to,          \* per caller: the buttons it has copied
  from,        \* per caller: the keystroke state it has read
  \* history
  overtaken,   \* callers whose user has another keystroke state than they read
  raced,       \* users for which such a caller stored one
  told,        \* per user: the keys a program believes down
  unpaired,    \* users with a KEYDOWN of a key that was down or a KEYUP of one up
  looked       \* users an ANY call has looked at

pads    == <<connected, buttons, changes>>
shared  == <<keystate, anyFirst>>
local   == <<pc, index, calls, to, from>>
strokes == <<overtaken, raced, told, unpaired>>
vars    == <<pads, shared, local, strokes, looked>>

TypeOK ==
  /\ connected \in [User -> BOOLEAN] /\ buttons \in [User -> Buttons]
  /\ changes \in 0 .. MaxChange
  /\ keystate \in [User -> Buttons] /\ anyFirst \in Index
  /\ pc \in [Caller -> {"out", "bump", "look", "read", "store"}]
  /\ index \in [Caller -> User \cup Index]
  /\ calls \in [Caller -> 0 .. UserMax + MaxAny]
  /\ to \in [Caller -> Buttons] /\ from \in [Caller -> Buttons]
  /\ overtaken \subseteq Caller /\ raced \subseteq User
  /\ told \in [User -> SUBSET Key] /\ unpaired \subseteq User
  /\ looked \subseteq User

Init ==
  /\ connected = [u \in User |-> TRUE]
  /\ buttons = [u \in User |-> Neutral]
  /\ changes = 0
  /\ keystate = [u \in User |-> Neutral]
  /\ anyFirst = 0
  /\ pc = [c \in Caller |-> "out"]
  /\ index = [c \in Caller |-> 0]
  /\ calls = [c \in Caller |-> 0]
  /\ to = [c \in Caller |-> Neutral]
  /\ from = [c \in Caller |-> Neutral]
  /\ overtaken = {} /\ raced = {} /\ unpaired = {}
  /\ told = [u \in User |-> {}]
  /\ looked = {}

------------------------------------------------------------------------------
(* The gamepads, as the shared memory shows them *)

Change(u, g, x) ==
  /\ changes < MaxChange
  /\ connected[u]
  /\ x # buttons[u][g]
  /\ buttons' = [buttons EXCEPT ![u][g] = x]
  /\ changes' = changes + 1
  /\ UNCHANGED <<connected, shared, local, strokes, looked>>

Plug(u) ==
  /\ changes < MaxChange
  /\ connected' = [connected EXCEPT ![u] = ~@]
  /\ changes' = changes + 1
  /\ UNCHANGED <<buttons, shared, local, strokes, looked>>

------------------------------------------------------------------------------
(* XInputGetKeystroke() *)

Goto(c, l) == pc' = [pc EXCEPT ![c] = l]

\* the end of a call that found no keystroke: ANY makes its next one
Forget(c) ==
  /\ to' = [to EXCEPT ![c] = Neutral]
  /\ from' = [from EXCEPT ![c] = Neutral]
  /\ overtaken' = overtaken \ {c}

Empty(c) ==
  /\ Forget(c)
  /\ Goto(c, IF calls[c] > 1 THEN "look" ELSE "out")
  /\ calls' = [calls EXCEPT ![c] = IF @ > 0 THEN @ - 1 ELSE 0]
  /\ index' = [index EXCEPT ![c] = IF calls[c] > 1 THEN @ ELSE 0]

Poll(c, u) ==
  /\ pc[c] = "out"
  /\ index' = [index EXCEPT ![c] = u]
  /\ Goto(c, "look")
  /\ UNCHANGED <<pads, shared, calls, to, from, strokes, looked>>

\* XUSER_INDEX_ANY: xinputkeystroke_any_first++ is a read and a write (the
\* bound MaxAny stands for the end of the int, far away)
PollAny(c) ==
  /\ pc[c] = "out"
  /\ anyFirst < MaxAny
  /\ index' = [index EXCEPT ![c] = anyFirst]
  /\ Goto(c, "bump")
  /\ UNCHANGED <<pads, shared, calls, to, from, strokes, looked>>

\* the two loops: from i to the last user, and from 0 to i - 1
Loops(i) == IF i < UserMax THEN UserMax ELSE i

\* mutant: the counter skips a user
BumpTwo(c) ==
  /\ pc[c] = "bump"
  /\ anyFirst' = IF index[c] + 2 > MaxAny THEN MaxAny ELSE index[c] + 2
  /\ calls' = [calls EXCEPT ![c] = Loops(index[c])]
  /\ Goto(c, "look")
  /\ UNCHANGED <<pads, keystate, index, to, from, strokes, looked>>

Bump(c) ==
  /\ pc[c] = "bump"
  /\ anyFirst' = index[c] + 1
  /\ calls' = [calls EXCEPT ![c] = Loops(index[c])]
  /\ Goto(c, "look")
  /\ UNCHANGED <<pads, keystate, index, to, from, strokes, looked>>

Looked(c) == looked' = IF calls[c] > 0 THEN looked \cup ({index[c]} \cap User)
                                       ELSE looked

\* mutant: the copy fails and leaves the buttons released
LookBlank(c) ==
  /\ pc[c] = "look"
  /\ index[c] \in User
  /\ connected[index[c]]
  /\ Goto(c, "read")
  /\ Looked(c)
  /\ UNCHANGED <<pads, shared, index, calls, to, from, strokes>>

\* xinput_gamepad_connected() and xinput_gamepad_copy_buttons_state(): all the
\* calls of an ANY look at the same user
Look(c) ==
  /\ pc[c] = "look"
  /\ index[c] \in User
  /\ connected[index[c]]
  /\ to' = [to EXCEPT ![c] = buttons[index[c]]]
  /\ Goto(c, "read")
  /\ Looked(c)
  /\ UNCHANGED <<pads, shared, index, calls, from, strokes>>

\* ERROR_DEVICE_NOT_CONNECTED, ERROR_BAD_ARGUMENTS
LookNowhere(c) ==
  /\ pc[c] = "look"
  /\ index[c] \in User => ~connected[index[c]]
  /\ Empty(c)
  /\ Looked(c)
  /\ UNCHANGED <<pads, shared, raced, told, unpaired>>

\* the argument "from" of XInputGetNextKeyStroke()
Read(c) ==
  /\ pc[c] = "read"
  /\ from' = [from EXCEPT ![c] = keystate[index[c]]]
  /\ Goto(c, "store")
  /\ UNCHANGED <<pads, shared, index, calls, to, strokes, looked>>

------------------------------------------------------------------------------
(* XInputGetNextKeyStroke() *)

Released(c) == {g \in Group : from[c][g] \notin {None, to[c][g]}}
Pressed(c) == {g \in Group : to[c][g] \notin {None, from[c][g]}}

\* the loop over the entries stops at g
Foremost(g, G) == g \in G /\ \A h \in G : Rank[g] <= Rank[h]

\* the next keystroke state is stored, and a keystroke returned; who may have
\* been told what is followed as long as no caller is overtaken
Store(c, next, key, isDown) ==
  LET u == index[c] IN
  /\ keystate' = [keystate EXCEPT ![u] = next]
  /\ raced' = raced \cup (IF c \in overtaken THEN {u} ELSE {})
  /\ LET sane == u \notin raced' IN
     /\ told' = [told EXCEPT ![u] = IF ~sane THEN {}
                                    ELSE IF isDown THEN @ \cup {key}
                                    ELSE @ \ {key}]
     /\ unpaired' = IF sane /\ (key \in told[u]) = isDown
                    THEN unpaired \cup {u} ELSE unpaired
  /\ to' = [to EXCEPT ![c] = Neutral]
  /\ from' = [from EXCEPT ![c] = Neutral]
  /\ overtaken' = (overtaken \ {c})
       \cup {d \in Caller \ {c} : pc[d] = "store" /\ index[d] = u}
  /\ Goto(c, "out")
  /\ calls' = [calls EXCEPT ![c] = 0]
  /\ index' = [index EXCEPT ![c] = 0]
  /\ UNCHANGED <<pads, anyFirst, looked>>

KeyUp(c) ==
  /\ pc[c] = "store"
  /\ \E g \in Group :
       /\ Foremost(g, Released(c))
       /\ Store(c, [from[c] EXCEPT ![g] = None], <<g, from[c][g]>>, FALSE)

\* mutant: the buttons are stored as a whole
KeyDownAll(c) ==
  /\ pc[c] = "store"
  /\ Released(c) = {}
  /\ \E g \in Group :
       /\ Foremost(g, Pressed(c))
       /\ Store(c, to[c], <<g, to[c][g]>>, TRUE)

\* mutant: the virtual key is stored, not its bits
KeyDownKey(c) ==
  /\ pc[c] = "store"
  /\ Released(c) = {}
  /\ \E g \in Group :
       /\ Foremost(g, Pressed(c))
       /\ Store(c, [from[c] EXCEPT ![g] = <<g, to[c][g]>>], <<g, to[c][g]>>, TRUE)

KeyDown(c) ==
  /\ pc[c] = "store"
  /\ Released(c) = {}
  /\ \E g \in Group :
       /\ Foremost(g, Pressed(c))
       /\ Store(c, [from[c] EXCEPT ![g] = to[c][g]], <<g, to[c][g]>>, TRUE)

\* ERROR_EMPTY
NoStroke(c) ==
  /\ pc[c] = "store"
  /\ Released(c) \cup Pressed(c) = {}
  /\ Empty(c)
  /\ UNCHANGED <<pads, shared, raced, told, unpaired, looked>>

------------------------------------------------------------------------------
CallerStep(c) ==
  \/ Bump(c) \/ Look(c) \/ LookNowhere(c) \/ Read(c)
  \/ KeyUp(c) \/ KeyDown(c) \/ NoStroke(c)

Next ==
  \/ \E u \in User : \/ Plug(u)
                     \/ \E g \in Group : \E x \in Position[g] \cup {None} :
                          Change(u, g, x)
  \/ \E c \in Caller : \/ \E u \in User : Poll(c, u)
                       \/ PollAny(c) \/ CallerStep(c)

Spec == Init /\ [][Next]_vars

\* threads are scheduled, and each keeps polling every user
Fairness ==
  \A c \in Caller : /\ WF_vars(CallerStep(c))
                    /\ \A u \in User : SF_vars(Poll(c, u))

FairSpec == Spec /\ Fairness

------------------------------------------------------------------------------
(* What the program gets *)

\* As long as no thread stores a state computed from one that another thread
\* has replaced meanwhile, the keystroke state is exactly what the program has
\* been told, by whichever thread, and every KEYUP follows its KEYDOWN, even
\* when a thread still holds older buttons than another has reported.
ToldIsState ==
  \A u \in User \ raced : u \notin unpaired /\ told[u] = KeysOf(keystate[u])

\* With or without such races the state comes to rest at the buttons that are
\* really down: a state that was stored over a newer one is corrected by the
\* next polls, two threads do not push it back and forth for ever.
StateFollows ==
  \A u \in User : <>[](connected[u]) => <>[](keystate[u] = buttons[u])

\* "for each device, look at the one that got the oldest unknown update loosely
\* [...] the first device checked in order to be a bit fair" (dll.c:387): each
\* ANY call looks at the next user only, so it takes UserMax of them to
\* look at all.  They do, even when two threads increment the counter at a time,
\* which can only make them look at a user twice.
AnyRound ==
  anyFirst >= UserMax /\ (\A c \in Caller : calls[c] = 0 /\ pc[c] # "bump")
    => looked = User

==============================================================================
