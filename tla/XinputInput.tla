----------------------------- MODULE XinputInput -----------------------------
(***************************************************************************)
(* The state of a gamepad on its way from the device to a program: the     *)
(* reader thread copies it to the shared memory after each event           *)
(* (src/src/xinput_service.c), the programs copy it out                    *)
(* (src/src/xinput_gamepad.c) to see what has changed, by the packet       *)
(* number (XInputGetState) or by the keys (XInputGetKeystroke, in          *)
(* src/src/dll.c).  No lock is taken (XINPUT_USES_SEMAPHORE_MUTEX is 0).   *)
(*                                                                         *)
(* One slot and one program.  The module keeps every state the gamepad has *)
(* been in; the copies hold, per part a memcpy() may split a state into,   *)
(* which of them they have got.  A group is a button, or a thumb stick     *)
(* with the positions that exclude each other (a mask of                   *)
(* xinputkeystroke_vk_button); the two axes of a stick are taken to be     *)
(* copied together.                                                        *)
(***************************************************************************)
EXTENDS Integers, Sequences, FiniteSets

CONSTANTS
  Group,       \* buttons and sticks
  Rank,        \* the order of their entries in xinputkeystroke_vk_button
  Position,    \* per group: what it reports when it is pressed or moved
  None,        \* released, or in the middle
  Part,        \* what memcpy() may copy at a time
  PartOf,      \* per group: the part it is in
  MaxState     \* bound on the states of the gamepad

ASSUME InputAssumption ==
  /\ Rank \in [Group -> Nat]
  /\ \A g, h \in Group : Rank[g] = Rank[h] => g = h
  /\ DOMAIN Position = Group
  /\ \A g \in Group : None \notin Position[g]
  /\ PartOf \in [Group -> Part]
  /\ MaxState \in Nat \ {0}

Key == UNION {{g} \X Position[g] : g \in Group}
Neutral == [g \in Group |-> None]

VARIABLES
  hist,       \* the states of the gamepad so far, data->gamepad is the last
  syn,        \* the EV_SYN that ends a report has not been read yet
  fresh,      \* no event has been read since the gamepad was plugged
  rpc, rtodo, \* the reader: where it is, parts it has still to copy
  shm,        \* per part: the state the shared memory has
  packet,     \* dwPacketNumber
  connected,
  enabled,    \* xinput_enabled
  cpc, ctodo, \* the program's thread
  out,        \* per part: the state it has copied
  serial,     \* the packet number the program has last handled ...
  seen,       \* ... with this state
  since,      \* history: the packet number when the copy began ...
  overtaken,  \* ... and whether the one handled is a later one
  keys,       \* xinputkeystroke_state[]
  down        \* per key: KEYDOWNs the program has got, minus KEYUPs

device  == <<hist, syn, fresh>>
shared  == <<shm, packet, connected>>
reader  == <<rpc, rtodo>>
caller  == <<cpc, ctodo, out>>
program == <<enabled, serial, seen, since, overtaken, keys, down>>
vars    == <<device, shared, reader, caller, program>>

Version == 1 .. MaxState

TypeOK ==
  /\ Len(hist) \in Version
  /\ \A i \in DOMAIN hist : \A g \in Group : hist[i][g] \in Position[g] \cup {None}
  /\ syn \in BOOLEAN /\ fresh \in BOOLEAN
  /\ rpc \in {"off", "read", "copy", "count"} /\ rtodo \subseteq Part
  /\ shm \in [Part -> Version] /\ packet \in 0 .. 2 * MaxState
  /\ connected \in BOOLEAN /\ enabled \in BOOLEAN
  /\ cpc \in {"out", "enabled", "state", "keys"} /\ ctodo \subseteq Part
  /\ out \in [Part -> Version]
  /\ serial \in 0 .. 2 * MaxState /\ seen \in [Part -> Version]
  /\ since \in 0 .. 2 * MaxState /\ overtaken \in BOOLEAN
  /\ \A g \in Group : keys[g] \in Position[g] \cup {None}
  /\ down \in [Key -> Int]

Init ==
  /\ hist = <<Neutral>>
  /\ syn = FALSE /\ fresh = TRUE
  /\ rpc = "off" /\ rtodo = {}
  /\ shm = [p \in Part |-> 1]
  /\ packet = 0
  /\ connected = FALSE
  /\ enabled = TRUE
  /\ cpc = "out" /\ ctodo = {}
  /\ out = [p \in Part |-> 1]
  /\ serial = 0
  /\ seen = [p \in Part |-> 1]
  /\ since = 0 /\ overtaken = FALSE
  /\ keys = Neutral
  /\ down = [k \in Key |-> 0]

Now == hist[Len(hist)]

------------------------------------------------------------------------------
(* xinput_service_gamepad_reader_thread() *)

\* a new instance starts with released buttons, the shared memory keeps what
\* the gamepad before it had
Begin ==
  /\ rpc = "off"
  /\ Len(hist) < MaxState
  /\ hist' = Append(hist, Neutral)
  /\ fresh' = TRUE
  /\ connected' = TRUE
  /\ rpc' = "read"
  /\ UNCHANGED <<syn, shm, packet, rtodo, caller, program>>

\* an EV_KEY or EV_ABS event that changes one group
Event(g, x) ==
  /\ rpc = "read"
  /\ Len(hist) < MaxState
  /\ x # Now[g]
  /\ hist' = Append(hist, [Now EXCEPT ![g] = x])
  /\ syn' = TRUE /\ fresh' = FALSE
  /\ rpc' = "copy" /\ rtodo' = Part
  /\ UNCHANGED <<shared, caller, program>>

\* mutant: the end of a report is read again and again
SyncAgain ==
  /\ rpc = "read"
  /\ syn
  /\ rpc' = "copy" /\ rtodo' = Part
  /\ UNCHANGED <<device, shared, caller, program>>

\* EV_SYN ends the report; it is an event like any other
Sync ==
  /\ rpc = "read"
  /\ syn
  /\ syn' = FALSE
  /\ rpc' = "copy" /\ rtodo' = Part
  /\ UNCHANGED <<hist, fresh, shared, caller, program>>

\* vtbl->update()
Update(p) ==
  /\ rpc = "copy"
  /\ p \in rtodo
  /\ shm' = [shm EXCEPT ![p] = Len(hist)]
  /\ rtodo' = rtodo \ {p}
  /\ rpc' = IF rtodo' = {} THEN "count" ELSE "copy"
  /\ UNCHANGED <<device, packet, connected, caller, program>>

\* mutant: the packet number is kept in one bit
CountNarrow ==
  /\ rpc = "count"
  /\ packet' = (packet + 1) % 2
  /\ rpc' = "read"
  /\ UNCHANGED <<device, shm, connected, rtodo, caller, program>>

Count ==
  /\ rpc = "count"
  /\ packet' = packet + 1
  /\ rpc' = "read"
  /\ UNCHANGED <<device, shm, connected, rtodo, caller, program>>

\* the gamepad is gone
End ==
  /\ rpc = "read"
  /\ connected' = FALSE
  /\ syn' = FALSE
  /\ rpc' = "off"
  /\ UNCHANGED <<hist, fresh, shm, packet, rtodo, caller, program>>

------------------------------------------------------------------------------
(* XInputGetState(), XInputGetStateEx(), XInputEnable() *)

GetState ==
  /\ cpc = "out"
  /\ connected
  /\ cpc' = "enabled"
  /\ UNCHANGED <<device, shared, reader, ctodo, out, program>>

IsEnabled ==
  /\ cpc = "enabled"
  /\ enabled
  /\ cpc' = "state" /\ ctodo' = Part
  /\ since' = packet
  /\ UNCHANGED <<device, shared, reader, out, enabled, serial, seen, overtaken,
                 keys, down>>

\* the program gets a neutral state and no packet number
IsDisabled ==
  /\ cpc = "enabled"
  /\ ~enabled
  /\ cpc' = "out"
  /\ UNCHANGED <<device, shared, reader, ctodo, out, program>>

\* by another thread of the program
Enable(b) ==
  /\ enabled' = b
  /\ UNCHANGED <<device, shared, reader, caller, serial, seen, since, overtaken, keys,
                 down>>

\* memcpy() in copy_state(), copy_state_ex() and copy_buttons_state()
Copy(p) ==
  /\ cpc \in {"state", "keys"}
  /\ p \in ctodo
  /\ out' = [out EXCEPT ![p] = shm[p]]
  /\ ctodo' = ctodo \ {p}
  /\ UNCHANGED <<device, shared, reader, cpc, program>>

\* the packet number is read last; the program handles what has another one
\* than before (test/xinput-test/xinput-test.c)
CopyPacket ==
  /\ cpc = "state"
  /\ ctodo = {}
  /\ serial' = packet
  /\ seen' = IF packet # serial THEN out ELSE seen
  /\ overtaken' = IF packet # serial THEN packet # since ELSE overtaken
  /\ since' = 0
  /\ cpc' = "out"
  /\ UNCHANGED <<device, shared, reader, ctodo, out, enabled, keys, down>>

------------------------------------------------------------------------------
(* XInputGetKeystroke() and XInputGetNextKeyStroke() *)

GetKeystroke ==
  /\ cpc = "out"
  /\ connected
  /\ cpc' = "keys" /\ ctodo' = Part
  /\ UNCHANGED <<device, shared, reader, out, program>>

Stroke ==
  /\ cpc = "keys"
  /\ ctodo = {}
  /\ cpc' = "out"
  /\ UNCHANGED <<device, shared, reader, ctodo, out, enabled, serial, seen,
                 since, overtaken>>

Buttons == [g \in Group |-> hist[out[PartOf[g]]][g]]
Released == {g \in Group : keys[g] \notin {None, Buttons[g]}}
Pressed == {g \in Group : Buttons[g] \notin {None, keys[g]}}
First(G) == CHOOSE g \in G : \A h \in G : Rank[g] <= Rank[h]

\* what is released comes first
KeyUp ==
  LET g == First(Released) IN
  /\ Stroke
  /\ Released # {}
  /\ keys' = [keys EXCEPT ![g] = None]
  /\ down' = [down EXCEPT ![<<g, keys[g]>>] = @ - 1]

\* mutant: a press is reported before what was there is released
KeyDownFirst ==
  LET g == First(Pressed) IN
  /\ Stroke
  /\ Pressed # {}
  /\ keys' = [keys EXCEPT ![g] = Buttons[g]]
  /\ down' = [down EXCEPT ![<<g, Buttons[g]>>] = @ + 1]

\* mutant: the new state is stored as a whole
KeyDownAll ==
  LET g == First(Pressed) IN
  /\ Stroke
  /\ Released = {} /\ Pressed # {}
  /\ keys' = Buttons
  /\ down' = [down EXCEPT ![<<g, Buttons[g]>>] = @ + 1]

KeyDown ==
  LET g == First(Pressed) IN
  /\ Stroke
  /\ Released = {} /\ Pressed # {}
  /\ keys' = [keys EXCEPT ![g] = Buttons[g]]
  /\ down' = [down EXCEPT ![<<g, Buttons[g]>>] = @ + 1]

NoStroke ==
  /\ Stroke
  /\ Released \cup Pressed = {}
  /\ UNCHANGED <<keys, down>>

------------------------------------------------------------------------------
Reader == Sync \/ Count \/ \E p \in Part : Update(p)

Caller ==
  \/ IsEnabled \/ IsDisabled \/ CopyPacket \/ KeyUp \/ KeyDown \/ NoStroke
  \/ \E p \in Part : Copy(p)

Next ==
  \/ Begin \/ End \/ Reader
  \/ \E g \in Group : \E x \in Position[g] \cup {None} : Event(g, x)
  \/ GetState \/ GetKeystroke \/ Caller
  \/ \E b \in BOOLEAN : enabled # b /\ Enable(b)

Spec == Init /\ [][Next]_vars

\* threads are scheduled, reports are ended by an EV_SYN, and the program keeps
\* calling both functions while the gamepad is there
Fairness ==
  /\ WF_vars(Reader) /\ WF_vars(Caller)
  /\ SF_vars(GetState) /\ SF_vars(GetKeystroke)

FairSpec == Spec /\ Fairness
------------------------------------------------------------------------------
(* What the programs get *)

\* The keystrokes make sense, also when they come from states of which one
\* part is newer than the other (XInputGetNextKeyStroke()): no key goes down
\* twice or up twice, no stick is in two positions at once.
StrokesPaired ==
  /\ \A k \in Key : down[k] \in {0, 1}
  /\ \A j, k \in Key : j[1] = k[1] /\ down[j] + down[k] > 1 => j = k

\* Once the gamepad has sent something and stays silent, a program that polls
\* keystrokes has got all of them: the keys it believes down are down.
Silent == rpc = "read" /\ ~syn /\ ~fresh
KeysDown == {k \in Key : down[k] = 1}
KeysFollow ==
  <>[]Silent => <>[](KeysDown = {k \in Key : Now[k[1]] = k[2]})

\* A program that has handled the current packet number has handled the
\* current state, as test/xinput-test/xinput-test.c:88 relies on, although
\* copy_state() reads the number after the state and without a lock: unless the
\* reader counted an event while the copy was made.
Content(v) == [g \in Group |-> hist[v[PartOf[g]]][g]]
MissedOnlyWhenOvertaken ==
  cpc = "out" /\ Silent /\ serial = packet /\ ~overtaken
    => Content(seen) = Content(shm)

==============================================================================
