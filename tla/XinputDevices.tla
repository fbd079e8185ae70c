---------------------------- MODULE XinputDevices ----------------------------
(***************************************************************************)
(* The gamepads of a running service: the evdev driver's slots             *)
(* (src/src/linux_evdev/xinput_linux_evdev.c) and the threads that use     *)
(* them (src/src/xinput_service.c): the service thread, which probes and   *)
(* in the end destroys the service, one reader per gamepad, the rumble     *)
(* thread.  No lock protects a slot.                                       *)
(*                                                                         *)
(* The contents of a gamepad's state are left out: what matters here is    *)
(* who may touch a slot and when.  A NULL or freed pointer that is         *)
(* followed ends the process (mpc = "dead").                                *)
(***************************************************************************)
EXTENDS Naturals, FiniteSets

CONSTANTS
  MaxCount,    \* XUSER_MAX_COUNT
  Dev,         \* entries of /dev/input/by-path, each with its inode
  Unknown,     \* those that are no candidate or cannot be translated
  Reader,      \* identities of reader threads
  None,
  IdleStops,   \* the service stops when idle, and may be started again
  Overlap,     \* a slot may be closed while it is probed, rumbles or the
               \* service is destroyed
  MaxPlug,     \* bound on plugs and unplugs
  MaxFault     \* bound on failures of open() and pthread_create()

Slot == 0 .. MaxCount - 1

ASSUME DevicesAssumption ==
  /\ MaxCount \in Nat \ {0} /\ MaxPlug \in Nat /\ MaxFault \in Nat
  /\ Unknown \subseteq Dev
  /\ None \notin Dev \cup Reader \cup Slot
  /\ IdleStops \in BOOLEAN /\ Overlap \in BOOLEAN

VARIABLES
  plugged,     \* the devices present
  grabbed,     \* those a descriptor of the service has grabbed
  vtbl,        \* per slot: device.vtbl and device.data are set
  fd,          \* per slot: the device its descriptor still reads
  inode,       \* per slot: the inode of its device, None for -1
  args,        \* per slot: xinput_service_thread_parameter[].device is set
  tid,         \* per slot: the running thread xinput_service_thread_parameter[].tid
  connected,   \* per slot: state[].connected in the shared memory
  mapped,      \* service_shared is mapped
  mpc,         \* where the service thread is
  seen,        \* entries readdir() has returned in this probe
  mask,        \* slots filled by this probe that have no reader yet
  rpc,         \* per reader: where it is
  rslot,       \* per reader: its slot
  rumbling,    \* the slot whose device the rumble thread has got
  plugs, faults

slots  == <<vtbl, fd, inode>>
params == <<args, tid>>
main   == <<mpc, seen, mask>>
reader == <<rpc, rslot>>
kernel == <<plugged, grabbed>>
bounds == <<plugs, faults>>
vars   == <<kernel, slots, params, connected, mapped, main, reader, rumbling,
            bounds>>

Closing == {"release", "clear", "inode", "args", "off"}
Reading == {"begin", "call", "read", "update"}

TypeOK ==
  /\ plugged \subseteq Dev /\ grabbed \subseteq Dev
  /\ vtbl \in [Slot -> BOOLEAN]
  /\ fd \in [Slot -> Dev \cup {None}]
  /\ inode \in [Slot -> Dev \cup {None}]
  /\ args \in [Slot -> BOOLEAN]
  /\ tid \in [Slot -> Reader \cup {None}]
  /\ connected \in [Slot -> BOOLEAN]
  /\ mapped \in BOOLEAN
  /\ mpc \in {"loop", "scan", "spawn", "destroy", "down", "dead"}
  /\ seen \subseteq Dev /\ mask \subseteq Slot
  /\ rpc \in [Reader -> {"none"} \cup Reading \cup Closing]
  /\ rslot \in [Reader -> Slot \cup {None}]
  /\ rumbling \in Slot \cup {None}
  /\ plugs \in 0..MaxPlug /\ faults \in 0..MaxFault

Everywhere(x) == [s \in Slot |-> x]

Init ==
  /\ plugged \in SUBSET Dev
  /\ grabbed = {}
  /\ vtbl = Everywhere(FALSE)
  /\ fd = Everywhere(None)
  /\ inode = Everywhere(None)
  /\ args = Everywhere(FALSE)
  /\ tid = Everywhere(None)
  /\ connected = Everywhere(FALSE)
  /\ mapped = TRUE
  /\ mpc = "loop" /\ seen = {} /\ mask = {}
  /\ rpc = [r \in Reader |-> "none"]
  /\ rslot = [r \in Reader |-> None]
  /\ rumbling = None
  /\ plugs = 0 /\ faults = 0

------------------------------------------------------------------------------
SetAt(f, s, x) == [f EXCEPT ![s] = x]
First(S) == CHOOSE s \in S : \A t \in S : s <= t
RGoto(r, c) == rpc' = [rpc EXCEPT ![r] = c]

ReaderCloses == \E r \in Reader : rpc[r] \in Closing
ReaderLost == \E r \in Reader : rpc[r] = "read" /\ fd[rslot[r]] = None
ReaderBusy == \E r \in Reader : rpc[r] \notin {"none", "read"}

\* the process ends on a NULL pointer, freed data or unmapped memory
WildPointer ==
  /\ mpc' = "dead"
  /\ seen' = {} /\ mask' = {}
  /\ grabbed' = {}
  /\ vtbl' = Everywhere(FALSE)
  /\ fd' = Everywhere(None)
  /\ inode' = Everywhere(None)
  /\ args' = Everywhere(FALSE)
  /\ tid' = Everywhere(None)
  /\ mapped' = FALSE
  /\ rpc' = [r \in Reader |-> "none"]
  /\ rslot' = [r \in Reader |-> None]
  /\ rumbling' = None
  /\ UNCHANGED <<plugged, connected, bounds>>

------------------------------------------------------------------------------
(* The kernel *)

Plug(d) ==
  /\ d \notin plugged
  /\ plugs < MaxPlug
  /\ plugs' = plugs + 1
  /\ plugged' = plugged \cup {d}
  /\ UNCHANGED <<grabbed, slots, params, connected, mapped, main, reader,
                 rumbling, faults>>

Unplug(d) ==
  /\ d \in plugged
  /\ plugs < MaxPlug
  /\ plugs' = plugs + 1
  /\ plugged' = plugged \ {d}
  /\ grabbed' = grabbed \ {d}
  /\ fd' = [s \in Slot |-> IF fd[s] = d THEN None ELSE fd[s]]
  /\ UNCHANGED <<vtbl, inode, params, connected, mapped, main, reader,
                 rumbling, faults>>

------------------------------------------------------------------------------
(* xinput_linux_evdev_probe() *)

FreeSlots == {s \in Slot : ~vtbl[s]}

InUse(d) == \E s \in Slot : inode[s] = d

Probe ==
  /\ mpc = "loop"
  /\ Overlap \/ ~ReaderCloses
  /\ mpc' = "scan"
  /\ seen' = {} /\ mask' = {}
  /\ UNCHANGED <<kernel, slots, params, connected, mapped, reader, rumbling,
                 bounds>>

\* readdir() returns an entry while a slot is free
Entry(d) ==
  /\ mpc = "scan"
  /\ FreeSlots # {}
  /\ d \in plugged \ seen
  /\ seen' = seen \cup {d}

ScanInUse(d) ==
  /\ Entry(d)
  /\ InUse(d)
  /\ UNCHANGED <<kernel, slots, params, connected, mapped, mpc, mask, reader,
                 rumbling, bounds>>

ScanOpenFails(d) ==
  /\ Entry(d)
  /\ ~InUse(d)
  /\ faults < MaxFault
  /\ faults' = faults + 1
  /\ UNCHANGED <<kernel, slots, params, connected, mapped, mpc, mask, reader,
                 rumbling, plugs>>

\* EVIOCGRAB fails on a device another descriptor has grabbed; this one is
\* never closed
ScanGrabFails(d) ==
  /\ Entry(d)
  /\ ~InUse(d)
  /\ d \in grabbed
  /\ UNCHANGED <<kernel, slots, params, connected, mapped, mpc, mask, reader,
                 rumbling, bounds>>

\* joystick_inodes[] is local to the probe: what it discards now, it opens
\* again in the next one
ScanRejects(d) ==
  /\ Entry(d)
  /\ ~InUse(d)
  /\ d \in Unknown
  /\ UNCHANGED <<kernel, slots, params, connected, mapped, mpc, mask, reader,
                 rumbling, bounds>>

\* mutant: the device is not grabbed exclusively
ScanInstallsShared(d) ==
  LET s == First(FreeSlots) IN
  /\ Entry(d)
  /\ ~InUse(d)
  /\ d \notin Unknown
  /\ vtbl' = SetAt(vtbl, s, TRUE)
  /\ fd' = SetAt(fd, s, d)
  /\ inode' = SetAt(inode, s, d)
  /\ grabbed' = grabbed \cup {d}
  /\ mask' = mask \cup {s}
  /\ UNCHANGED <<plugged, params, connected, mapped, mpc, reader,
                 rumbling, bounds>>

\* new_instance() and the inode
ScanInstalls(d) ==
  LET s == First(FreeSlots) IN
  /\ Entry(d)
  /\ ~InUse(d)
  /\ d \notin Unknown \cup grabbed
  /\ vtbl' = SetAt(vtbl, s, TRUE)
  /\ fd' = SetAt(fd, s, d)
  /\ inode' = SetAt(inode, s, d)
  /\ grabbed' = grabbed \cup {d}
  /\ mask' = mask \cup {s}
  /\ UNCHANGED <<plugged, params, connected, mapped, mpc, reader,
                 rumbling, bounds>>

ScanEnds ==
  /\ mpc = "scan"
  /\ FreeSlots = {} \/ plugged \subseteq seen
  /\ mpc' = IF mask = {} THEN "loop" ELSE "spawn"
  /\ seen' = {}
  /\ UNCHANGED <<kernel, slots, params, connected, mapped, mask, reader,
                 rumbling, bounds>>

------------------------------------------------------------------------------
(* xinput_service_gamepad_probe() *)

\* mutant: the descriptor is not closed
UngrabForgotten(s) == grabbed' = grabbed

\* what closing the device of slot s does to the descriptors
Ungrab(s) == grabbed' = grabbed \ {fd[s]}

\* mutant: the parameter does not get the device
SpawnedEmpty(s) ==
  /\ mpc = "spawn"
  /\ s = First(mask)
  /\ mask' = mask \ {s}
  /\ mpc' = IF mask' = {} THEN "loop" ELSE "spawn"
  /\ UNCHANGED args

Spawned(s) ==
  /\ mpc = "spawn"
  /\ s = First(mask)
  /\ mask' = mask \ {s}
  /\ mpc' = IF mask' = {} THEN "loop" ELSE "spawn"
  /\ args' = SetAt(args, s, vtbl[s])

Spawn(s, r) ==
  /\ Spawned(s)
  /\ rpc[r] = "none"
  /\ RGoto(r, "begin")
  /\ rslot' = [rslot EXCEPT ![r] = s]
  /\ tid' = SetAt(tid, s, r)
  /\ UNCHANGED <<kernel, slots, connected, mapped, seen, rumbling, bounds>>

\* mutant: the device stays open
SpawnFailsOpen(s) ==
  /\ Spawned(s)
  /\ Overlap \/ rumbling = None
  /\ faults < MaxFault
  /\ faults' = faults + 1
  /\ UNCHANGED <<kernel, slots, tid, connected, mapped, seen, reader, rumbling,
                 plugs>>

\* xinput_driver_device_close(), the parameter keeps its device
SpawnFails(s) ==
  /\ Spawned(s)
  /\ Overlap \/ rumbling = None
  /\ faults < MaxFault
  /\ faults' = faults + 1
  /\ vtbl' = SetAt(vtbl, s, FALSE)
  /\ IF vtbl[s] THEN fd' = SetAt(fd, s, None) /\ Ungrab(s)
                ELSE UNCHANGED <<fd, grabbed>>
  /\ inode' = SetAt(inode, s, None)
  /\ UNCHANGED <<plugged, tid, connected, mapped, seen, reader,
                 rumbling, plugs>>

------------------------------------------------------------------------------
(* xinput_service_gamepad_reader_thread() *)

ReaderBegins(r) ==
  /\ rpc[r] = "begin"
  /\ mapped
  /\ connected' = SetAt(connected, rslot[r], TRUE)
  /\ RGoto(r, "call")
  /\ UNCHANGED <<kernel, slots, params, mapped, main, rslot, rumbling, bounds>>

ReadCalls(r) ==
  /\ rpc[r] = "call"
  /\ args[rslot[r]] /\ vtbl[rslot[r]]
  /\ RGoto(r, "read")
  /\ UNCHANGED <<kernel, slots, params, connected, mapped, main, rslot,
                 rumbling, bounds>>

\* an event has come
Reads(r) ==
  /\ rpc[r] = "read"
  /\ fd[rslot[r]] # None
  /\ Overlap \/ mpc # "destroy"
  /\ RGoto(r, "update")
  /\ UNCHANGED <<kernel, slots, params, connected, mapped, main, rslot,
                 rumbling, bounds>>

Updates(r) ==
  /\ rpc[r] = "update"
  /\ mapped /\ args[rslot[r]] /\ vtbl[rslot[r]]
  /\ RGoto(r, "call")
  /\ UNCHANGED <<kernel, slots, params, connected, mapped, main, rslot,
                 rumbling, bounds>>

\* ENODEV
ReadFails(r) ==
  /\ rpc[r] = "read"
  /\ fd[rslot[r]] = None
  /\ Overlap \/ (mpc = "loop" /\ rumbling = None)
  /\ RGoto(r, "release")
  /\ UNCHANGED <<kernel, slots, params, connected, mapped, main, rslot,
                 rumbling, bounds>>

\* xinput_linux_evdev_device_close(): vtbl->release() frees the data and
\* clears the slot ...
Releases(r) ==
  LET s == rslot[r] IN
  /\ rpc[r] = "release"
  /\ vtbl' = SetAt(vtbl, s, FALSE)
  /\ IF vtbl[s] THEN fd' = SetAt(fd, s, None) /\ Ungrab(s)
                ELSE UNCHANGED <<fd, grabbed>>
  /\ RGoto(r, IF vtbl[s] THEN "clear" ELSE "inode")
  /\ UNCHANGED <<plugged, inode, params, connected, mapped, main,
                 rslot, rumbling, bounds>>

\* ... which is then cleared once more
Clears(r) ==
  /\ rpc[r] = "clear"
  /\ vtbl' = SetAt(vtbl, rslot[r], FALSE)
  /\ RGoto(r, "inode")
  /\ UNCHANGED <<kernel, fd, inode, params, connected, mapped, main, rslot,
                 rumbling, bounds>>

\* mutant: the slot keeps the inode
KeepsInode(r) ==
  /\ rpc[r] = "inode"
  /\ RGoto(r, "args")
  /\ UNCHANGED <<kernel, slots, params, connected, mapped, main, rslot,
                 rumbling, bounds>>

ForgetsInode(r) ==
  /\ rpc[r] = "inode"
  /\ inode' = SetAt(inode, rslot[r], None)
  /\ RGoto(r, "args")
  /\ UNCHANGED <<kernel, vtbl, fd, params, connected, mapped, main, rslot,
                 rumbling, bounds>>

ForgetsDevice(r) ==
  /\ rpc[r] = "args"
  /\ args' = SetAt(args, rslot[r], FALSE)
  /\ RGoto(r, "off")
  /\ UNCHANGED <<kernel, slots, tid, connected, mapped, main, rslot, rumbling,
                 bounds>>

\* mutant: the gamepad still counts as connected
ReaderEndsConnected(r) ==
  LET s == rslot[r] IN
  /\ rpc[r] = "off"
  /\ mapped
  /\ RGoto(r, "none")
  /\ rslot' = [rslot EXCEPT ![r] = None]
  /\ tid' = IF tid[s] = r THEN SetAt(tid, s, None) ELSE tid
  /\ UNCHANGED <<kernel, slots, args, connected, mapped, main, rumbling,
                 bounds>>

\* the id of a thread that has ended cancels nothing
ReaderEnds(r) ==
  LET s == rslot[r] IN
  /\ rpc[r] = "off"
  /\ mapped
  /\ connected' = SetAt(connected, s, FALSE)
  /\ RGoto(r, "none")
  /\ rslot' = [rslot EXCEPT ![r] = None]
  /\ tid' = IF tid[s] = r THEN SetAt(tid, s, None) ELSE tid
  /\ UNCHANGED <<kernel, slots, args, mapped, main, rumbling, bounds>>

ReaderCrashes(r) ==
  /\ \/ rpc[r] \in {"begin", "update", "off"} /\ ~mapped
     \/ rpc[r] \in {"call", "update"} /\ ~(args[rslot[r]] /\ vtbl[rslot[r]])
  /\ WildPointer

------------------------------------------------------------------------------
(* xinput_service_rumble_thread() *)

\* mutant: xinput_linux_evdev_get_device() does not check the index
RumbleGetsAny(i) ==
  /\ mpc # "down"
  /\ rumbling = None
  /\ i \in Slot => vtbl[i]
  /\ Overlap \/ ~(ReaderCloses \/ ReaderLost \/ mpc = "destroy")
  /\ rumbling' = i
  /\ UNCHANGED <<kernel, slots, params, connected, mapped, main, reader,
                 bounds>>

\* the index comes with the message
RumbleGets(i) ==
  /\ mpc # "down"
  /\ rumbling = None
  /\ i \in Slot /\ vtbl[i]
  /\ Overlap \/ ~(ReaderCloses \/ ReaderLost \/ mpc = "destroy")
  /\ rumbling' = i
  /\ UNCHANGED <<kernel, slots, params, connected, mapped, main, reader,
                 bounds>>

\* EVIOCSFF is given the effect_id of a slot, which the probe left 0: as no such
\* effect was ever made, it fails, and nothing is loaded
Rumbles ==
  /\ rumbling # None
  /\ vtbl[rumbling]
  /\ rumbling' = None
  /\ UNCHANGED <<kernel, slots, params, connected, mapped, main, reader,
                 bounds>>

RumbleCrashes ==
  /\ rumbling # None
  /\ ~vtbl[rumbling]
  /\ WildPointer

------------------------------------------------------------------------------
(* xinput_service_destroy() and the next xinput_service_create() *)

IdleStop ==
  /\ IdleStops
  /\ mpc = "loop"
  /\ Overlap \/ ~(ReaderBusy \/ rumbling # None)
  /\ mpc' = "destroy"
  /\ mask' = Slot
  /\ UNCHANGED <<kernel, slots, params, connected, mapped, seen, reader,
                 rumbling, bounds>>

\* mutant: the reader is not cancelled
CancelledNever(r) == FALSE

\* pthread_cancel() ends a reader that waits in read(); any other runs on to
\* its next read()
Cancelled(r) == r # None /\ rpc[r] = "read"

\* the device is closed whatever its reader does
DestroySlot(s) ==
  LET r == tid[s]
      ends == Cancelled(r) IN
  /\ mpc = "destroy"
  /\ mask # {} /\ s = First(mask)
  /\ mask' = mask \ {s}
  /\ tid' = SetAt(tid, s, None)
  /\ rpc' = [q \in Reader |-> IF ends /\ q = r THEN "none" ELSE rpc[q]]
  /\ rslot' = [q \in Reader |-> IF ends /\ q = r THEN None ELSE rslot[q]]
  /\ args' = SetAt(args, s, FALSE)
  /\ IF args[s]
     THEN /\ vtbl' = SetAt(vtbl, s, FALSE)
          /\ inode' = SetAt(inode, s, None)
          /\ IF vtbl[s] THEN fd' = SetAt(fd, s, None) /\ Ungrab(s)
                        ELSE UNCHANGED <<fd, grabbed>>
     ELSE UNCHANGED <<slots, grabbed>>
  /\ UNCHANGED <<plugged, connected, mapped, mpc, seen, rumbling,
                 bounds>>

Unmap ==
  /\ mpc = "destroy"
  /\ mask = {}
  /\ mapped' = FALSE
  /\ mpc' = "down"
  /\ UNCHANGED <<kernel, slots, params, connected, seen, mask, reader,
                 rumbling, bounds>>

\* new shared memory and parameters, and xinput_linux_evdev_initialize()
\* closes every slot
Restart ==
  /\ mpc = "down"
  /\ mapped' = TRUE
  /\ connected' = Everywhere(FALSE)
  /\ args' = Everywhere(FALSE)
  /\ tid' = Everywhere(None)
  /\ vtbl' = Everywhere(FALSE)
  /\ fd' = [s \in Slot |-> IF vtbl[s] THEN None ELSE fd[s]]
  /\ grabbed' = grabbed \ {fd[s] : s \in {t \in Slot : vtbl[t]}}
  /\ inode' = Everywhere(None)
  /\ mpc' = "loop"
  /\ UNCHANGED <<plugged, seen, mask, reader, rumbling, bounds>>

------------------------------------------------------------------------------
Service ==
  \/ Probe \/ ScanEnds \/ Unmap \/ Restart
  \/ \E d \in Dev : ScanInUse(d) \/ ScanGrabFails(d) \/ ScanRejects(d)
                      \/ ScanInstalls(d)
  \/ \E s \in Slot : DestroySlot(s) \/ \E r \in Reader : Spawn(s, r)

ReaderStep(r) ==
  \/ ReaderBegins(r) \/ ReadCalls(r) \/ Updates(r) \/ Releases(r) \/ Clears(r)
  \/ ForgetsInode(r) \/ ForgetsDevice(r) \/ ReaderEnds(r) \/ ReaderCrashes(r)

Next ==
  \/ Service \/ IdleStop
  \/ \E d \in Dev : Plug(d) \/ Unplug(d) \/ ScanOpenFails(d)
  \/ \E s \in Slot : SpawnFails(s)
  \/ \E i \in 0 .. MaxCount : RumbleGets(i)
  \/ \E r \in Reader : ReaderStep(r) \/ Reads(r) \/ ReadFails(r)
  \/ Rumbles \/ RumbleCrashes

Spec == Init /\ [][Next]_vars

\* Threads are scheduled.  A read() that fails does so between two probes
\* again and again, as probes are XINPUT_DEVICE_PROBE_PERIOD_S apart.
Fairness ==
  /\ WF_vars(Service)
  /\ WF_vars(Rumbles \/ RumbleCrashes)
  /\ \A r \in Reader : /\ WF_vars(ReaderStep(r))
                       /\ SF_vars(ReadFails(r))

FairSpec == Spec /\ Fairness

------------------------------------------------------------------------------
(* What the service promises *)

\* No two slots read the same gamepad, whatever the interleaving: the inodes
\* and EVIOCGRAB (xinput_linux_evdev_probe()) exclude it together.
DistinctGamepads ==
  \A s, t \in Slot : s # t /\ fd[s] # None => fd[s] # fd[t]

\* No thread follows a pointer another one has cleared or freed, as long as no
\* slot is closed while it is in use.
NoWildPointer == mpc # "dead"

\* A gamepad that a client sees connected has a reader that feeds its state and
\* will clear the flag when the gamepad is gone.
ConnectedHasReader ==
  \A s \in Slot : mapped /\ connected[s] /\ mpc # "destroy" =>
    \E r \in Reader : rslot[r] = s /\ rpc[r] \notin {"none", "begin"}

\* Between two probes, a slot is occupied exactly when one reader runs for it.
SlotHasReader ==
  mpc = "loop" => \A s \in Slot :
    vtbl[s] <=> \E r \in Reader : rslot[r] = s /\ rpc[r] \in Reading \cup {"release"}

\* Every gamepad that is grabbed can still be released: a slot knows its
\* descriptor.  None is left when the service is down.
GrabbedIsKnown == grabbed = {fd[s] : s \in {t \in Slot : vtbl[t]}} \ {None}
DownReleasesAll ==
  mpc = "down" => grabbed = {} /\ \A r \in Reader : rpc[r] = "none"

\* A gamepad that stays plugged while the service runs is served in the end,
\* unless its driver does not know it or all slots are taken.
Served(d) == \E s \in Slot : fd[s] = d /\ connected[s]
NoRoom(d) == \A s \in Slot : fd[s] \notin {None, d} /\ connected[s]
PluggedIsServed ==
  \A d \in Dev \ Unknown :
    <>[](d \in plugged /\ mpc \notin {"destroy", "down"}) => <>[](Served(d) \/ NoRoom(d))

==============================================================================
