------------------------ MODULE XinputDevicesProofs ------------------------
(***************************************************************************)
(* The slots of the service, for any number of slots, gamepads and readers *)
(* and for every interleaving.                                             *)
(*                                                                         *)
(* No two slots read the same gamepad, overlapping or not: a descriptor    *)
(* that reads a gamepad holds its grab, and the probe only takes gamepads  *)
(* that nobody has grabbed.                                                *)
(*                                                                         *)
(* When no slot is closed while it is in use (~Overlap), slots, readers    *)
(* and flags agree: a slot knows its one reader, which works as long as    *)
(* the slot is occupied (OwnerInv, SlotInv), and while the service thread  *)
(* probes or destroys no reader closes (PhaseInv).                         *)
(***************************************************************************)
EXTENDS XinputDevices, TLAPS, WellFoundedInduction

\* The part of TypeOK the argument needs: a reader at work has a slot.
ReaderInv ==
  /\ fd \in [Slot -> Dev \cup {None}]
  /\ rslot \in [Reader -> Slot \cup {None}]
  /\ DOMAIN rpc = Reader
  /\ \A r \in Reader : rpc[r] # "none" => rslot[r] \in Slot

\* A descriptor that still reads a gamepad holds its grab.
GrabInv == \A s \in Slot : fd[s] # None => fd[s] \in grabbed

DeviceInv == ReaderInv /\ GrabInv /\ DistinctGamepads

------------------------------------------------------------------------------
\* Closing a slot's descriptor keeps the descriptors apart and the others'
\* grabs in place.
LEMMA CloseKeeps ==
  ASSUME DeviceInv, NEW S \in SUBSET Slot,
         fd' = [s \in Slot |-> IF s \in S THEN None ELSE fd[s]],
         grabbed' = grabbed \ {fd[s] : s \in S}
  PROVE  GrabInv' /\ DistinctGamepads' /\ fd' \in [Slot -> Dev \cup {None}]
<1>1. \A s \in Slot : fd'[s] # None => s \notin S /\ fd'[s] = fd[s]
  OBVIOUS
<1>2. fd' \in [Slot -> Dev \cup {None}]
  BY DEF DeviceInv, ReaderInv
<1>3. DistinctGamepads'
  BY <1>1 DEF DeviceInv, DistinctGamepads
<1>4. ASSUME NEW s \in Slot, fd'[s] # None  PROVE fd'[s] \in grabbed'
  <2>1. s \notin S /\ fd'[s] = fd[s] /\ fd[s] # None
    BY <1>1, <1>4
  <2>2. fd[s] \in grabbed
    BY <2>1 DEF DeviceInv, GrabInv
  <2>3. \A t \in S : fd[t] # fd[s]
    BY <2>1 DEF DeviceInv, DistinctGamepads
  <2> QED
    BY <2>1, <2>2, <2>3
<1> QED
  BY <1>2, <1>3, <1>4 DEF GrabInv

\* The same for one slot, as vtbl->release() does it.
LEMMA ReleaseKeeps ==
  ASSUME DeviceInv, NEW s \in Slot, fd' = SetAt(fd, s, None), Ungrab(s)
  PROVE  GrabInv' /\ DistinctGamepads' /\ fd' \in [Slot -> Dev \cup {None}]
<1>1. fd' = [t \in Slot |-> IF t \in {s} THEN None ELSE fd[t]]
  BY DEF SetAt, DeviceInv, ReaderInv
<1>2. grabbed' = grabbed \ {fd[t] : t \in {s}}
  BY DEF Ungrab
<1> QED
  BY <1>1, <1>2, CloseKeeps

\* A step that leaves the descriptors and the grabs alone disturbs nothing.
LEMMA UntouchedKeeps ==
  ASSUME DeviceInv, UNCHANGED <<fd, grabbed>>
  PROVE  GrabInv' /\ DistinctGamepads' /\ fd' \in [Slot -> Dev \cup {None}]
BY DEF DeviceInv, ReaderInv, GrabInv, DistinctGamepads

\* A reader that moves on keeps its slot.
LEMMA ReaderMoves ==
  ASSUME DeviceInv, NEW r \in Reader, NEW c, rpc[r] # "none",
         RGoto(r, c), UNCHANGED rslot
  PROVE  /\ rslot' \in [Reader -> Slot \cup {None}]
         /\ DOMAIN rpc' = Reader
         /\ \A q \in Reader : rpc'[q] # "none" => rslot'[q] \in Slot
BY DEF DeviceInv, ReaderInv, RGoto

------------------------------------------------------------------------------
LEMMA DeviceInit == Init => DeviceInv
BY DEF Init, Everywhere, DeviceInv, ReaderInv, GrabInv, DistinctGamepads

LEMMA DeviceStep == DeviceInv /\ [Next]_vars => DeviceInv'
<1> SUFFICES ASSUME DeviceInv, [Next]_vars  PROVE DeviceInv'
  OBVIOUS
<1> USE DEF DeviceInv
<1>1. CASE UNCHANGED vars
  BY <1>1, UntouchedKeeps DEF vars, kernel, slots, reader, ReaderInv
<1>2. CASE WildPointer
  BY <1>2 DEF WildPointer, Everywhere, ReaderInv, GrabInv, DistinctGamepads
<1>3. CASE Probe \/ ScanEnds \/ Unmap \/ IdleStop \/ Rumbles
           \/ \E d \in Dev : \/ Plug(d) \/ ScanInUse(d) \/ ScanGrabFails(d)
                             \/ ScanRejects(d) \/ ScanOpenFails(d)
  <2>1. UNCHANGED <<fd, grabbed, rpc, rslot>>
    BY <1>3 DEF Probe, ScanEnds, Unmap, IdleStop, Rumbles, Plug, ScanInUse,
         ScanGrabFails, ScanRejects, ScanOpenFails, kernel, slots, reader
  <2> QED
    BY <2>1, UntouchedKeeps DEF ReaderInv
<1>4. ASSUME NEW d \in Dev, Unplug(d)  PROVE DeviceInv'
  <2>1. UNCHANGED reader /\ fd' \in [Slot -> Dev \cup {None}]
    BY <1>4 DEF Unplug, ReaderInv
  <2>2. \A s \in Slot : fd'[s] # None => fd'[s] = fd[s] /\ fd[s] # d
    BY <1>4 DEF Unplug
  <2>3. grabbed' = grabbed \ {d}
    BY <1>4 DEF Unplug
  <2> QED
    BY <2>1, <2>2, <2>3 DEF reader, ReaderInv, GrabInv, DistinctGamepads
<1>5. ASSUME NEW d \in Dev, ScanInstalls(d)  PROVE DeviceInv'
  <2> DEFINE i == First(FreeSlots)
  <2>1. /\ fd' = [fd EXCEPT ![i] = d] /\ grabbed' = grabbed \cup {d}
        /\ d \notin grabbed /\ UNCHANGED reader
    BY <1>5 DEF ScanInstalls, SetAt
  <2> HIDE DEF i
  <2>2. \A s \in Slot : fd'[s] = fd[s] \/ (s = i /\ fd'[s] = d)
    BY <2>1 DEF ReaderInv
  <2>3. \A s \in Slot : fd[s] # d \/ fd[s] = None
    BY <2>1 DEF GrabInv
  <2>4. \A s \in Slot : fd'[s] # None => fd'[s] \in grabbed'
    BY <2>1, <2>2 DEF GrabInv
  <2>5. DistinctGamepads'
    BY <2>2, <2>3 DEF DistinctGamepads
  <2> QED
    BY <2>1, <2>4, <2>5 DEF reader, ReaderInv, GrabInv
<1>6. ASSUME NEW s \in Slot, NEW r \in Reader, Spawn(s, r)  PROVE DeviceInv'
  <2>1. /\ UNCHANGED <<fd, grabbed>>
        /\ rslot' = [rslot EXCEPT ![r] = s] /\ rpc' = [rpc EXCEPT ![r] = "begin"]
    BY <1>6 DEF Spawn, RGoto, kernel, slots
  <2> QED
    BY <2>1, UntouchedKeeps DEF ReaderInv
<1>7. ASSUME NEW s \in Slot, SpawnFails(s)  PROVE DeviceInv'
  <2>1. UNCHANGED reader
    BY <1>7 DEF SpawnFails
  <2>2. (fd' = SetAt(fd, s, None) /\ Ungrab(s)) \/ UNCHANGED <<fd, grabbed>>
    BY <1>7 DEF SpawnFails
  <2> QED
    BY <2>1, <2>2, ReleaseKeeps, UntouchedKeeps DEF reader, ReaderInv
<1>8. ASSUME NEW i \in 0 .. MaxCount, RumbleGets(i)  PROVE DeviceInv'
  BY <1>8, UntouchedKeeps DEF RumbleGets, kernel, slots, reader, ReaderInv
<1>9. ASSUME NEW r \in Reader,
             \/ ReaderBegins(r) \/ ReadCalls(r) \/ Reads(r) \/ Updates(r)
             \/ ReadFails(r) \/ Clears(r) \/ ForgetsInode(r) \/ ForgetsDevice(r)
      PROVE DeviceInv'
  <2>1. /\ UNCHANGED <<fd, grabbed, rslot>> /\ rpc[r] # "none"
        /\ \E c : RGoto(r, c)
    BY <1>9 DEF ReaderBegins, ReadCalls, Reads, Updates, ReadFails, Clears,
         ForgetsInode, ForgetsDevice, kernel, slots
  <2> QED
    BY <2>1, UntouchedKeeps, ReaderMoves DEF ReaderInv
<1>10. ASSUME NEW r \in Reader, Releases(r)  PROVE DeviceInv'
  <2>1. rpc[r] = "release" /\ rslot[r] \in Slot /\ UNCHANGED rslot
    BY <1>10 DEF Releases, ReaderInv
  <2>2. \E c : RGoto(r, c)
    BY <1>10 DEF Releases
  <2>3. \/ fd' = SetAt(fd, rslot[r], None) /\ Ungrab(rslot[r])
        \/ UNCHANGED <<fd, grabbed>>
    BY <1>10 DEF Releases
  <2> QED
    BY <2>1, <2>2, <2>3, ReleaseKeeps, UntouchedKeeps, ReaderMoves DEF ReaderInv
<1>11. ASSUME NEW r \in Reader, ReaderEnds(r)  PROVE DeviceInv'
  <2>1. /\ UNCHANGED <<fd, grabbed>>
        /\ rslot' = [rslot EXCEPT ![r] = None] /\ rpc' = [rpc EXCEPT ![r] = "none"]
    BY <1>11 DEF ReaderEnds, RGoto, kernel, slots
  <2> QED
    BY <2>1, UntouchedKeeps DEF ReaderInv
<1>12. ASSUME NEW s \in Slot, DestroySlot(s)  PROVE DeviceInv'
  <2> DEFINE Ended(q) == Cancelled(tid[s]) /\ q = tid[s]
  <2>1. /\ rpc' = [q \in Reader |-> IF Ended(q) THEN "none" ELSE rpc[q]]
        /\ rslot' = [q \in Reader |-> IF Ended(q) THEN None ELSE rslot[q]]
    BY <1>12 DEF DestroySlot
  <2>2. (fd' = SetAt(fd, s, None) /\ Ungrab(s)) \/ UNCHANGED <<fd, grabbed>>
    BY <1>12 DEF DestroySlot, slots
  <2> HIDE DEF Ended
  <2>3. /\ rslot' \in [Reader -> Slot \cup {None}]
        /\ DOMAIN rpc' = Reader
        /\ \A q \in Reader : rpc'[q] # "none" => rslot'[q] \in Slot
    BY <2>1 DEF ReaderInv
  <2> QED
    BY <2>2, <2>3, ReleaseKeeps, UntouchedKeeps DEF ReaderInv
<1>13. CASE Restart
  <2> DEFINE S == {t \in Slot : vtbl[t]}
  <2>1. /\ fd' = [s \in Slot |-> IF s \in S THEN None ELSE fd[s]]
        /\ grabbed' = grabbed \ {fd[s] : s \in S} /\ UNCHANGED reader
    BY <1>13 DEF Restart
  <2>2. S \in SUBSET Slot
    OBVIOUS
  <2> HIDE DEF S
  <2> QED
    BY <2>1, <2>2, CloseKeeps DEF reader, ReaderInv
<1> QED
  BY <1>1, <1>2, <1>3, <1>4, <1>5, <1>6, <1>7, <1>8, <1>9, <1>10, <1>11, <1>12,
     <1>13 DEF Next, Service, ReaderStep, ReaderCrashes, RumbleCrashes

\* Two slots never read the same gamepad (xinput_linux_evdev_probe()), with
\* any number of slots, gamepads and readers.
THEOREM DistinctGamepadsHolds == Spec => []DistinctGamepads
<1>1. DeviceInv => DistinctGamepads
  BY DEF DeviceInv
<1> QED
  BY DeviceInit, DeviceStep, <1>1, PTL DEF Spec

------------------------------------------------------------------------------
(* The types *)

LessThan == {ss \in Nat \X Nat : ss[1] < ss[2]}

LEMMA Minimum ==
  ASSUME NEW S \in SUBSET Nat, S # {}
  PROVE  \E m \in S : \A n \in S : m <= n
<1>1. IsWellFoundedOn(LessThan, Nat)
  BY NatLessThanWellFounded, Zenon DEF OpToRel, LessThan
<1>2. PICK m \in S : \A n \in S : <<n, m>> \notin LessThan
  BY <1>1, WFMin
<1>3. \A n \in S : ~(n < m)
  BY <1>2 DEF LessThan
<1> QED
  BY <1>3

\* The loops over the slots find the next one when there is one.
LEMMA FirstIsMember ==
  ASSUME NEW S \in SUBSET Slot, S # {}
  PROVE  First(S) \in S
<1>1. S \in SUBSET Nat
  BY DevicesAssumption DEF Slot
<1> QED
  BY <1>1, Minimum DEF First

\* A reader at work has a slot.
TypeInv == TypeOK /\ \A r \in Reader : rpc[r] # "none" => rslot[r] \in Slot

LEMMA TypeInit == Init => TypeInv
BY DevicesAssumption DEF Init, Everywhere, TypeInv, TypeOK

LEMMA TypeStep == TypeInv /\ [Next]_vars => TypeInv'
<1> SUFFICES ASSUME TypeInv, [Next]_vars  PROVE TypeInv'
  OBVIOUS
<1> USE DEF TypeInv
<1> USE DEF kernel, slots, params, main, reader, bounds
<1>1. CASE UNCHANGED vars
  BY <1>1 DEF vars, TypeOK
<1>2. CASE WildPointer
  BY <1>2 DEF WildPointer, Everywhere, TypeOK
<1>3. CASE Probe \/ ScanEnds \/ Unmap \/ IdleStop \/ Rumbles
  BY <1>3 DEF Probe, ScanEnds, Unmap, IdleStop, Rumbles, TypeOK
<1>4. ASSUME NEW d \in Dev, Plug(d) \/ Unplug(d)  PROVE TypeInv'
  BY <1>4, DevicesAssumption DEF Plug, Unplug, TypeOK
<1>5. ASSUME NEW d \in Dev,
             ScanInUse(d) \/ ScanGrabFails(d) \/ ScanRejects(d) \/ ScanOpenFails(d)
      PROVE TypeInv'
  BY <1>5, DevicesAssumption
  DEF ScanInUse, ScanGrabFails, ScanRejects, ScanOpenFails, Entry, TypeOK
<1>6. ASSUME NEW d \in Dev, ScanInstalls(d)  PROVE TypeInv'
  <2> DEFINE i == First(FreeSlots)
  <2>1. i \in Slot
    BY <1>6, FirstIsMember DEF ScanInstalls, Entry, FreeSlots
  <2>2. /\ vtbl' = [vtbl EXCEPT ![i] = TRUE] /\ fd' = [fd EXCEPT ![i] = d]
        /\ inode' = [inode EXCEPT ![i] = d] /\ grabbed' = grabbed \cup {d}
        /\ mask' = mask \cup {i} /\ seen' = seen \cup {d}
        /\ UNCHANGED <<plugged, params, connected, mapped, mpc, reader, rumbling,
                       bounds>>
    BY <1>6 DEF ScanInstalls, Entry, SetAt
  <2> HIDE DEF i
  <2> QED
    BY <2>1, <2>2 DEF TypeOK
<1>7. ASSUME NEW s \in Slot, NEW r \in Reader, Spawn(s, r)  PROVE TypeInv'
  BY <1>7 DEF Spawn, Spawned, SetAt, RGoto, Reading, TypeOK
<1>8. ASSUME NEW s \in Slot, SpawnFails(s)  PROVE TypeInv'
  BY <1>8, DevicesAssumption DEF SpawnFails, Spawned, SetAt, Ungrab, TypeOK
<1>9. ASSUME NEW r \in Reader,
             \/ ReaderBegins(r) \/ ReadCalls(r) \/ Reads(r) \/ Updates(r)
             \/ ReadFails(r)
      PROVE TypeInv'
  BY <1>9 DEF ReaderBegins, ReadCalls, Reads, Updates, ReadFails, SetAt, RGoto,
       Reading, Closing, TypeOK
<1>10. ASSUME NEW r \in Reader, Releases(r)  PROVE TypeInv'
  BY <1>10 DEF Releases, SetAt, Ungrab, RGoto, Closing, TypeOK
<1>11. ASSUME NEW r \in Reader,
              Clears(r) \/ ForgetsInode(r) \/ ForgetsDevice(r) \/ ReaderEnds(r)
       PROVE TypeInv'
  BY <1>11 DEF Clears, ForgetsInode, ForgetsDevice, ReaderEnds, SetAt, RGoto,
       Closing, TypeOK
<1>12. ASSUME NEW i \in 0 .. MaxCount, RumbleGets(i)  PROVE TypeInv'
  BY <1>12 DEF RumbleGets, TypeOK
<1>13. ASSUME NEW s \in Slot, DestroySlot(s)  PROVE TypeInv'
  BY <1>13 DEF DestroySlot, SetAt, Ungrab, TypeOK
<1>14. CASE Restart
  BY <1>14 DEF Restart, Everywhere, TypeOK
<1> QED
  BY <1>1, <1>2, <1>3, <1>4, <1>5, <1>6, <1>7, <1>8, <1>9, <1>10, <1>11, <1>12,
     <1>13, <1>14 DEF Next, Service, ReaderStep, ReaderCrashes, RumbleCrashes

\* Type correctness of the gamepads of the service, overlapping or not.
THEOREM TypeOKHolds == Spec => []TypeOK
<1>1. TypeInv => TypeOK
  BY DEF TypeInv
<1> QED
  BY TypeInit, TypeStep, <1>1, PTL DEF Spec

------------------------------------------------------------------------------
(* When no slot is closed while it is in use *)

Working == Reading \cup {"release"}

\* xinput_service_thread_parameter[].tid is the one reader of a slot.
OwnerInv ==
  \A r \in Reader, s \in Slot : tid[s] = r <=> rpc[r] # "none" /\ rslot[r] = s

\* A slot is occupied while its reader works, or has not got one yet; its
\* gamepad counts as connected from the reader's first step to its last.
SlotInv(s) ==
  /\ tid[s] # None /\ rpc[tid[s]] \in Working => vtbl[s] /\ args[s]
  /\ tid[s] # None /\ rpc[tid[s]] \notin Working => ~vtbl[s]
  /\ tid[s] = None /\ vtbl[s] => s \in mask /\ mpc \in {"scan", "spawn"}
  /\ ~vtbl[s] => fd[s] = None
  /\ mapped /\ connected[s] /\ mpc # "destroy" =>
       tid[s] # None /\ rpc[tid[s]] # "begin"

\* What the service thread has to do, and what it keeps the readers from.
PhaseInv ==
  /\ mpc # "dead" /\ (mapped <=> mpc # "down")
  /\ mpc \in {"loop", "down"} => mask = {}
  /\ mpc = "spawn" => mask # {}
  /\ mpc \in {"scan", "spawn"} => \A s \in mask : vtbl[s] /\ tid[s] = None
  /\ mpc = "destroy" => /\ \A r \in Reader : rpc[r] \in {"none", "read"}
                        /\ \A s \in Slot : tid[s] # None => s \in mask
  /\ mpc = "down" => \A s \in Slot : tid[s] = None
  /\ mpc # "loop" => ~ReaderCloses

\* The rumble thread has a device that is not being closed.
RumbleInv ==
  rumbling # None => /\ vtbl[rumbling] /\ ~ReaderCloses
                     /\ mpc \notin {"destroy", "down"}

QuietInv ==
  /\ OwnerInv /\ (\A s \in Slot : SlotInv(s)) /\ PhaseInv /\ RumbleInv
  /\ GrabbedIsKnown

LEMMA QuietInit == Init => QuietInv
BY DevicesAssumption
DEF Init, Everywhere, QuietInv, OwnerInv, SlotInv, PhaseInv, ReaderCloses, Closing,
    RumbleInv, GrabbedIsKnown

\* A reader at work is the one its slot knows.
LEMMA OwnerFacts ==
  ASSUME TypeInv, OwnerInv
  PROVE  /\ \A r \in Reader : rpc[r] # "none" => rslot[r] \in Slot /\ tid[rslot[r]] = r
         /\ \A s \in Slot : tid[s] # None =>
              tid[s] \in Reader /\ rpc[tid[s]] # "none" /\ rslot[tid[s]] = s
BY DEF TypeInv, TypeOK, OwnerInv

\* A reader that moves on is still the one of its slot.
LEMMA OwnerMoves ==
  ASSUME TypeInv, OwnerInv, NEW r \in Reader, NEW c, rpc[r] # "none", c # "none",
         RGoto(r, c), UNCHANGED <<tid, rslot>>
  PROVE  OwnerInv'
BY DEF TypeInv, TypeOK, OwnerInv, RGoto

\* Closing the descriptor of a slot leaves the grabs of the others.
LEMMA KnownStays ==
  ASSUME TypeInv, DeviceInv, GrabbedIsKnown, NEW s \in Slot,
         \A t \in Slot : ~vtbl[t] => fd[t] = None,
         vtbl' = SetAt(vtbl, s, FALSE),
         IF vtbl[s] THEN fd' = SetAt(fd, s, None) /\ Ungrab(s)
                    ELSE UNCHANGED <<fd, grabbed>>
  PROVE  GrabbedIsKnown' /\ \A t \in Slot : ~vtbl'[t] => fd'[t] = None
<1> USE DEF TypeInv, TypeOK
<1>1. /\ \A t \in Slot : vtbl'[t] <=> vtbl[t] /\ t # s
      /\ \A t \in Slot : fd'[t] = IF t = s THEN None ELSE fd[t]
  BY DEF SetAt
<1>2. \A t \in Slot : ~vtbl'[t] => fd'[t] = None
  BY <1>1
<1>3. ASSUME NEW d \in Dev  PROVE d \in grabbed' <=> \E t \in Slot : vtbl'[t] /\ fd'[t] = d
  <2>1. d \in grabbed <=> \E t \in Slot : vtbl[t] /\ fd[t] = d
    BY DevicesAssumption DEF GrabbedIsKnown
  <2>2. d \in grabbed' <=> d \in grabbed /\ ~(vtbl[s] /\ fd[s] = d)
    BY DEF Ungrab
  <2>3. \A t \in Slot : t # s /\ fd[t] = d => fd[s] # d
    BY DevicesAssumption DEF DeviceInv, DistinctGamepads
  <2> QED
    BY <1>1, <2>1, <2>2, <2>3
<1>4. grabbed' \subseteq Dev /\ None \notin Dev /\ \A t \in Slot : fd'[t] \in Dev \cup {None}
  BY <1>1, DevicesAssumption DEF Ungrab
<1> DEFINE K == {fd'[u] : u \in {t \in Slot : vtbl'[t]}} \ {None}
<1>5. ASSUME NEW d
      PROVE  d \in K <=> d \in Dev /\ \E t \in Slot : vtbl'[t] /\ fd'[t] = d
  <2>1. d \in K <=> d # None /\ \E t \in Slot : vtbl'[t] /\ d = fd'[t]
    BY Zenon
  <2> QED
    BY <1>4, <2>1
<1>6. \A d : d \in grabbed' <=> d \in K
  BY <1>3, <1>4, <1>5
<1> HIDE DEF K
<1>7. grabbed' = K
  BY <1>6
<1> QED
  BY <1>2, <1>7 DEF GrabbedIsKnown, K

\* Steps that leave the slots alone.
LEMMA KnownUntouched ==
  ASSUME GrabbedIsKnown, UNCHANGED <<vtbl, fd, grabbed>>
  PROVE  GrabbedIsKnown'
BY DEF GrabbedIsKnown

\* A step of a reader that works.
LEMMA WorkingStep ==
  ASSUME ~Overlap, TypeInv, QuietInv, NEW r \in Reader,
         ReaderBegins(r) \/ ReadCalls(r) \/ Reads(r) \/ Updates(r) \/ ReadFails(r)
  PROVE  QuietInv'
<1> USE DEF QuietInv
<1>1. /\ rpc[r] \in Reading
      /\ UNCHANGED <<grabbed, vtbl, fd, args, tid, mapped, mpc, mask, rslot, rumbling>>
      /\ rpc[r] = "begin" => rpc' = [rpc EXCEPT ![r] = "call"]
                             /\ connected' = [connected EXCEPT ![rslot[r]] = TRUE]
      /\ rpc[r] # "begin" => UNCHANGED connected
      /\ rpc[r] = "read" => mpc # "destroy"
  BY DEF ReaderBegins, ReadCalls, Reads, Updates, ReadFails, SetAt, RGoto, kernel,
       slots, params, main, Reading
<1>2. PICK c \in {"call", "read", "update", "release"} :
        /\ RGoto(r, c)
        /\ c = "release" => mpc = "loop" /\ rumbling = None
  BY DEF ReaderBegins, ReadCalls, Reads, Updates, ReadFails
<1>3. /\ rpc[r] # "none" /\ rslot[r] \in Slot /\ tid[rslot[r]] = r
      /\ r # None /\ \A s \in Slot : tid[s] = r => s = rslot[r]
  BY <1>1, OwnerFacts, DevicesAssumption DEF Reading
<1>4. OwnerInv'
  BY <1>1, <1>2, <1>3, OwnerMoves
<1>5. rpc' = [rpc EXCEPT ![r] = c] /\ c \in Working /\ rpc[r] \in Working
      /\ c # "begin" /\ rpc \in [Reader -> {"none"} \cup Reading \cup Closing]
  BY <1>1, <1>2 DEF RGoto, Working, Reading, TypeInv, TypeOK
<1>6. ASSUME NEW s \in Slot  PROVE SlotInv(s)'
  <2>1. SlotInv(s)
    OBVIOUS
  <2>2. CASE tid[s] = r
    <3>1. /\ vtbl'[s] /\ args'[s] /\ tid'[s] = r /\ r # None
          /\ rpc'[r] \in Working /\ rpc'[r] # "begin"
      BY <1>1, <1>3, <1>5, <2>1, <2>2 DEF SlotInv
    <3> QED
      BY <3>1 DEF SlotInv
  <2>3. CASE tid[s] # r
    <3>1. tid[s] # None => rpc'[tid[s]] = rpc[tid[s]]
      BY <1>5, <2>3, OwnerFacts
    <3>2. s # rslot[r] /\ connected'[s] = connected[s]
      BY <1>1, <1>3, <2>3 DEF TypeInv, TypeOK
    <3> QED
      BY <1>1, <2>1, <3>1, <3>2 DEF SlotInv
  <2> QED
    BY <2>2, <2>3
<1>7. mpc # "loop" \/ rumbling # None => (ReaderCloses' => ReaderCloses)
  BY <1>2, <1>5 DEF ReaderCloses, Closing
<1>8. PhaseInv'
  <2>1. mpc # "destroy"
    BY <1>1, <1>3 DEF PhaseInv
  <2> QED
    BY <1>1, <1>7, <2>1 DEF PhaseInv
<1>9. RumbleInv'
  BY <1>1, <1>7 DEF RumbleInv
<1> QED
  BY <1>1, <1>4, <1>6, <1>8, <1>9, KnownUntouched

\* A step of a reader that closes its slot's device.
LEMMA ClosingStep ==
  ASSUME ~Overlap, TypeInv, DeviceInv, QuietInv, NEW r \in Reader,
         \/ Releases(r) \/ Clears(r) \/ ForgetsInode(r) \/ ForgetsDevice(r)
         \/ ReaderEnds(r)
  PROVE  QuietInv'
<1> USE DEF QuietInv
<1> DEFINE s == rslot[r]
<1>1. /\ rpc[r] \in Closing
      /\ UNCHANGED <<mapped, mpc, mask, rumbling>>
      /\ rpc[r] \notin {"release", "clear"} => UNCHANGED vtbl
      /\ rpc[r] # "release" => UNCHANGED <<fd, grabbed>>
      /\ rpc[r] # "args" => UNCHANGED args
      /\ rpc[r] = "args" => args' = SetAt(args, s, FALSE)
      /\ rpc[r] # "off" => UNCHANGED <<tid, rslot, connected>>
  BY DEF Releases, Clears, ForgetsInode, ForgetsDevice, ReaderEnds, kernel, slots,
       params, main, Closing
<1>2. /\ s \in Slot /\ tid[s] = r /\ r # None
      /\ \A t \in Slot : tid[t] = r => t = s
      /\ \A t \in Slot : tid[t] # None => tid[t] \in Reader
  BY <1>1, OwnerFacts, DevicesAssumption DEF Closing
<1>3. mpc = "loop" /\ mask = {} /\ rumbling = None
  BY <1>1 DEF ReaderCloses, PhaseInv, RumbleInv
<1>4. /\ rpc[r] = "release" => vtbl[s]
      /\ rpc[r] # "release" => ~vtbl[s]
      /\ \A t \in Slot : ~vtbl[t] => fd[t] = None
  BY <1>1, <1>2 DEF SlotInv, Working, Reading, Closing
<1>5. /\ GrabbedIsKnown'
      /\ \A t \in Slot : ~vtbl'[t] => fd'[t] = None
      /\ vtbl' = [vtbl EXCEPT ![s] = FALSE]
  <2>1. CASE rpc[r] = "release"
    <3>1. /\ vtbl' = SetAt(vtbl, s, FALSE)
          /\ IF vtbl[s] THEN fd' = SetAt(fd, s, None) /\ Ungrab(s)
                        ELSE UNCHANGED <<fd, grabbed>>
      BY <2>1 DEF Releases, Clears, ForgetsInode, ForgetsDevice, ReaderEnds
    <3> HIDE DEF s
    <3> QED
      BY <1>2, <1>4, <3>1, KnownStays DEF SetAt
  <2>2. CASE rpc[r] # "release"
    <3>1. vtbl' = [vtbl EXCEPT ![s] = FALSE] /\ vtbl' = vtbl
      <4>1. vtbl' = [vtbl EXCEPT ![s] = FALSE] \/ vtbl' = vtbl
        BY <1>1, <2>2 DEF Releases, Clears, ForgetsInode, ForgetsDevice,
             ReaderEnds, SetAt
      <4>2. vtbl[s] = FALSE /\ vtbl \in [Slot -> BOOLEAN]
        BY <1>2, <1>4, <2>2 DEF TypeInv, TypeOK
      <4>3. [vtbl EXCEPT ![s] = FALSE] = vtbl
        BY <4>2
      <4> QED
        BY <4>1, <4>3
    <3>2. UNCHANGED <<vtbl, fd, grabbed>>
      BY <1>1, <2>2, <3>1
    <3> QED
      BY <1>4, <3>1, <3>2, KnownUntouched
  <2> QED
    BY <2>1, <2>2
<1>6. CASE rpc[r] # "off"
  <2>1. PICK c \in {"clear", "inode", "args", "off"} : RGoto(r, c)
    BY <1>6 DEF Releases, Clears, ForgetsInode, ForgetsDevice, ReaderEnds
  <2>2. OwnerInv'
    BY <1>1, <1>6, <2>1, OwnerMoves DEF Closing
  <2>3. rpc' = [rpc EXCEPT ![r] = c] /\ c \notin Working /\ c # "begin"
        /\ rpc \in [Reader -> {"none"} \cup Reading \cup Closing]
    BY <2>1 DEF RGoto, Working, Reading, TypeInv, TypeOK
  <2>4. ASSUME NEW t \in Slot  PROVE SlotInv(t)'
    <3>1. CASE t = s
      <4>1. ~vtbl'[t] /\ fd'[t] = None /\ tid'[t] = r /\ rpc'[r] = c
        BY <1>1, <1>2, <1>5, <1>6, <2>3, <3>1 DEF TypeInv, TypeOK
      <4> QED
        BY <4>1, <1>2, <2>3 DEF SlotInv
    <3>2. CASE t # s
      <4>1. /\ vtbl'[t] = vtbl[t] /\ args'[t] = args[t]
            /\ tid'[t] = tid[t] /\ connected'[t] = connected[t]
            /\ tid[t] # None => rpc'[tid[t]] = rpc[tid[t]]
        BY <1>1, <1>2, <1>5, <1>6, <2>3, <3>2 DEF SetAt, TypeInv, TypeOK
      <4> QED
        BY <1>1, <1>5, <4>1 DEF SlotInv
    <3> QED
      BY <3>1, <3>2
  <2> QED
    BY <1>1, <1>3, <1>5, <2>2, <2>4 DEF PhaseInv, RumbleInv
<1>7. CASE rpc[r] = "off"
  <2>1. /\ rpc' = [rpc EXCEPT ![r] = "none"] /\ rslot' = [rslot EXCEPT ![r] = None]
        /\ tid' = [tid EXCEPT ![s] = None] /\ connected' = [connected EXCEPT ![s] = FALSE]
    BY <1>2, <1>7 DEF Releases, Clears, ForgetsInode, ForgetsDevice, ReaderEnds,
         RGoto, SetAt
  <2>2. OwnerInv'
    BY <1>2, <2>1, DevicesAssumption DEF OwnerInv, TypeInv, TypeOK
  <2>3. ASSUME NEW t \in Slot  PROVE SlotInv(t)'
    <3>1. CASE t = s
      <4>1. ~vtbl'[t] /\ fd'[t] = None /\ tid'[t] = None /\ connected'[t] = FALSE
        BY <1>2, <1>5, <2>1, <3>1 DEF TypeInv, TypeOK
      <4> QED
        BY <4>1 DEF SlotInv
    <3>2. CASE t # s
      <4>1. /\ vtbl'[t] = vtbl[t] /\ args'[t] = args[t]
            /\ tid'[t] = tid[t] /\ connected'[t] = connected[t]
            /\ tid[t] # None => rpc'[tid[t]] = rpc[tid[t]]
        BY <1>1, <1>2, <1>5, <1>7, <2>1, <3>2 DEF TypeInv, TypeOK
      <4> QED
        BY <1>1, <1>5, <4>1 DEF SlotInv
    <3> QED
      BY <3>1, <3>2
  <2> QED
    BY <1>1, <1>3, <1>5, <2>2, <2>3 DEF PhaseInv, RumbleInv
<1> QED
  BY <1>6, <1>7

\* A step of the probe other than taking a device.
LEMMA ScanStep ==
  ASSUME ~Overlap, TypeInv, QuietInv,
         \/ Probe \/ ScanEnds
         \/ \E d \in Dev : \/ ScanInUse(d) \/ ScanGrabFails(d) \/ ScanRejects(d)
                           \/ ScanOpenFails(d)
  PROVE  QuietInv'
<1> USE DEF QuietInv
<1>1. UNCHANGED <<grabbed, slots, params, connected, mapped, reader, rumbling>>
  BY DEF Probe, ScanEnds, ScanInUse, ScanGrabFails, ScanRejects, ScanOpenFails, kernel
<1>2. OwnerInv' /\ GrabbedIsKnown'
  BY <1>1, KnownUntouched DEF slots, params, reader, OwnerInv
<1>3. \A s \in Slot : SlotInv(s)'
  <2>1. \/ UNCHANGED <<mpc, mask>>
        \/ mpc = "loop" /\ mpc' = "scan"
        \/ mpc = "scan" /\ mask' = mask /\ (mpc' = "spawn" \/ (mask = {} /\ mpc' = "loop"))
    <3>1. CASE Probe
      BY <3>1 DEF Probe
    <3>2. ASSUME ScanEnds
          PROVE  mpc = "scan" /\ mask' = mask
                 /\ (mpc' = "spawn" \/ (mask = {} /\ mpc' = "loop"))
      <4>1. CASE mask = {}
        BY <3>2, <4>1 DEF ScanEnds
      <4>2. CASE mask # {}
        BY <3>2, <4>2 DEF ScanEnds
      <4> QED
        BY <4>1, <4>2
    <3>3. ASSUME NEW d \in Dev, \/ ScanInUse(d) \/ ScanGrabFails(d) \/ ScanRejects(d)
                                \/ ScanOpenFails(d)
          PROVE UNCHANGED <<mpc, mask>>
      BY <3>3 DEF ScanInUse, ScanGrabFails, ScanRejects, ScanOpenFails
    <3> QED
      BY <3>1, <3>2, <3>3
  <2> QED
    BY <1>1, <2>1 DEF slots, params, reader, SlotInv, PhaseInv
<1>4. PhaseInv' /\ RumbleInv'
  BY <1>1 DEF Probe, ScanEnds, ScanInUse, ScanGrabFails, ScanRejects, ScanOpenFails,
     slots, params, reader, PhaseInv, RumbleInv, ReaderCloses
<1> QED
  BY <1>2, <1>3, <1>4

\* A device goes to a slot that nothing else uses.
LEMMA InstallStep ==
  ASSUME ~Overlap, TypeInv, QuietInv, NEW d \in Dev, ScanInstalls(d)
  PROVE  QuietInv'
<1> USE DEF QuietInv
<1> DEFINE s == First(FreeSlots)
<1>1. s \in Slot /\ ~vtbl[s]
  BY FirstIsMember DEF ScanInstalls, Entry, FreeSlots
<1>2. /\ vtbl' = [vtbl EXCEPT ![s] = TRUE] /\ fd' = [fd EXCEPT ![s] = d]
      /\ grabbed' = grabbed \cup {d} /\ mask' = mask \cup {s} /\ mpc = "scan"
      /\ UNCHANGED <<params, connected, mapped, mpc, reader, rumbling>>
  BY DEF ScanInstalls, Entry, SetAt
<1> HIDE DEF s
<1>3. tid[s] = None
  <2>1. rpc \in [Reader -> {"none"} \cup Reading \cup Closing] /\ ~ReaderCloses
    BY <1>2 DEF TypeInv, TypeOK, PhaseInv
  <2> QED
    BY <1>1, <2>1, OwnerFacts DEF ReaderCloses, Closing, SlotInv, Working
<1>4. OwnerInv' /\ ~ReaderCloses /\ ~ReaderCloses'
  BY <1>2 DEF params, reader, OwnerInv, PhaseInv, ReaderCloses
<1>5. ASSUME NEW t \in Slot  PROVE SlotInv(t)'
  <2>1. CASE t = s
    BY <1>1, <1>2, <1>3, <2>1 DEF SlotInv, params, reader, TypeInv, TypeOK
  <2>2. CASE t # s
    BY <1>1, <1>2, <2>2 DEF SlotInv, params, reader, TypeInv, TypeOK
  <2> QED
    BY <2>1, <2>2
<1>6. PhaseInv'
  BY <1>1, <1>2, <1>3, <1>4 DEF PhaseInv, params, TypeInv, TypeOK
<1>7. RumbleInv'
  BY <1>1, <1>2, <1>4 DEF RumbleInv, TypeInv, TypeOK
<1>8. GrabbedIsKnown'
  <2> DEFINE K == {fd'[u] : u \in {t \in Slot : vtbl'[t]}} \ {None}
             L == {fd[u] : u \in {t \in Slot : vtbl[t]}} \ {None}
  <2>1. d # None
    BY DevicesAssumption
  <2>2. /\ \A t \in Slot : vtbl'[t] <=> vtbl[t] \/ t = s
        /\ \A t \in Slot : t # s => fd'[t] = fd[t]
        /\ fd'[s] = d
    BY <1>1, <1>2 DEF TypeInv, TypeOK
  <2>3. ASSUME NEW x  PROVE x \in K <=> x \in L \/ x = d
    <3>1. x \in K <=> x # None /\ \E t \in Slot : vtbl'[t] /\ x = fd'[t]
      BY Zenon
    <3>2. x \in L <=> x # None /\ \E t \in Slot : vtbl[t] /\ x = fd[t]
      BY Zenon
    <3> HIDE DEF K, L
    <3> QED
      BY <1>1, <2>1, <2>2, <3>1, <3>2
  <2>4. grabbed = L
    BY DEF GrabbedIsKnown
  <2> HIDE DEF K, L
  <2>5. grabbed' = K
    BY <1>2, <2>3, <2>4
  <2> QED
    BY <2>5 DEF GrabbedIsKnown, K
<1> QED
  BY <1>4, <1>5, <1>6, <1>7, <1>8

\* A reader starts for a slot the probe has filled, or its device is closed again.
LEMMA SpawnStep ==
  ASSUME ~Overlap, TypeInv, DeviceInv, QuietInv, NEW s \in Slot,
         SpawnFails(s) \/ \E r \in Reader : Spawn(s, r)
  PROVE  QuietInv'
<1> USE DEF QuietInv
<1>1. /\ mpc = "spawn" /\ s = First(mask)
      /\ mask' = mask \ {s}
      /\ mpc' = IF mask' = {} THEN "loop" ELSE "spawn"
      /\ args' = [args EXCEPT ![s] = vtbl[s]]
      /\ UNCHANGED <<connected, mapped, rumbling>>
  BY DEF SpawnFails, Spawn, Spawned, SetAt
<1>2. s \in mask /\ vtbl[s] /\ tid[s] = None
  BY <1>1, FirstIsMember DEF PhaseInv, TypeInv, TypeOK
<1>3. ~ReaderCloses /\ mapped
  BY <1>1 DEF PhaseInv
<1>4. ASSUME NEW r \in Reader, Spawn(s, r)  PROVE QuietInv'
  <2>1. /\ rpc[r] = "none" /\ rpc' = [rpc EXCEPT ![r] = "begin"]
        /\ rslot' = [rslot EXCEPT ![r] = s] /\ tid' = [tid EXCEPT ![s] = r]
        /\ UNCHANGED <<grabbed, vtbl, fd>>
    BY <1>4 DEF Spawn, RGoto, SetAt, kernel, slots
  <2>2. r # None /\ \A t \in Slot : tid[t] # r
    BY <2>1, OwnerFacts, DevicesAssumption
  <2>3. OwnerInv'
    BY <1>2, <2>1, <2>2, DevicesAssumption DEF OwnerInv, TypeInv, TypeOK
  <2>4. ~ReaderCloses'
    BY <1>3, <2>1 DEF ReaderCloses, Closing, TypeInv, TypeOK
  <2>5. ASSUME NEW t \in Slot  PROVE SlotInv(t)'
    <3>1. CASE t = s
      <4>1. /\ vtbl'[t] /\ args'[t] /\ tid'[t] = r /\ rpc'[r] = "begin"
            /\ ~connected'[t]
        BY <1>1, <1>2, <1>3, <2>1, <2>2, <3>1 DEF SlotInv, TypeInv, TypeOK
      <4> QED
        BY <4>1, <2>2 DEF SlotInv, Working, Reading
    <3>2. CASE t # s
      <4>1. /\ args'[t] = args[t] /\ tid'[t] = tid[t]
            /\ tid[t] # None => rpc'[tid[t]] = rpc[tid[t]]
        BY <1>1, <2>1, <2>2, <3>2 DEF TypeInv, TypeOK
      <4> QED
        BY <1>1, <2>1, <3>2, <4>1 DEF SlotInv
    <3> QED
      BY <3>1, <3>2
  <2>6. PhaseInv'
    BY <1>1, <1>2, <2>1, <2>2, <2>4 DEF PhaseInv, TypeInv, TypeOK
  <2>7. RumbleInv'
    BY <1>1, <2>1, <2>4 DEF RumbleInv
  <2> QED
    BY <2>1, <2>3, <2>5, <2>6, <2>7, KnownUntouched
<1>5. CASE SpawnFails(s)
  <2>1. /\ vtbl' = SetAt(vtbl, s, FALSE)
        /\ IF vtbl[s] THEN fd' = SetAt(fd, s, None) /\ Ungrab(s)
                      ELSE UNCHANGED <<fd, grabbed>>
        /\ rumbling = None /\ UNCHANGED <<tid, reader>>
    BY <1>5 DEF SpawnFails
  <2>2. GrabbedIsKnown' /\ \A t \in Slot : ~vtbl'[t] => fd'[t] = None
    <3>1. \A t \in Slot : ~vtbl[t] => fd[t] = None
      BY DEF SlotInv
    <3> QED
      BY <2>1, <3>1, KnownStays
  <2>3. OwnerInv' /\ ~ReaderCloses'
    BY <1>3, <2>1 DEF reader, OwnerInv, ReaderCloses
  <2>4. vtbl' = [vtbl EXCEPT ![s] = FALSE]
    BY <2>1 DEF SetAt
  <2>5. ASSUME NEW t \in Slot  PROVE SlotInv(t)'
    <3>1. CASE t = s
      BY <1>1, <1>2, <1>3, <2>1, <2>2, <2>4, <3>1 DEF SlotInv, TypeInv, TypeOK
    <3>2. CASE t # s
      BY <1>1, <2>1, <2>2, <2>4, <3>2 DEF SlotInv, reader, TypeInv, TypeOK
    <3> QED
      BY <3>1, <3>2
  <2>6. PhaseInv' /\ RumbleInv'
    BY <1>1, <1>2, <2>1, <2>3, <2>4 DEF PhaseInv, RumbleInv, TypeInv, TypeOK
  <2> QED
    BY <2>2, <2>3, <2>5, <2>6
<1> QED
  BY <1>4, <1>5

\* The service is destroyed slot by slot, and made anew.
LEMMA DestroyStep ==
  ASSUME ~Overlap, TypeInv, DeviceInv, QuietInv, NEW s \in Slot, DestroySlot(s)
  PROVE  QuietInv'
<1> USE DEF QuietInv
<1>1. /\ mpc = "destroy" /\ s = First(mask) /\ mask # {}
      /\ mask' = mask \ {s} /\ tid' = [tid EXCEPT ![s] = None]
      /\ UNCHANGED <<mpc, mapped, rumbling>>
  BY DEF DestroySlot, SetAt
<1>2. /\ \A r \in Reader : rpc[r] \in {"none", "read"}
      /\ \A t \in Slot : ~vtbl[t] => fd[t] = None
      /\ rumbling = None
  BY <1>1 DEF PhaseInv, SlotInv, RumbleInv
<1>3. ASSUME NEW r \in Reader
      PROVE  rpc'[r] = IF r = tid[s] THEN "none" ELSE rpc[r]
  <2>1. rpc'[r] = IF Cancelled(tid[s]) /\ r = tid[s] THEN "none" ELSE rpc[r]
    BY DEF DestroySlot
  <2>2. r = tid[s] => Cancelled(tid[s])
    BY <1>2, OwnerFacts, DevicesAssumption DEF Cancelled
  <2> QED
    BY <2>1, <2>2
<1>4. ASSUME NEW r \in Reader
      PROVE  rslot'[r] = IF r = tid[s] THEN None ELSE rslot[r]
  <2>1. rslot'[r] = IF Cancelled(tid[s]) /\ r = tid[s] THEN None ELSE rslot[r]
    BY DEF DestroySlot
  <2>2. r = tid[s] => Cancelled(tid[s])
    BY <1>2, OwnerFacts, DevicesAssumption DEF Cancelled
  <2> QED
    BY <2>1, <2>2
<1>5. OwnerInv'
  BY <1>1, <1>3, <1>4, OwnerFacts, DevicesAssumption DEF OwnerInv, TypeInv, TypeOK
<1>6. /\ vtbl' = SetAt(vtbl, s, FALSE)
      /\ IF vtbl[s] THEN fd' = SetAt(fd, s, None) /\ Ungrab(s)
                    ELSE UNCHANGED <<fd, grabbed>>
  <2>1. CASE args[s]
    BY <2>1 DEF DestroySlot
  <2>2. CASE ~args[s]
    <3>1. UNCHANGED <<vtbl, fd, grabbed>>
      BY <2>2 DEF DestroySlot, slots
    <3>2. ~vtbl[s]
      <4>1. tid[s] # None => rpc[tid[s]] \in Working
        BY <1>2, OwnerFacts DEF Working, Reading
      <4> QED
        BY <1>1, <2>2, <4>1 DEF SlotInv
    <3>3. vtbl = [vtbl EXCEPT ![s] = FALSE]
      BY <3>2 DEF TypeInv, TypeOK
    <3> QED
      BY <3>1, <3>2, <3>3 DEF SetAt
  <2> QED
    BY <2>1, <2>2
<1>7. GrabbedIsKnown' /\ \A t \in Slot : ~vtbl'[t] => fd'[t] = None
  BY <1>2, <1>6, KnownStays
<1>8. \A r \in Reader : rpc'[r] \in {"none", "read"}
  BY <1>2, <1>3
<1>9. ~ReaderCloses'
  BY <1>8 DEF ReaderCloses, Closing
<1>10. ASSUME NEW t \in Slot  PROVE SlotInv(t)'
  <2>1. SlotInv(t) /\ mpc' = "destroy"
    BY <1>1
  <2>2. CASE t = s
    <3>1. ~vtbl'[t] /\ tid'[t] = None
      BY <1>1, <1>6, <2>2 DEF SetAt, TypeInv, TypeOK
    <3> QED
      BY <1>7, <2>1, <3>1 DEF SlotInv
  <2>3. CASE t # s
    <3>1. /\ vtbl'[t] = vtbl[t] /\ args'[t] = args[t] /\ tid'[t] = tid[t]
      BY <1>1, <1>6, <2>3 DEF DestroySlot, SetAt, TypeInv, TypeOK
    <3>2. tid[t] # None => rpc'[tid[t]] = rpc[tid[t]]
      <4>1. tid[t] # None => tid[t] \in Reader /\ tid[t] # tid[s]
        BY <2>3, OwnerFacts
      <4> QED
        BY <1>3, <4>1
    <3> QED
      BY <1>1, <1>7, <2>1, <3>1, <3>2 DEF SlotInv
  <2> QED
    BY <2>2, <2>3
<1>11. PhaseInv' /\ RumbleInv'
  BY <1>1, <1>2, <1>8, <1>9 DEF PhaseInv, RumbleInv, TypeInv, TypeOK
<1> QED
  BY <1>5, <1>7, <1>10, <1>11

LEMMA RestartStep ==
  ASSUME ~Overlap, TypeInv, QuietInv, IdleStop \/ Unmap \/ Restart
  PROVE  QuietInv'
<1> USE DEF QuietInv
<1>1. CASE IdleStop
  <2>1. /\ mpc = "loop" /\ mpc' = "destroy" /\ mask' = Slot /\ mask = {}
        /\ ~ReaderBusy /\ rumbling = None
        /\ UNCHANGED <<grabbed, slots, params, connected, mapped, reader, rumbling>>
    BY <1>1 DEF IdleStop, kernel, PhaseInv
  <2>2. \A r \in Reader : rpc[r] \in {"none", "read"}
    BY <2>1 DEF ReaderBusy
  <2>3. ~ReaderCloses'
    BY <2>1, <2>2 DEF reader, ReaderCloses, Closing
  <2>4. \A s \in Slot : SlotInv(s)'
    BY <2>1 DEF slots, params, reader, SlotInv
  <2> QED
    BY <2>1, <2>2, <2>3, <2>4, KnownUntouched
    DEF slots, params, reader, OwnerInv, PhaseInv, RumbleInv
<1>2. CASE Unmap
  <2>1. /\ mpc = "destroy" /\ mpc' = "down" /\ mask = {} /\ mapped' = FALSE
        /\ UNCHANGED <<grabbed, slots, params, connected, mask, reader, rumbling>>
    BY <1>2 DEF Unmap, kernel
  <2>2. \A s \in Slot : tid[s] = None
    BY <2>1 DEF PhaseInv
  <2>3. \A s \in Slot : SlotInv(s)'
    BY <2>1, <2>2 DEF slots, params, reader, SlotInv
  <2> QED
    BY <2>1, <2>2, <2>3, KnownUntouched
    DEF slots, params, reader, OwnerInv, PhaseInv, RumbleInv, ReaderCloses
<1>3. CASE Restart
  <2>1. /\ mpc = "down" /\ mpc' = "loop" /\ mapped' = TRUE /\ mask' = mask /\ mask = {}
        /\ connected' = Everywhere(FALSE) /\ tid' = Everywhere(None)
        /\ vtbl' = Everywhere(FALSE)
        /\ UNCHANGED <<reader, rumbling>>
    BY <1>3 DEF Restart, PhaseInv
  <2>2. /\ \A s \in Slot : ~vtbl[s] /\ fd[s] = None
        /\ \A r \in Reader : rpc[r] = "none"
        /\ rumbling = None
    <3>1. \A s \in Slot : tid[s] = None
      BY <2>1 DEF PhaseInv
    <3>2. ASSUME NEW s \in Slot  PROVE ~vtbl[s] /\ fd[s] = None
      BY <2>1, <3>1 DEF SlotInv
    <3>3. ASSUME NEW r \in Reader, rpc[r] # "none"  PROVE FALSE
      BY <3>1, <3>3, OwnerFacts, DevicesAssumption
    <3>4. rumbling = None
      BY <2>1 DEF RumbleInv
    <3> QED
      BY <3>2, <3>3, <3>4
  <2>3. grabbed = {}
    BY <2>2 DEF GrabbedIsKnown
  <2>4. grabbed' = {} /\ \A s \in Slot : fd'[s] = None
    BY <1>3, <2>2, <2>3 DEF Restart
  <2>5. OwnerInv' /\ ~ReaderCloses'
    BY <2>1, <2>2, DevicesAssumption
    DEF reader, OwnerInv, Everywhere, ReaderCloses, Closing
  <2>6. \A s \in Slot : SlotInv(s)'
    BY <2>1, <2>4 DEF SlotInv, Everywhere
  <2>7. GrabbedIsKnown'
    BY <2>1, <2>4 DEF GrabbedIsKnown, Everywhere
  <2> QED
    BY <2>1, <2>2, <2>5, <2>6, <2>7 DEF PhaseInv, RumbleInv
<1> QED
  BY <1>1, <1>2, <1>3

\* The kernel and the rumble thread.
LEMMA OtherStep ==
  ASSUME ~Overlap, TypeInv, QuietInv,
         \/ \E d \in Dev : Plug(d) \/ Unplug(d)
         \/ \E i \in 0 .. MaxCount : RumbleGets(i)
         \/ Rumbles \/ UNCHANGED vars
  PROVE  QuietInv'
<1> USE DEF QuietInv
<1>1. UNCHANGED <<vtbl, inode, params, connected, mapped, main, reader>>
  BY DEF Plug, Unplug, RumbleGets, Rumbles, vars, slots
<1>2. OwnerInv' /\ PhaseInv' /\ (ReaderCloses' <=> ReaderCloses)
  BY <1>1 DEF params, main, reader, OwnerInv, PhaseInv, ReaderCloses
<1>3. ASSUME UNCHANGED <<fd, grabbed>>
      PROVE  GrabbedIsKnown' /\ \A s \in Slot : SlotInv(s)'
  BY <1>1, <1>3, KnownUntouched DEF params, main, reader, SlotInv
<1>4. ASSUME NEW d \in Dev, Plug(d) \/ UNCHANGED vars  PROVE QuietInv'
  <2>1. UNCHANGED <<fd, grabbed, rumbling>>
    BY <1>4 DEF Plug, vars, slots, kernel
  <2>2. RumbleInv'
    BY <1>1, <1>2, <2>1 DEF RumbleInv, main
  <2> QED
    BY <1>2, <1>3, <2>1, <2>2
<1>5. ASSUME NEW d \in Dev, Unplug(d)  PROVE QuietInv'
  <2>1. /\ grabbed' = grabbed \ {d} /\ rumbling' = rumbling
        /\ fd' = [s \in Slot |-> IF fd[s] = d THEN None ELSE fd[s]]
    BY <1>5 DEF Unplug
  <2>2. \A s \in Slot : SlotInv(s)'
    BY <1>1, <2>1 DEF params, main, reader, SlotInv
  <2>3. RumbleInv'
    BY <1>1, <1>2, <2>1 DEF RumbleInv, main
  <2>4. GrabbedIsKnown'
    <3> DEFINE K == {fd'[u] : u \in {t \in Slot : vtbl'[t]}} \ {None}
               L == {fd[u] : u \in {t \in Slot : vtbl[t]}} \ {None}
    <3>1. ASSUME NEW x  PROVE x \in K <=> x \in L /\ x # d
      <4>1. x \in K <=> x # None /\ \E t \in Slot : vtbl'[t] /\ x = fd'[t]
        BY Zenon
      <4>2. x \in L <=> x # None /\ \E t \in Slot : vtbl[t] /\ x = fd[t]
        BY Zenon
      <4> HIDE DEF K, L
      <4> QED
        BY <1>1, <2>1, <4>1, <4>2
    <3>2. grabbed = L
      BY DEF GrabbedIsKnown
    <3> HIDE DEF K, L
    <3>3. grabbed' = K
      BY <2>1, <3>1, <3>2
    <3> QED
      BY <3>3 DEF GrabbedIsKnown, K
  <2> QED
    BY <1>2, <2>2, <2>3, <2>4
<1>6. ASSUME NEW i \in 0 .. MaxCount, RumbleGets(i)  PROVE QuietInv'
  <2>1. /\ UNCHANGED <<fd, grabbed>> /\ rumbling' = i
        /\ vtbl[i] /\ ~ReaderCloses /\ mpc \notin {"down", "destroy"}
    BY <1>6 DEF RumbleGets, slots, kernel
  <2>2. RumbleInv'
    BY <1>1, <1>2, <2>1 DEF RumbleInv, main
  <2> QED
    BY <1>2, <1>3, <2>1, <2>2
<1>7. CASE Rumbles
  <2>1. UNCHANGED <<fd, grabbed>> /\ rumbling' = None
    BY <1>7 DEF Rumbles, slots, kernel
  <2> QED
    BY <1>2, <1>3, <2>1 DEF RumbleInv
<1>8. CASE UNCHANGED vars
  <2>1. UNCHANGED <<fd, grabbed, rumbling>>
    BY <1>8 DEF vars, slots, kernel
  <2>2. RumbleInv'
    BY <1>1, <1>2, <2>1 DEF RumbleInv, main
  <2> QED
    BY <1>2, <1>3, <2>1, <2>2
<1> QED
  BY <1>4, <1>5, <1>6, <1>7, <1>8

\* Nobody follows a pointer that has been cleared.
LEMMA NobodyCrashes ==
  ASSUME TypeInv, QuietInv
  PROVE  ~RumbleCrashes /\ \A r \in Reader : ~ReaderCrashes(r)
<1> USE DEF QuietInv
<1>1. ~RumbleCrashes
  BY DEF RumbleInv, RumbleCrashes
<1>2. ASSUME NEW r \in Reader, ReaderCrashes(r)  PROVE FALSE
  <2>1. /\ rpc[r] # "none"
        /\ \/ rpc[r] \in {"begin", "update", "off"} /\ ~mapped
           \/ rpc[r] \in {"call", "update"} /\ ~(args[rslot[r]] /\ vtbl[rslot[r]])
    BY <1>2 DEF ReaderCrashes
  <2>2. rslot[r] \in Slot /\ tid[rslot[r]] = r /\ r # None
    BY <2>1, OwnerFacts, DevicesAssumption
  <2>3. mapped
    BY <2>2 DEF PhaseInv
  <2> QED
    BY <2>1, <2>2, <2>3 DEF SlotInv, Working, Reading
<1> QED
  BY <1>1, <1>2

LEMMA QuietStep ==
  ASSUME ~Overlap
  PROVE  TypeInv /\ DeviceInv /\ QuietInv /\ [Next]_vars => QuietInv'
BY WorkingStep, ClosingStep, ScanStep, InstallStep, SpawnStep, DestroyStep,
   RestartStep, OtherStep, NobodyCrashes DEF Next, Service, ReaderStep

------------------------------------------------------------------------------
\* The invariant, as a property of the specification.
LEMMA QuietHolds ==
  ASSUME ~Overlap
  PROVE  Spec => [](TypeInv /\ QuietInv)
<1>1. TypeInv /\ DeviceInv /\ QuietInv /\ [Next]_vars => QuietInv'
  BY QuietStep
<1> QED
  BY TypeInit, TypeStep, DeviceInit, DeviceStep, QuietInit, <1>1, PTL DEF Spec

\* No thread follows a pointer another one has cleared or freed (device_close(),
\* xinput_service_destroy()), as long as no slot is closed while it is in use.
THEOREM NoWildPointerHolds ==
  ASSUME ~Overlap
  PROVE  Spec => []NoWildPointer
<1>1. QuietInv => NoWildPointer
  BY DEF QuietInv, PhaseInv, NoWildPointer
<1> QED
  BY QuietHolds, <1>1, PTL

\* A gamepad that counts as connected (xinput_service_gamepad_reader_thread()) has
\* a reader past its first step.
THEOREM ConnectedHasReaderHolds ==
  ASSUME ~Overlap
  PROVE  Spec => []ConnectedHasReader
<1>1. TypeInv /\ QuietInv => ConnectedHasReader
  <2> SUFFICES ASSUME TypeInv, QuietInv, NEW s \in Slot,
                      mapped, connected[s], mpc # "destroy"
               PROVE  \E r \in Reader : rslot[r] = s /\ rpc[r] \notin {"none", "begin"}
    BY DEF ConnectedHasReader
  <2>1. tid[s] # None /\ rpc[tid[s]] # "begin"
    BY DEF QuietInv, SlotInv
  <2> QED
    BY <2>1, OwnerFacts DEF QuietInv
<1> QED
  BY QuietHolds, <1>1, PTL

\* Between two probes a slot is occupied exactly when a reader works for it
\* (xinput_service_gamepad_reader_thread()).
THEOREM SlotHasReaderHolds ==
  ASSUME ~Overlap
  PROVE  Spec => []SlotHasReader
<1>1. TypeInv /\ QuietInv => SlotHasReader
  <2> SUFFICES ASSUME TypeInv, QuietInv, mpc = "loop", NEW s \in Slot
               PROVE  vtbl[s] <=> \E r \in Reader : rslot[r] = s /\ rpc[r] \in Working
    BY DEF SlotHasReader, Working
  <2>1. ASSUME vtbl[s]
        PROVE  \E r \in Reader : rslot[r] = s /\ rpc[r] \in Working
    <3>1. tid[s] # None /\ rpc[tid[s]] \in Working
      BY <2>1 DEF QuietInv, SlotInv
    <3> QED
      BY <3>1, OwnerFacts DEF QuietInv
  <2>2. ASSUME NEW r \in Reader, rslot[r] = s, rpc[r] \in Working
        PROVE  vtbl[s]
    <3>1. tid[s] = r /\ r # None
      BY <2>2, OwnerFacts, DevicesAssumption DEF QuietInv, Working, Reading
    <3> QED
      BY <2>2, <3>1 DEF QuietInv, SlotInv
  <2> QED
    BY <2>1, <2>2
<1> QED
  BY QuietHolds, <1>1, PTL

\* Every gamepad that is grabbed (EVIOCGRAB) is known to a slot that can release
\* it.
THEOREM GrabbedIsKnownHolds ==
  ASSUME ~Overlap
  PROVE  Spec => []GrabbedIsKnown
<1>1. QuietInv => GrabbedIsKnown
  BY DEF QuietInv
<1> QED
  BY QuietHolds, <1>1, PTL

\* When the service is down (xinput_service_destroy()) it has grabbed nothing and
\* no reader is left.
THEOREM DownReleasesAllHolds ==
  ASSUME ~Overlap
  PROVE  Spec => []DownReleasesAll
<1>1. TypeInv /\ QuietInv => DownReleasesAll
  <2> SUFFICES ASSUME TypeInv, QuietInv, mpc = "down"
               PROVE  grabbed = {} /\ \A r \in Reader : rpc[r] = "none"
    BY DEF DownReleasesAll
  <2>1. \A s \in Slot : tid[s] = None /\ ~vtbl[s]
    BY DEF QuietInv, PhaseInv, SlotInv
  <2>2. \A r \in Reader : rpc[r] = "none"
    <3>1. \A r \in Reader : r # None
      BY DevicesAssumption
    <3> QED
      BY <2>1, <3>1, OwnerFacts DEF QuietInv
  <2> QED
    BY <2>1, <2>2 DEF QuietInv, GrabbedIsKnown
<1> QED
  BY QuietHolds, <1>1, PTL

==============================================================================
