------------------------ MODULE OneServerProofs ------------------------
(***************************************************************************)
(* Proof that XinputService implements OneServer, for any number of        *)
(* processes, generations and faults, when no pid is given out twice.      *)
(***************************************************************************)
EXTENDS XinputServiceProofs

\* from the pid being written to its being taken back
Up == {"rumble", "service", "destroy", "mqdrop", "dshm", "mark"}

\* The pid of a live process stands only in the shared memory that process
\* serves; together with UnlinkedIsDead, in the one with the name.
AnnouncedInv ==
  \A p \in alive, g \in Gen : master[g] = p =>
    /\ shared[p] = g
    /\ \E t \in Thread : ProcOf[t] = p /\ pc[t] \in Up

StepInv == TypeInv /\ LockInv /\ NamesInv

\* Every step keeps it: a pid is written by its own process, after create()
\* has published the mapping, and broken before the mapping goes away.
LEMMA AnnouncedStep ==
  ASSUME StepInv, AnnouncedInv, [Next]_vars, ~PidReuse
  PROVE  AnnouncedInv'
<1>0. Exclusive
  BY LockExcludes DEF StepInv
<1> USE SentinelAssumption, ThreadAssumption, OneServerPerProcess
<1> USE DEF StepInv, TypeInv, TypeOK, MappingInv, Exclusive, NamesInv,
            SharedInv, CreateInv, UnlinkedIsDead, AnnouncedInv, names, globals,
            locals, Up, Creating, Poking, Serving, Closing, Outside
<1>1. ASSUME NEW t \in Thread, Start(t) PROVE AnnouncedInv'
  BY <1>0, <1>1 DEF Start, At, Goto
<1>2. ASSUME NEW t \in Thread, LockAcquire(t) PROVE AnnouncedInv'
  BY <1>0, <1>2 DEF LockAcquire, At, Goto
<1>3. ASSUME NEW t \in Thread, FlockTaken(t) PROVE AnnouncedInv'
  BY <1>0, <1>3 DEF FlockTaken, At, Goto
<1>4. ASSUME NEW t \in Thread, FlockBusy(t) PROVE AnnouncedInv'
  BY <1>0, <1>4 DEF FlockBusy, At, Goto
<1>5. ASSUME NEW t \in Thread, FlockOpenFails(t) PROVE AnnouncedInv'
  BY <1>0, <1>5 DEF FlockOpenFails, At, Failing, Goto
<1>6. ASSUME NEW t \in Thread, SetLockFd(t) PROVE AnnouncedInv'
  BY <1>0, <1>6 DEF SetLockFd, At, Goto
<1>7. ASSUME NEW t \in Thread, NEW g \in Gen, ShmCreate(t, g) PROVE AnnouncedInv'
  BY <1>0, <1>7 DEF ShmCreate, At, Goto
<1>8. ASSUME NEW t \in Thread, ShmExists(t) PROVE AnnouncedInv'
  BY <1>0, <1>8 DEF ShmExists, At, Goto
<1>9. ASSUME NEW t \in Thread, ShmCreateFails(t) PROVE AnnouncedInv'
  BY <1>0, <1>9 DEF ShmCreateFails, At, Failing, Goto
<1>10. ASSUME NEW t \in Thread, Truncate(t) PROVE AnnouncedInv'
  BY <1>0, <1>10 DEF Truncate, At, Goto
<1>11. ASSUME NEW t \in Thread, TruncateFails(t) PROVE AnnouncedInv'
  BY <1>0, <1>11 DEF TruncateFails, At, Failing, Goto
<1>12. ASSUME NEW t \in Thread, Clear(t) PROVE AnnouncedInv'
  BY <1>0, <1>12 DEF Clear, At, Goto
<1>13. ASSUME NEW t \in Thread, NEW q \in Queue, QueueCreate(t, q) PROVE AnnouncedInv'
  BY <1>0, <1>13 DEF QueueCreate, At, Goto
<1>14. ASSUME NEW t \in Thread, QueueExists(t) PROVE AnnouncedInv'
  BY <1>0, <1>14 DEF QueueExists, At, Goto
<1>15. ASSUME NEW t \in Thread, QueueUnlinkStale(t) PROVE AnnouncedInv'
  BY <1>0, <1>15 DEF QueueUnlinkStale, At, Goto
<1>16. ASSUME NEW t \in Thread, QueueCreateFails(t) PROVE AnnouncedInv'
  BY <1>0, <1>16 DEF QueueCreateFails, At, Failing, Goto
<1>17. ASSUME NEW t \in Thread, QueueStillExists(t) PROVE AnnouncedInv'
  BY <1>0, <1>17 DEF QueueStillExists, At, Goto
<1>18. ASSUME NEW t \in Thread, Publish(t) PROVE AnnouncedInv'
  BY <1>0, <1>18 DEF Publish, At, Goto
<1>19. ASSUME NEW t \in Thread, Run(t) PROVE AnnouncedInv'
  BY <1>0, <1>19 DEF Run, At, Goto
<1>20. ASSUME NEW t \in Thread, RumbleThreadStart(t) PROVE AnnouncedInv'
  BY <1>0, <1>20 DEF RumbleThreadStart, At, Goto
<1>21. ASSUME NEW t \in Thread, RumbleThreadFails(t) PROVE AnnouncedInv'
  BY <1>0, <1>21 DEF RumbleThreadFails, At, Failing, Goto
<1>22. ASSUME NEW t \in Thread, IdleStop(t) PROVE AnnouncedInv'
  BY <1>0, <1>22 DEF IdleStop, At, Goto
<1>23. ASSUME NEW t \in Thread, QueueClose(t) PROVE AnnouncedInv'
  BY <1>0, <1>23 DEF QueueClose, At, Goto
<1>24. ASSUME NEW t \in Thread, QueueUnlink(t) PROVE AnnouncedInv'
  BY <1>0, <1>24 DEF QueueUnlink, At, Goto
<1>25. ASSUME NEW t \in Thread, DestroyShared(t) PROVE AnnouncedInv'
  BY <1>0, <1>25 DEF DestroyShared, At, Goto
<1>26. ASSUME NEW t \in Thread, DestroyNothing(t) PROVE AnnouncedInv'
  BY <1>0, <1>26 DEF DestroyNothing, At, Goto
<1>27. ASSUME NEW t \in Thread, MarkBroken(t) PROVE AnnouncedInv'
  BY <1>0, <1>27 DEF MarkBroken, At, Goto
<1>28. ASSUME NEW t \in Thread, ShmUnlink(t) PROVE AnnouncedInv'
  BY <1>0, <1>28 DEF ShmUnlink, At, Goto
<1>29. ASSUME NEW t \in Thread, Unmap(t) PROVE AnnouncedInv'
  BY <1>0, <1>29 DEF Unmap, At, Goto
<1>30. ASSUME NEW t \in Thread, LockRelease(t) PROVE AnnouncedInv'
  BY <1>0, <1>30 DEF LockRelease, At, Goto
<1>31. ASSUME NEW t \in Thread, LockClose(t) PROVE AnnouncedInv'
  BY <1>0, <1>31 DEF LockClose, At, Goto
<1>32. ASSUME NEW t \in Thread, PokeOpen(t) PROVE AnnouncedInv'
  BY <1>0, <1>32 DEF PokeOpen, At, Goto
<1>33. ASSUME NEW t \in Thread, PokeOpenFails(t) PROVE AnnouncedInv'
  BY <1>0, <1>33 DEF PokeOpenFails, At, Failing, Goto
<1>34. ASSUME NEW t \in Thread, PokeWait(t) PROVE AnnouncedInv'
  BY <1>0, <1>34 DEF PokeWait, At
<1>35. ASSUME NEW t \in Thread, PokeRead(t) PROVE AnnouncedInv'
  BY <1>0, <1>35 DEF PokeRead, At, Goto
<1>36. ASSUME NEW t \in Thread, PokeDead(t) PROVE AnnouncedInv'
  BY <1>0, <1>36 DEF PokeDead, At, Goto
<1>37. ASSUME NEW t \in Thread, PokeAlive(t) PROVE AnnouncedInv'
  BY <1>0, <1>37 DEF PokeAlive, At, Goto
<1>38. ASSUME NEW t \in Thread, PokeMarkBroken(t) PROVE AnnouncedInv'
  BY <1>0, <1>38 DEF PokeMarkBroken, At, Goto
<1>39. ASSUME NEW t \in Thread, PokeQueueUnlink(t) PROVE AnnouncedInv'
  BY <1>0, <1>39 DEF PokeQueueUnlink, At, Goto
<1>40. ASSUME NEW t \in Thread, PokeShmUnlink(t) PROVE AnnouncedInv'
  BY <1>0, <1>40 DEF PokeShmUnlink, At, Goto
<1>41. ASSUME NEW p \in Proc, Crash(p) PROVE AnnouncedInv'
  BY <1>0, <1>41 DEF Crash, Dies
<1>42. ASSUME NEW t \in Thread, BadAccess(t) PROVE AnnouncedInv'
  BY <1>0, <1>42 DEF BadAccess, At, Dies
<1>43. ASSUME NEW p \in Proc, Reuse(p) PROVE AnnouncedInv'
  BY <1>0, <1>43 DEF Reuse
<1>44. CASE UNCHANGED vars
  BY <1>0, <1>44 DEF vars
<1>45. ASSUME NEW t \in Thread, QueueUnlinkStaleFails(t) PROVE AnnouncedInv'
  BY <1>0, <1>45 DEF QueueUnlinkStaleFails, At, Failing, Goto
<1>46. ASSUME NEW t \in Thread, QueueUnlinkFails(t) PROVE AnnouncedInv'
  BY <1>0, <1>46 DEF QueueUnlinkFails, At, Failing, Goto
<1>47. ASSUME NEW t \in Thread, ShmUnlinkFails(t) PROVE AnnouncedInv'
  BY <1>0, <1>47 DEF ShmUnlinkFails, At, Failing, Goto
<1>48. ASSUME NEW t \in Thread, PokeQueueUnlinkFails(t) PROVE AnnouncedInv'
  BY <1>0, <1>48 DEF PokeQueueUnlinkFails, At, Failing, Goto
<1>49. ASSUME NEW t \in Thread, PokeShmUnlinkFails(t) PROVE AnnouncedInv'
  BY <1>0, <1>49 DEF PokeShmUnlinkFails, At, Failing, Goto
<1>50. QED
  BY <1>1, <1>2, <1>3, <1>4, <1>5, <1>6, <1>7, <1>8, <1>9, <1>10, <1>11,
     <1>12, <1>13, <1>14, <1>15, <1>16, <1>17, <1>18, <1>19, <1>20,
     <1>21, <1>22, <1>23, <1>24, <1>25, <1>26, <1>27, <1>28, <1>29,
     <1>30, <1>31, <1>32, <1>33, <1>34, <1>35, <1>36, <1>37, <1>38,
     <1>39, <1>40, <1>41, <1>42, <1>43, <1>44, <1>45, <1>46, <1>47,
     <1>48, <1>49
  DEF Next, Step, Fault

------------------------------------------------------------------------------
(* The steps *)

\* When a thread past flock() is at none of those points, nobody is announced.
LEMMA NobodyAnnounced ==
  ASSUME StepInv, AnnouncedInv, NEW t \in Thread, pc[t] \notin Outside \cup Up
  PROVE  Announced = {}
<1>1. Exclusive
  BY LockExcludes DEF StepInv
<1>2. QED
  BY <1>1 DEF AnnouncedInv, Announced, Exclusive, Up, Outside

\* Only the process of the thread past flock() is ever announced, where the
\* name leads to.
LEMMA OneAnnounced ==
  ASSUME StepInv, AnnouncedInv, NEW p \in Announced
  PROVE  /\ Announced = {p}
         /\ shmName # None /\ shmName = shared[p] /\ master[shmName] = p
         /\ \E t \in Thread : ProcOf[t] = p /\ pc[t] \in Up
<1> USE SentinelAssumption, ThreadAssumption
<1>1. Exclusive
  BY LockExcludes DEF StepInv
<1>2. PICK g \in Gen : master[g] = p /\ p \in alive
  BY DEF Announced
<1>3. shared[p] = g /\ \E t \in Thread : ProcOf[t] = p /\ pc[t] \in Up
  BY <1>2 DEF AnnouncedInv
<1>4. g = shmName /\ g # None
  BY <1>2 DEF StepInv, TypeInv, TypeOK, NamesInv, UnlinkedIsDead
<1>5. \A q \in Announced : q = p
  BY <1>2, <1>3, <1>4
  DEF StepInv, TypeInv, TypeOK, NamesInv, UnlinkedIsDead, Announced
<1>6. QED
  BY <1>2, <1>3, <1>4, <1>5

\* The death of a process withdraws it, or leaves the view alone.
LEMMA DiesMaps ==
  ASSUME StepInv, AnnouncedInv, NEW p, Dies(p)
  PROVE  [OS!Next]_(OS!view)
<1> USE DEF OS!view, Announced, Board, BoardQueue, names
<1>1. Announced' = Announced \ {p} /\ UNCHANGED <<shmName, mqName>>
  BY DEF Dies
<1>2. CASE p \in Announced
  <2>1. Announced' = {}
    BY <1>1, <1>2, OneAnnounced
  <2>2. OS!Withdraw
    BY <1>2, <2>1 DEF OS!Withdraw
  <2>3. QED
    BY <2>2 DEF OS!Next
<1>3. CASE p \notin Announced
  BY <1>1, <1>3
<1>4. QED
  BY <1>2, <1>3

\* Every step of the service is a step of OneServer or leaves its view alone.
LEMMA OneServerStep ==
  ASSUME StepInv, AnnouncedInv, AnnouncedInv', [Next]_vars, ~PidReuse
  PROVE  [OS!Next]_(OS!view)
<1> DEFINE Maps == [OS!Next]_(OS!view)
<1> USE SentinelAssumption, ThreadAssumption
<1> USE DEF OS!view, Announced, Board, BoardQueue, names, globals, locals
<1>1. ASSUME NEW t \in Thread, Start(t) PROVE Maps
  BY <1>1 DEF Start, At, Goto
<1>2. ASSUME NEW t \in Thread, LockAcquire(t) PROVE Maps
  BY <1>2 DEF LockAcquire, At, Goto
<1>3. ASSUME NEW t \in Thread, FlockTaken(t) PROVE Maps
  BY <1>3 DEF FlockTaken, At, Goto
<1>4. ASSUME NEW t \in Thread, FlockBusy(t) PROVE Maps
  BY <1>4 DEF FlockBusy, At, Goto
<1>5. ASSUME NEW t \in Thread, FlockOpenFails(t) PROVE Maps
  BY <1>5 DEF FlockOpenFails, At, Failing, Goto
<1>6. ASSUME NEW t \in Thread, SetLockFd(t) PROVE Maps
  BY <1>6 DEF SetLockFd, At, Goto
<1>7. ASSUME NEW t \in Thread, NEW g \in Gen, ShmCreate(t, g) PROVE Maps
  <2>1. Announced = {}
    BY <1>7, NobodyAnnounced DEF ShmCreate, At, Outside, Up
  <2>2. Announced' = {}
    BY <1>7, <2>1 DEF ShmCreate, At, Goto, StepInv, TypeInv, TypeOK
  <2>3. QED
    BY <2>1, <2>2
<1>8. ASSUME NEW t \in Thread, ShmExists(t) PROVE Maps
  BY <1>8 DEF ShmExists, At, Goto
<1>9. ASSUME NEW t \in Thread, ShmCreateFails(t) PROVE Maps
  BY <1>9 DEF ShmCreateFails, At, Failing, Goto
<1>10. ASSUME NEW t \in Thread, Truncate(t) PROVE Maps
  BY <1>10 DEF Truncate, At, Goto
<1>11. ASSUME NEW t \in Thread, TruncateFails(t) PROVE Maps
  <2>1. Announced = {}
    BY <1>11, NobodyAnnounced DEF TruncateFails, At, Outside, Up
  <2>2. Announced' = {}
    BY <1>11, <2>1 DEF TruncateFails, At, Failing, Goto, StepInv, TypeInv, TypeOK
  <2>3. QED
    BY <2>1, <2>2
<1>12. ASSUME NEW t \in Thread, Clear(t) PROVE Maps
  <2>1. Announced = {}
    BY <1>12, NobodyAnnounced DEF Clear, At, Outside, Up
  <2>2. Announced' = {}
    BY <1>12, <2>1 DEF Clear, At, Goto, StepInv, TypeInv, TypeOK
  <2>3. QED
    BY <2>1, <2>2
<1>13. ASSUME NEW t \in Thread, NEW q \in Queue, QueueCreate(t, q) PROVE Maps
  <2>1. Announced = {}
    BY <1>13, NobodyAnnounced DEF QueueCreate, At, Outside, Up
  <2>2. Announced' = {}
    BY <1>13, <2>1 DEF QueueCreate, At, Goto, StepInv, TypeInv, TypeOK
  <2>3. QED
    BY <2>1, <2>2
<1>14. ASSUME NEW t \in Thread, QueueExists(t) PROVE Maps
  BY <1>14 DEF QueueExists, At, Goto
<1>15. ASSUME NEW t \in Thread, QueueUnlinkStale(t) PROVE Maps
  <2>1. Announced = {}
    BY <1>15, NobodyAnnounced DEF QueueUnlinkStale, At, Outside, Up
  <2>2. Announced' = {}
    BY <1>15, <2>1 DEF QueueUnlinkStale, At, Goto, StepInv, TypeInv, TypeOK
  <2>3. QED
    BY <2>1, <2>2
<1>16. ASSUME NEW t \in Thread, QueueCreateFails(t) PROVE Maps
  BY <1>16 DEF QueueCreateFails, At, Failing, Goto
<1>17. ASSUME NEW t \in Thread, QueueStillExists(t) PROVE Maps
  BY <1>17 DEF QueueStillExists, At, Goto
<1>18. ASSUME NEW t \in Thread, Publish(t) PROVE Maps
  BY <1>18 DEF Publish, At, Goto
<1>19. ASSUME NEW t \in Thread, Run(t) PROVE Maps
  <2> DEFINE p == ProcOf[t]
  <2>1. Announced = {}
    BY <1>19, NobodyAnnounced DEF Run, At, Outside, Up
  <2>2. /\ shared[p] = shmName /\ shmName \in Gen /\ p \in alive
        /\ mqName \in Queue
    BY <1>19 DEF Run, At, StepInv, TypeInv, TypeOK, NamesInv, SharedInv,
                 CreateInv, Serving, Closing
  <2>3. Announced' = {p}
    BY <1>19, <2>1, <2>2 DEF Run, At, Goto, StepInv, TypeInv, TypeOK
  <2>4. OS!Announce(p, shmName, mqName)
    BY <1>19, <2>1, <2>3 DEF Run, OS!Announce
  <2>5. \E o \in Proc, g \in Gen, q \in Queue : OS!Announce(o, g, q)
    <3> HIDE DEF Announced, Board, BoardQueue
    <3>1. p \in Proc
      BY <2>2 DEF StepInv, TypeInv, TypeOK
    <3>2. QED
      BY <2>2, <2>4, <3>1
  <2>6. QED
    BY <2>5 DEF OS!Next
<1>20. ASSUME NEW t \in Thread, RumbleThreadStart(t) PROVE Maps
  BY <1>20 DEF RumbleThreadStart, At, Goto
<1>21. ASSUME NEW t \in Thread, RumbleThreadFails(t) PROVE Maps
  BY <1>21 DEF RumbleThreadFails, At, Failing, Goto
<1>22. ASSUME NEW t \in Thread, IdleStop(t) PROVE Maps
  BY <1>22 DEF IdleStop, At, Goto
<1>23. ASSUME NEW t \in Thread, QueueClose(t) PROVE Maps
  BY <1>23 DEF QueueClose, At, Goto
<1>24. ASSUME NEW t \in Thread, QueueUnlink(t) PROVE Maps
  <2>1. UNCHANGED <<alive, master, shmName>> /\ mqName' = None
    BY <1>24 DEF QueueUnlink
  <2>2. UNCHANGED <<Announced, Board>>
    BY <2>1
  <2>3. CASE Announced # {} /\ mqName # None
    BY <2>1, <2>2, <2>3 DEF OS!Next, OS!WithdrawQueue
  <2>4. CASE Announced = {} \/ mqName = None
    BY <2>1, <2>2, <2>4
  <2>5. QED
    BY <2>3, <2>4
<1>25. ASSUME NEW t \in Thread, DestroyShared(t) PROVE Maps
  BY <1>25 DEF DestroyShared, At, Goto
<1>26. ASSUME NEW t \in Thread, DestroyNothing(t) PROVE Maps
  BY <1>26 DEF DestroyNothing, At, Goto
<1>27. ASSUME NEW t \in Thread, MarkBroken(t) PROVE Maps
  <2>1. UNCHANGED <<alive, shmName, mqName>>
    BY <1>27 DEF MarkBroken
  <2>2. Announced' = {}
    <3> SUFFICES ASSUME NEW p \in Announced' PROVE FALSE
      OBVIOUS
    <3>0. PICK g \in Gen : p \in alive /\ master'[g] = p
      BY <2>1
    <3>1. p \in Announced /\ g = shmName
      BY <1>27, <3>0 DEF MarkBroken, StepInv, TypeInv, TypeOK, NamesInv,
                       UnlinkedIsDead
    <3>2. shared[p] = shmName /\ \E u \in Thread : ProcOf[u] = p /\ pc[u] \in Up
      BY <3>1, OneAnnounced
    <3>3. ProcOf[t] = p
      BY <1>27, <3>2, LockExcludes DEF MarkBroken, At, StepInv, Exclusive, Up, Outside
    <3>4. QED
      BY <1>27, <3>0, <3>1, <3>2, <3>3 DEF MarkBroken, StepInv, TypeInv, TypeOK
  <2>3. CASE Announced = {}
    BY <2>1, <2>2, <2>3
  <2>4. CASE Announced # {}
    BY <2>1, <2>2, <2>4 DEF OS!Next, OS!Withdraw
  <2>5. QED
    BY <2>3, <2>4
<1>28. ASSUME NEW t \in Thread, ShmUnlink(t) PROVE Maps
  <2>1. Announced = {}
    BY <1>28, NobodyAnnounced DEF ShmUnlink, At, Outside, Up
  <2>2. Announced' = {}
    BY <1>28, <2>1 DEF ShmUnlink, At, Goto, StepInv, TypeInv, TypeOK
  <2>3. QED
    BY <2>1, <2>2
<1>29. ASSUME NEW t \in Thread, Unmap(t) PROVE Maps
  BY <1>29 DEF Unmap, At, Goto
<1>30. ASSUME NEW t \in Thread, LockRelease(t) PROVE Maps
  BY <1>30 DEF LockRelease, At, Goto
<1>31. ASSUME NEW t \in Thread, LockClose(t) PROVE Maps
  BY <1>31 DEF LockClose, At, Goto
<1>32. ASSUME NEW t \in Thread, PokeOpen(t) PROVE Maps
  BY <1>32 DEF PokeOpen, At, Goto
<1>33. ASSUME NEW t \in Thread, PokeOpenFails(t) PROVE Maps
  BY <1>33 DEF PokeOpenFails, At, Failing, Goto
<1>34. ASSUME NEW t \in Thread, PokeWait(t) PROVE Maps
  BY <1>34 DEF PokeWait, At
<1>35. ASSUME NEW t \in Thread, PokeRead(t) PROVE Maps
  BY <1>35 DEF PokeRead, At, Goto
<1>36. ASSUME NEW t \in Thread, PokeDead(t) PROVE Maps
  BY <1>36 DEF PokeDead, At, Goto
<1>37. ASSUME NEW t \in Thread, PokeAlive(t) PROVE Maps
  BY <1>37 DEF PokeAlive, At, Goto
<1>38. ASSUME NEW t \in Thread, PokeMarkBroken(t) PROVE Maps
  <2>1. Announced = {}
    BY <1>38, NobodyAnnounced DEF PokeMarkBroken, At, Outside, Up
  <2>2. Announced' = {}
    BY <1>38, <2>1 DEF PokeMarkBroken, At, Goto, StepInv, TypeInv, TypeOK
  <2>3. QED
    BY <2>1, <2>2
<1>39. ASSUME NEW t \in Thread, PokeQueueUnlink(t) PROVE Maps
  <2>1. Announced = {}
    BY <1>39, NobodyAnnounced DEF PokeQueueUnlink, At, Outside, Up
  <2>2. Announced' = {}
    BY <1>39, <2>1 DEF PokeQueueUnlink, At, Goto, StepInv, TypeInv, TypeOK
  <2>3. QED
    BY <2>1, <2>2
<1>40. ASSUME NEW t \in Thread, PokeShmUnlink(t) PROVE Maps
  <2>1. Announced = {}
    BY <1>40, NobodyAnnounced DEF PokeShmUnlink, At, Outside, Up
  <2>2. Announced' = {}
    BY <1>40, <2>1 DEF PokeShmUnlink, At, Goto, StepInv, TypeInv, TypeOK
  <2>3. QED
    BY <2>1, <2>2
<1>41. ASSUME NEW p \in Proc, Crash(p) PROVE Maps
  BY <1>41, DiesMaps DEF Crash
<1>42. ASSUME NEW t \in Thread, BadAccess(t) PROVE Maps
  BY <1>42, DiesMaps DEF BadAccess
<1>43. ASSUME NEW p \in Proc, Reuse(p) PROVE Maps
  BY <1>43 DEF Reuse
<1>44. CASE UNCHANGED vars
  BY <1>44 DEF vars
<1>45. ASSUME NEW t \in Thread, QueueUnlinkStaleFails(t) PROVE Maps
  BY <1>45 DEF QueueUnlinkStaleFails, At, Failing, Goto
<1>46. ASSUME NEW t \in Thread, QueueUnlinkFails(t) PROVE Maps
  BY <1>46 DEF QueueUnlinkFails, At, Failing, Goto
<1>47. ASSUME NEW t \in Thread, ShmUnlinkFails(t) PROVE Maps
  BY <1>47 DEF ShmUnlinkFails, At, Failing, Goto
<1>48. ASSUME NEW t \in Thread, PokeQueueUnlinkFails(t) PROVE Maps
  BY <1>48 DEF PokeQueueUnlinkFails, At, Failing, Goto
<1>49. ASSUME NEW t \in Thread, PokeShmUnlinkFails(t) PROVE Maps
  BY <1>49 DEF PokeShmUnlinkFails, At, Failing, Goto
<1>50. QED
  BY <1>1, <1>2, <1>3, <1>4, <1>5, <1>6, <1>7, <1>8, <1>9, <1>10, <1>11,
     <1>12, <1>13, <1>14, <1>15, <1>16, <1>17, <1>18, <1>19, <1>20,
     <1>21, <1>22, <1>23, <1>24, <1>25, <1>26, <1>27, <1>28, <1>29,
     <1>30, <1>31, <1>32, <1>33, <1>34, <1>35, <1>36, <1>37, <1>38,
     <1>39, <1>40, <1>41, <1>42, <1>43, <1>44, <1>45, <1>46, <1>47,
     <1>48, <1>49
  DEF Next, Step, Fault

\* The service, seen through its shared memory, is OneServer: nobody is
\* announced beside another, and what a board's name leads to does not change
\* under the one who is (xinput_service_run(), destroy(), poke()).
THEOREM ImplementsOneServerHolds ==
  ASSUME ~PidReuse
  PROVE  Spec => ImplementsOneServer
<1>1. Init => OS!Init /\ AnnouncedInv
  BY SentinelAssumption
  DEF Init, OS!Init, Announced, Board, BoardQueue, AnnouncedInv
<1>2. StepInv /\ AnnouncedInv /\ [Next]_vars => AnnouncedInv'
  BY AnnouncedStep
<1>3. StepInv /\ AnnouncedInv /\ AnnouncedInv' /\ [Next]_vars => [OS!Next]_(OS!view)
  BY OneServerStep
<1>4. Spec => []StepInv
  BY NamesSafe DEF StepInv
<1>5. QED
  BY <1>1, <1>2, <1>3, <1>4, PTL DEF Spec, ImplementsOneServer, OS!Spec

==============================================================================
