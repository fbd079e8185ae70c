------------------------ MODULE XinputServiceProofs ------------------------
(***************************************************************************)
(* Proofs about XinputService, for any number of processes, generations    *)
(* and faults, when a process runs at most one server thread.              *)
(***************************************************************************)
EXTENDS XinputService, TLAPS

\* rundll() is meant to spawn a thread only when there is none, and a daemon
\* or a rundll32 process has only one.
ASSUME OneServerPerProcess ==
  \A s, t \in Thread : ProcOf[s] = ProcOf[t] => s = t

------------------------------------------------------------------------------
(* The inductive invariant *)

Outside == {"idle", "acquire", "flock"}

\* the control points at which lock_fd is set
WithFd == Creating \cup Poking \cup Serving \cup Closing \cup {"release"}

\* A thread past flock() has the lock for its process, which lives; a lock that
\* is held is held for such a thread.
LockInv ==
  /\ \A t \in Thread : pc[t] \notin Outside =>
       lockOwner = ProcOf[t] /\ ProcOf[t] \in alive
  /\ \A t \in Thread : lockFd[ProcOf[t]] <=> pc[t] \in WithFd
  /\ lockOwner # None =>
       \E t \in Thread : ProcOf[t] = lockOwner /\ pc[t] \notin Outside

\* what create() has built so far has the name
CreateInv ==
  \A t \in Thread :
    /\ pc[t] \in Creating \ {"create"} => state[t] # None /\ state[t] = shmName
    /\ pc[t] = "ftruncate" => master[shmName] = Unset
    /\ pc[t] \in Creating \ {"create", "ftruncate"} => sized[shmName]
    /\ pc[t] \in Serving \cup {"publish"} =>
         mqName # None /\ mqName = mq[ProcOf[t]]

\* service_shared is set from the end of create() to that of destroy(), and is
\* the object with the name until destroy() unlinks it
SharedInv ==
  \A t \in Thread :
    LET g == shared[ProcOf[t]] IN
    /\ g # None => pc[t] \in Serving \cup Closing
    /\ g # None /\ pc[t] # "unmap" => shmName = g
    /\ pc[t] \in Serving => g # None /\ sized[shmName]
    /\ pc[t] \in {"rumble", "service"} => master[shmName] = ProcOf[t]
    /\ pc[t] \in {"mark", "unlink"} => g # None
    /\ pc[t] = "unlink" => master[shmName] = Broken

\* poke() works on the object with the name
PokeInv ==
  \A t \in Thread :
    /\ pc[t] \in Poking \ {"poke"} => state[t] # None /\ state[t] = shmName
    /\ pc[t] \in {"pmq", "pshm"} => master[shmName] = Broken

\* create() between the shared memory and the queue
Building == {"ftruncate", "memset", "queue", "mqclear", "requeue"}

\* the queue comes after the shared memory and goes before it
QueueInv ==
  \A t \in Thread :
    /\ pc[t] \in Building => mqName = None
    /\ pc[t] = "pshm" => mqName = None
    /\ pc[t] = "destroy" /\ shared[ProcOf[t]] # None => mq[ProcOf[t]] # None
    /\ pc[t] \in {"dshm", "mark", "unlink"} /\ shared[ProcOf[t]] # None
         => mqName = None

NamesInv ==
  /\ CreateInv
  /\ SharedInv
  /\ PokeInv
  /\ UnlinkedIsDead

FreshQueueInv ==
  ~StaleQueue /\ "mq_unlink" \notin Fails => QueueHasShm /\ QueueInv

------------------------------------------------------------------------------
(* Types *)

\* a thread that works on shared memory through a local mapping has one
MappingInv ==
  \A t \in Thread :
    pc[t] \in (Creating \ {"create"}) \cup (Poking \ {"poke"}) => state[t] # None

TypeInv == TypeOK /\ MappingInv

\* The end of a process leaves every variable in its set.
LEMMA DiesType ==
  ASSUME TypeInv, NEW p \in Proc, Dies(p), faults' \in 0..MaxFault
  PROVE  TypeInv'
<1> USE DEF TypeInv, TypeOK, Dies
<1>1. /\ (alive \subseteq Proc)' /\ (lockOwner \in Proc \cup {None})'
      /\ (lockFd \in [Proc -> BOOLEAN])' /\ (shared \in [Proc -> Gen \cup {None}])'
      /\ (mq \in [Proc -> Queue \cup {None}])'
  OBVIOUS
<1>2. (shmName \in Gen \cup {None} /\ sized \in [Gen -> BOOLEAN]
       /\ master \in [Gen -> Proc \cup {Unset, Broken}]
       /\ mqName \in Queue \cup {None})'
  BY DEF names
<1>3. (pc \in [Thread -> PCs])'
  BY DEF PCs
<1>4. (state \in [Thread -> Gen \cup {None}])'
  OBVIOUS
<1>5. (tries \in [Thread -> 0..Tries])'
  BY BoundAssumption
<1>6. (pid \in [Thread -> Proc \cup {Unset, Broken}])'
  OBVIOUS
<1>7. (again \in [Thread -> BOOLEAN])'
  OBVIOUS
<1>8. MappingInv'
  BY DEF MappingInv, Creating, Poking
<1>9. QED
  BY <1>1, <1>2, <1>3, <1>4, <1>5, <1>6, <1>7, <1>8

\* Every step keeps each variable in its set: no thread is lost at a control
\* point the code does not have, and none works on shared memory without a
\* mapping.
LEMMA TypeStep == TypeInv /\ [Next]_vars => TypeInv'
<1> SUFFICES ASSUME TypeInv, [Next]_vars PROVE TypeInv'
  OBVIOUS
<1> USE SentinelAssumption, ThreadAssumption, BoundAssumption
<1> USE DEF TypeInv, TypeOK, MappingInv, names, globals, locals, PCs, Acquiring,
            Creating, Poking, Serving, Closing, Releasing
<1>1. ASSUME NEW t \in Thread, Start(t) PROVE TypeInv'
  BY <1>1 DEF Start, At, Goto
<1>2. ASSUME NEW t \in Thread, LockAcquire(t) PROVE TypeInv'
  BY <1>2 DEF LockAcquire, At, Goto
<1>3. ASSUME NEW t \in Thread, FlockTaken(t) PROVE TypeInv'
  BY <1>3 DEF FlockTaken, At, Goto
<1>4. ASSUME NEW t \in Thread, FlockBusy(t) PROVE TypeInv'
  BY <1>4 DEF FlockBusy, At, Goto
<1>5. ASSUME NEW t \in Thread, FlockOpenFails(t) PROVE TypeInv'
  BY <1>5 DEF FlockOpenFails, At, Failing, Goto
<1>6. ASSUME NEW t \in Thread, SetLockFd(t) PROVE TypeInv'
  BY <1>6 DEF SetLockFd, At, Goto
<1>7. ASSUME NEW t \in Thread, NEW g \in Gen, ShmCreate(t, g) PROVE TypeInv'
  BY <1>7 DEF ShmCreate, At, Goto
<1>8. ASSUME NEW t \in Thread, ShmExists(t) PROVE TypeInv'
  BY <1>8 DEF ShmExists, At, Goto
<1>9. ASSUME NEW t \in Thread, ShmCreateFails(t) PROVE TypeInv'
  BY <1>9 DEF ShmCreateFails, At, Failing, Goto
<1>10. ASSUME NEW t \in Thread, Truncate(t) PROVE TypeInv'
  BY <1>10 DEF Truncate, At, Goto
<1>11. ASSUME NEW t \in Thread, TruncateFails(t) PROVE TypeInv'
  BY <1>11 DEF TruncateFails, At, Failing, Goto
<1>12. ASSUME NEW t \in Thread, Clear(t) PROVE TypeInv'
  BY <1>12 DEF Clear, At, Goto
<1>13. ASSUME NEW t \in Thread, NEW q \in Queue, QueueCreate(t, q) PROVE TypeInv'
  BY <1>13 DEF QueueCreate, At, Goto
<1>14. ASSUME NEW t \in Thread, QueueExists(t) PROVE TypeInv'
  BY <1>14 DEF QueueExists, At, Goto
<1>15. ASSUME NEW t \in Thread, QueueUnlinkStale(t) PROVE TypeInv'
  BY <1>15 DEF QueueUnlinkStale, At, Goto
<1>16. ASSUME NEW t \in Thread, QueueCreateFails(t) PROVE TypeInv'
  BY <1>16 DEF QueueCreateFails, At, Failing, Goto
<1>17. ASSUME NEW t \in Thread, QueueStillExists(t) PROVE TypeInv'
  BY <1>17 DEF QueueStillExists, At, Goto
<1>18. ASSUME NEW t \in Thread, Publish(t) PROVE TypeInv'
  BY <1>18 DEF Publish, At, Goto
<1>19. ASSUME NEW t \in Thread, Run(t) PROVE TypeInv'
  BY <1>19 DEF Run, At, Goto
<1>20. ASSUME NEW t \in Thread, RumbleThreadStart(t) PROVE TypeInv'
  BY <1>20 DEF RumbleThreadStart, At, Goto
<1>21. ASSUME NEW t \in Thread, RumbleThreadFails(t) PROVE TypeInv'
  BY <1>21 DEF RumbleThreadFails, At, Failing, Goto
<1>22. ASSUME NEW t \in Thread, IdleStop(t) PROVE TypeInv'
  BY <1>22 DEF IdleStop, At, Goto
<1>23. ASSUME NEW t \in Thread, QueueClose(t) PROVE TypeInv'
  BY <1>23 DEF QueueClose, At, Goto
<1>24. ASSUME NEW t \in Thread, QueueUnlink(t) PROVE TypeInv'
  BY <1>24 DEF QueueUnlink, At, Goto
<1>25. ASSUME NEW t \in Thread, DestroyShared(t) PROVE TypeInv'
  BY <1>25 DEF DestroyShared, At, Goto
<1>26. ASSUME NEW t \in Thread, DestroyNothing(t) PROVE TypeInv'
  BY <1>26 DEF DestroyNothing, At, Goto
<1>27. ASSUME NEW t \in Thread, MarkBroken(t) PROVE TypeInv'
  BY <1>27 DEF MarkBroken, At, Goto
<1>28. ASSUME NEW t \in Thread, ShmUnlink(t) PROVE TypeInv'
  BY <1>28 DEF ShmUnlink, At, Goto
<1>29. ASSUME NEW t \in Thread, Unmap(t) PROVE TypeInv'
  BY <1>29 DEF Unmap, At, Goto
<1>30. ASSUME NEW t \in Thread, LockRelease(t) PROVE TypeInv'
  BY <1>30 DEF LockRelease, At, Goto
<1>31. ASSUME NEW t \in Thread, LockClose(t) PROVE TypeInv'
  BY <1>31 DEF LockClose, At, Goto
<1>32. ASSUME NEW t \in Thread, PokeOpen(t) PROVE TypeInv'
  BY <1>32 DEF PokeOpen, At, Goto
<1>33. ASSUME NEW t \in Thread, PokeOpenFails(t) PROVE TypeInv'
  BY <1>33 DEF PokeOpenFails, At, Failing, Goto
<1>34. ASSUME NEW t \in Thread, PokeWait(t) PROVE TypeInv'
  BY <1>34 DEF PokeWait, At
<1>35. ASSUME NEW t \in Thread, PokeRead(t) PROVE TypeInv'
  BY <1>35 DEF PokeRead, At, Goto
<1>36. ASSUME NEW t \in Thread, PokeDead(t) PROVE TypeInv'
  BY <1>36 DEF PokeDead, At, Goto
<1>37. ASSUME NEW t \in Thread, PokeAlive(t) PROVE TypeInv'
  BY <1>37 DEF PokeAlive, At, Goto
<1>38. ASSUME NEW t \in Thread, PokeMarkBroken(t) PROVE TypeInv'
  BY <1>38 DEF PokeMarkBroken, At, Goto
<1>39. ASSUME NEW t \in Thread, PokeQueueUnlink(t) PROVE TypeInv'
  BY <1>39 DEF PokeQueueUnlink, At, Goto
<1>40. ASSUME NEW t \in Thread, PokeShmUnlink(t) PROVE TypeInv'
  BY <1>40 DEF PokeShmUnlink, At, Goto
<1>41. ASSUME NEW p \in Proc, Crash(p) PROVE TypeInv'
  <2>1. faults' \in 0..MaxFault
    BY <1>41 DEF Crash
  <2>2. QED
    BY <1>41, <2>1, DiesType DEF Crash
<1>42. ASSUME NEW t \in Thread, BadAccess(t) PROVE TypeInv'
  <2>1. faults' \in 0..MaxFault
    BY <1>42 DEF BadAccess
  <2>2. QED
    BY <1>42, <2>1, DiesType DEF BadAccess
<1>43. ASSUME NEW p \in Proc, Reuse(p) PROVE TypeInv'
  BY <1>43 DEF Reuse
<1>44. CASE UNCHANGED vars
  BY <1>44 DEF vars
<1>45. ASSUME NEW t \in Thread, QueueUnlinkStaleFails(t) PROVE TypeInv'
  BY <1>45 DEF QueueUnlinkStaleFails, At, Failing, Goto
<1>46. ASSUME NEW t \in Thread, QueueUnlinkFails(t) PROVE TypeInv'
  BY <1>46 DEF QueueUnlinkFails, At, Failing, Goto
<1>47. ASSUME NEW t \in Thread, ShmUnlinkFails(t) PROVE TypeInv'
  BY <1>47 DEF ShmUnlinkFails, At, Failing, Goto
<1>48. ASSUME NEW t \in Thread, PokeQueueUnlinkFails(t) PROVE TypeInv'
  BY <1>48 DEF PokeQueueUnlinkFails, At, Failing, Goto
<1>49. ASSUME NEW t \in Thread, PokeShmUnlinkFails(t) PROVE TypeInv'
  BY <1>49 DEF PokeShmUnlinkFails, At, Failing, Goto
<1>50. QED
  BY <1>1, <1>2, <1>3, <1>4, <1>5, <1>6, <1>7, <1>8, <1>9, <1>10, <1>11,
     <1>12, <1>13, <1>14, <1>15, <1>16, <1>17, <1>18, <1>19, <1>20, <1>21,
     <1>22, <1>23, <1>24, <1>25, <1>26, <1>27, <1>28, <1>29, <1>30, <1>31,
     <1>32, <1>33, <1>34, <1>35, <1>36, <1>37, <1>38, <1>39, <1>40, <1>41,
     <1>42, <1>43, <1>44, <1>45, <1>46, <1>47, <1>48, <1>49
  DEF Next, Step, Fault

\* The state stays within its types, for any set of processes and threads.
THEOREM TypeCorrect == Spec => []TypeOK
<1>1. Init => TypeInv
  BY SentinelAssumption, ThreadAssumption, BoundAssumption
  DEF Init, TypeInv, TypeOK, MappingInv, PCs, Creating, Poking
<1>2. TypeInv => TypeOK
  BY DEF TypeInv
<1>3. QED
  BY <1>1, <1>2, TypeStep, PTL DEF Spec

------------------------------------------------------------------------------
(* The lock *)

\* Every step keeps the lock with the one thread that is past flock(): taking
\* it, remembering its descriptor, dropping it, and dying with it.
LEMMA LockStep == TypeInv /\ LockInv /\ [Next]_vars => LockInv'
<1> SUFFICES ASSUME TypeInv, LockInv, [Next]_vars PROVE LockInv'
  OBVIOUS
<1> USE SentinelAssumption, ThreadAssumption, OneServerPerProcess
<1> USE DEF TypeInv, TypeOK, LockInv, names, globals, locals, PCs, Acquiring,
            Creating, Poking, Serving, Closing, Releasing, Outside, WithFd
<1>1. ASSUME NEW t \in Thread, Start(t) PROVE LockInv'
  BY <1>1 DEF Start, At, Goto
<1>2. ASSUME NEW t \in Thread, LockAcquire(t) PROVE LockInv'
  BY <1>2 DEF LockAcquire, At, Goto
<1>3. ASSUME NEW t \in Thread, FlockTaken(t) PROVE LockInv'
  BY <1>3 DEF FlockTaken, At, Goto
<1>4. ASSUME NEW t \in Thread, FlockBusy(t) PROVE LockInv'
  BY <1>4 DEF FlockBusy, At, Goto
<1>5. ASSUME NEW t \in Thread, FlockOpenFails(t) PROVE LockInv'
  BY <1>5 DEF FlockOpenFails, At, Failing, Goto
<1>6. ASSUME NEW t \in Thread, SetLockFd(t) PROVE LockInv'
  BY <1>6 DEF SetLockFd, At, Goto
<1>7. ASSUME NEW t \in Thread, NEW g \in Gen, ShmCreate(t, g) PROVE LockInv'
  BY <1>7 DEF ShmCreate, At, Goto
<1>8. ASSUME NEW t \in Thread, ShmExists(t) PROVE LockInv'
  BY <1>8 DEF ShmExists, At, Goto
<1>9. ASSUME NEW t \in Thread, ShmCreateFails(t) PROVE LockInv'
  BY <1>9 DEF ShmCreateFails, At, Failing, Goto
<1>10. ASSUME NEW t \in Thread, Truncate(t) PROVE LockInv'
  BY <1>10 DEF Truncate, At, Goto
<1>11. ASSUME NEW t \in Thread, TruncateFails(t) PROVE LockInv'
  BY <1>11 DEF TruncateFails, At, Failing, Goto
<1>12. ASSUME NEW t \in Thread, Clear(t) PROVE LockInv'
  BY <1>12 DEF Clear, At, Goto
<1>13. ASSUME NEW t \in Thread, NEW q \in Queue, QueueCreate(t, q) PROVE LockInv'
  BY <1>13 DEF QueueCreate, At, Goto
<1>14. ASSUME NEW t \in Thread, QueueExists(t) PROVE LockInv'
  BY <1>14 DEF QueueExists, At, Goto
<1>15. ASSUME NEW t \in Thread, QueueUnlinkStale(t) PROVE LockInv'
  BY <1>15 DEF QueueUnlinkStale, At, Goto
<1>16. ASSUME NEW t \in Thread, QueueCreateFails(t) PROVE LockInv'
  BY <1>16 DEF QueueCreateFails, At, Failing, Goto
<1>17. ASSUME NEW t \in Thread, QueueStillExists(t) PROVE LockInv'
  BY <1>17 DEF QueueStillExists, At, Goto
<1>18. ASSUME NEW t \in Thread, Publish(t) PROVE LockInv'
  BY <1>18 DEF Publish, At, Goto
<1>19. ASSUME NEW t \in Thread, Run(t) PROVE LockInv'
  BY <1>19 DEF Run, At, Goto
<1>20. ASSUME NEW t \in Thread, RumbleThreadStart(t) PROVE LockInv'
  BY <1>20 DEF RumbleThreadStart, At, Goto
<1>21. ASSUME NEW t \in Thread, RumbleThreadFails(t) PROVE LockInv'
  BY <1>21 DEF RumbleThreadFails, At, Failing, Goto
<1>22. ASSUME NEW t \in Thread, IdleStop(t) PROVE LockInv'
  BY <1>22 DEF IdleStop, At, Goto
<1>23. ASSUME NEW t \in Thread, QueueClose(t) PROVE LockInv'
  BY <1>23 DEF QueueClose, At, Goto
<1>24. ASSUME NEW t \in Thread, QueueUnlink(t) PROVE LockInv'
  BY <1>24 DEF QueueUnlink, At, Goto
<1>25. ASSUME NEW t \in Thread, DestroyShared(t) PROVE LockInv'
  BY <1>25 DEF DestroyShared, At, Goto
<1>26. ASSUME NEW t \in Thread, DestroyNothing(t) PROVE LockInv'
  BY <1>26 DEF DestroyNothing, At, Goto
<1>27. ASSUME NEW t \in Thread, MarkBroken(t) PROVE LockInv'
  BY <1>27 DEF MarkBroken, At, Goto
<1>28. ASSUME NEW t \in Thread, ShmUnlink(t) PROVE LockInv'
  BY <1>28 DEF ShmUnlink, At, Goto
<1>29. ASSUME NEW t \in Thread, Unmap(t) PROVE LockInv'
  BY <1>29 DEF Unmap, At, Goto
<1>30. ASSUME NEW t \in Thread, LockRelease(t) PROVE LockInv'
  BY <1>30 DEF LockRelease, At, Goto
<1>31. ASSUME NEW t \in Thread, LockClose(t) PROVE LockInv'
  BY <1>31 DEF LockClose, At, Goto
<1>32. ASSUME NEW t \in Thread, PokeOpen(t) PROVE LockInv'
  BY <1>32 DEF PokeOpen, At, Goto
<1>33. ASSUME NEW t \in Thread, PokeOpenFails(t) PROVE LockInv'
  BY <1>33 DEF PokeOpenFails, At, Failing, Goto
<1>34. ASSUME NEW t \in Thread, PokeWait(t) PROVE LockInv'
  BY <1>34 DEF PokeWait, At
<1>35. ASSUME NEW t \in Thread, PokeRead(t) PROVE LockInv'
  BY <1>35 DEF PokeRead, At, Goto
<1>36. ASSUME NEW t \in Thread, PokeDead(t) PROVE LockInv'
  BY <1>36 DEF PokeDead, At, Goto
<1>37. ASSUME NEW t \in Thread, PokeAlive(t) PROVE LockInv'
  BY <1>37 DEF PokeAlive, At, Goto
<1>38. ASSUME NEW t \in Thread, PokeMarkBroken(t) PROVE LockInv'
  BY <1>38 DEF PokeMarkBroken, At, Goto
<1>39. ASSUME NEW t \in Thread, PokeQueueUnlink(t) PROVE LockInv'
  BY <1>39 DEF PokeQueueUnlink, At, Goto
<1>40. ASSUME NEW t \in Thread, PokeShmUnlink(t) PROVE LockInv'
  BY <1>40 DEF PokeShmUnlink, At, Goto
<1>41. ASSUME NEW p \in Proc, Crash(p) PROVE LockInv'
  BY <1>41 DEF Crash, Dies
<1>42. ASSUME NEW t \in Thread, BadAccess(t) PROVE LockInv'
  BY <1>42 DEF BadAccess, At, Dies
<1>43. ASSUME NEW p \in Proc, Reuse(p) PROVE LockInv'
  BY <1>43 DEF Reuse
<1>44. CASE UNCHANGED vars
  BY <1>44 DEF vars
<1>45. ASSUME NEW t \in Thread, QueueUnlinkStaleFails(t) PROVE LockInv'
  BY <1>45 DEF QueueUnlinkStaleFails, At, Failing, Goto
<1>46. ASSUME NEW t \in Thread, QueueUnlinkFails(t) PROVE LockInv'
  BY <1>46 DEF QueueUnlinkFails, At, Failing, Goto
<1>47. ASSUME NEW t \in Thread, ShmUnlinkFails(t) PROVE LockInv'
  BY <1>47 DEF ShmUnlinkFails, At, Failing, Goto
<1>48. ASSUME NEW t \in Thread, PokeQueueUnlinkFails(t) PROVE LockInv'
  BY <1>48 DEF PokeQueueUnlinkFails, At, Failing, Goto
<1>49. ASSUME NEW t \in Thread, PokeShmUnlinkFails(t) PROVE LockInv'
  BY <1>49 DEF PokeShmUnlinkFails, At, Failing, Goto
<1>50. QED
  BY <1>1, <1>2, <1>3, <1>4, <1>5, <1>6, <1>7, <1>8, <1>9, <1>10, <1>11,
     <1>12, <1>13, <1>14, <1>15, <1>16, <1>17, <1>18, <1>19, <1>20, <1>21,
     <1>22, <1>23, <1>24, <1>25, <1>26, <1>27, <1>28, <1>29, <1>30, <1>31,
     <1>32, <1>33, <1>34, <1>35, <1>36, <1>37, <1>38, <1>39, <1>40, <1>41,
     <1>42, <1>43, <1>44, <1>45, <1>46, <1>47, <1>48, <1>49
  DEF Next, Step, Fault

\* The lock is with the one thread past flock(), in every reachable state.
THEOREM LockSafe == Spec => [](TypeInv /\ LockInv)
<1>1. Init => TypeInv /\ LockInv
  BY SentinelAssumption, ThreadAssumption, BoundAssumption
  DEF Init, TypeInv, TypeOK, MappingInv, LockInv, PCs, Creating, Poking,
      Serving, Closing, Outside, WithFd
<1>2. QED
  BY <1>1, TypeStep, LockStep, PTL DEF Spec

------------------------------------------------------------------------------
(* The names *)

\* no two threads are past flock(), whatever their processes
Exclusive ==
  \A s, t \in Thread : pc[s] \notin Outside /\ pc[t] \notin Outside => s = t

LEMMA LockExcludes == LockInv => Exclusive
BY OneServerPerProcess DEF LockInv, Exclusive

\* Every step keeps the shared memory and the queue of the thread past flock()
\* under their names, and breaks the pid before it takes the name away.
LEMMA NamesStep == TypeInv /\ LockInv /\ NamesInv /\ [Next]_vars => NamesInv'
<1> SUFFICES ASSUME TypeInv, LockInv, NamesInv, [Next]_vars PROVE NamesInv'
  OBVIOUS
<1>0. Exclusive
  BY LockExcludes
<1> USE SentinelAssumption, ThreadAssumption, OneServerPerProcess
<1> USE DEF TypeInv, TypeOK, MappingInv, Exclusive, NamesInv, CreateInv, SharedInv,
            PokeInv, UnlinkedIsDead, names, globals, locals, PCs, Acquiring,
            Creating, Poking, Serving, Closing, Releasing, Outside
<1>1. ASSUME NEW t \in Thread, Start(t) PROVE NamesInv'
  BY <1>0, <1>1 DEF Start, At, Goto
<1>2. ASSUME NEW t \in Thread, LockAcquire(t) PROVE NamesInv'
  BY <1>0, <1>2 DEF LockAcquire, At, Goto
<1>3. ASSUME NEW t \in Thread, FlockTaken(t) PROVE NamesInv'
  BY <1>0, <1>3 DEF FlockTaken, At, Goto
<1>4. ASSUME NEW t \in Thread, FlockBusy(t) PROVE NamesInv'
  BY <1>0, <1>4 DEF FlockBusy, At, Goto
<1>5. ASSUME NEW t \in Thread, FlockOpenFails(t) PROVE NamesInv'
  BY <1>0, <1>5 DEF FlockOpenFails, At, Failing, Goto
<1>6. ASSUME NEW t \in Thread, SetLockFd(t) PROVE NamesInv'
  BY <1>0, <1>6 DEF SetLockFd, At, Goto
<1>7. ASSUME NEW t \in Thread, NEW g \in Gen, ShmCreate(t, g) PROVE NamesInv'
  BY <1>0, <1>7 DEF ShmCreate, At, Goto
<1>8. ASSUME NEW t \in Thread, ShmExists(t) PROVE NamesInv'
  BY <1>0, <1>8 DEF ShmExists, At, Goto
<1>9. ASSUME NEW t \in Thread, ShmCreateFails(t) PROVE NamesInv'
  BY <1>0, <1>9 DEF ShmCreateFails, At, Failing, Goto
<1>10. ASSUME NEW t \in Thread, Truncate(t) PROVE NamesInv'
  BY <1>0, <1>10 DEF Truncate, At, Goto
<1>11. ASSUME NEW t \in Thread, TruncateFails(t) PROVE NamesInv'
  <2>1. /\ pc[t] = "ftruncate" /\ pc' = [pc EXCEPT ![t] = "destroy"]
        /\ shmName' = None /\ state' = [state EXCEPT ![t] = None]
        /\ UNCHANGED <<sized, master, mqName, shared, mq>>
    BY <1>11 DEF TruncateFails, At, Failing, Goto
  <2>2. \A u \in Thread \ {t} : pc'[u] = pc[u] /\ pc[u] \in Outside
    BY <1>0, <2>1
  <2>3. \A u \in Thread : shared'[ProcOf[u]] = None
    BY <2>1, <2>2
  <2>4. CreateInv' /\ PokeInv'
    BY <2>1, <2>2
  <2>5. SharedInv'
    BY <2>1, <2>2, <2>3
  <2>6. UnlinkedIsDead'
    BY <2>1
  <2>7. QED
    BY <2>4, <2>5, <2>6
<1>12. ASSUME NEW t \in Thread, Clear(t) PROVE NamesInv'
  BY <1>0, <1>12 DEF Clear, At, Goto
<1>13. ASSUME NEW t \in Thread, NEW q \in Queue, QueueCreate(t, q) PROVE NamesInv'
  BY <1>0, <1>13 DEF QueueCreate, At, Goto
<1>14. ASSUME NEW t \in Thread, QueueExists(t) PROVE NamesInv'
  BY <1>0, <1>14 DEF QueueExists, At, Goto
<1>15. ASSUME NEW t \in Thread, QueueUnlinkStale(t) PROVE NamesInv'
  BY <1>0, <1>15 DEF QueueUnlinkStale, At, Goto
<1>16. ASSUME NEW t \in Thread, QueueCreateFails(t) PROVE NamesInv'
  BY <1>0, <1>16 DEF QueueCreateFails, At, Failing, Goto
<1>17. ASSUME NEW t \in Thread, QueueStillExists(t) PROVE NamesInv'
  BY <1>0, <1>17 DEF QueueStillExists, At, Goto
<1>18. ASSUME NEW t \in Thread, Publish(t) PROVE NamesInv'
  BY <1>0, <1>18 DEF Publish, At, Goto
<1>19. ASSUME NEW t \in Thread, Run(t) PROVE NamesInv'
  BY <1>0, <1>19 DEF Run, At, Goto
<1>20. ASSUME NEW t \in Thread, RumbleThreadStart(t) PROVE NamesInv'
  BY <1>0, <1>20 DEF RumbleThreadStart, At, Goto
<1>21. ASSUME NEW t \in Thread, RumbleThreadFails(t) PROVE NamesInv'
  BY <1>0, <1>21 DEF RumbleThreadFails, At, Failing, Goto
<1>22. ASSUME NEW t \in Thread, IdleStop(t) PROVE NamesInv'
  BY <1>0, <1>22 DEF IdleStop, At, Goto
<1>23. ASSUME NEW t \in Thread, QueueClose(t) PROVE NamesInv'
  BY <1>0, <1>23 DEF QueueClose, At, Goto
<1>24. ASSUME NEW t \in Thread, QueueUnlink(t) PROVE NamesInv'
  BY <1>0, <1>24 DEF QueueUnlink, At, Goto
<1>25. ASSUME NEW t \in Thread, DestroyShared(t) PROVE NamesInv'
  BY <1>0, <1>25 DEF DestroyShared, At, Goto
<1>26. ASSUME NEW t \in Thread, DestroyNothing(t) PROVE NamesInv'
  BY <1>0, <1>26 DEF DestroyNothing, At, Goto
<1>27. ASSUME NEW t \in Thread, MarkBroken(t) PROVE NamesInv'
  BY <1>0, <1>27 DEF MarkBroken, At, Goto
<1>28. ASSUME NEW t \in Thread, ShmUnlink(t) PROVE NamesInv'
  BY <1>0, <1>28 DEF ShmUnlink, At, Goto
<1>29. ASSUME NEW t \in Thread, Unmap(t) PROVE NamesInv'
  BY <1>0, <1>29 DEF Unmap, At, Goto
<1>30. ASSUME NEW t \in Thread, LockRelease(t) PROVE NamesInv'
  BY <1>0, <1>30 DEF LockRelease, At, Goto
<1>31. ASSUME NEW t \in Thread, LockClose(t) PROVE NamesInv'
  BY <1>0, <1>31 DEF LockClose, At, Goto
<1>32. ASSUME NEW t \in Thread, PokeOpen(t) PROVE NamesInv'
  BY <1>0, <1>32 DEF PokeOpen, At, Goto
<1>33. ASSUME NEW t \in Thread, PokeOpenFails(t) PROVE NamesInv'
  BY <1>0, <1>33 DEF PokeOpenFails, At, Failing, Goto
<1>34. ASSUME NEW t \in Thread, PokeWait(t) PROVE NamesInv'
  BY <1>0, <1>34 DEF PokeWait, At
<1>35. ASSUME NEW t \in Thread, PokeRead(t) PROVE NamesInv'
  BY <1>0, <1>35 DEF PokeRead, At, Goto
<1>36. ASSUME NEW t \in Thread, PokeDead(t) PROVE NamesInv'
  BY <1>0, <1>36 DEF PokeDead, At, Goto
<1>37. ASSUME NEW t \in Thread, PokeAlive(t) PROVE NamesInv'
  BY <1>0, <1>37 DEF PokeAlive, At, Goto
<1>38. ASSUME NEW t \in Thread, PokeMarkBroken(t) PROVE NamesInv'
  BY <1>0, <1>38 DEF PokeMarkBroken, At, Goto
<1>39. ASSUME NEW t \in Thread, PokeQueueUnlink(t) PROVE NamesInv'
  BY <1>0, <1>39 DEF PokeQueueUnlink, At, Goto
<1>40. ASSUME NEW t \in Thread, PokeShmUnlink(t) PROVE NamesInv'
  BY <1>0, <1>40 DEF PokeShmUnlink, At, Goto
<1>41. ASSUME NEW p \in Proc, Crash(p) PROVE NamesInv'
  BY <1>0, <1>41 DEF Crash, Dies
<1>42. ASSUME NEW t \in Thread, BadAccess(t) PROVE NamesInv'
  BY <1>0, <1>42 DEF BadAccess, At, Dies
<1>43. ASSUME NEW p \in Proc, Reuse(p) PROVE NamesInv'
  BY <1>0, <1>43 DEF Reuse
<1>44. CASE UNCHANGED vars
  BY <1>44 DEF vars
<1>45. ASSUME NEW t \in Thread, QueueUnlinkStaleFails(t) PROVE NamesInv'
  BY <1>0, <1>45 DEF QueueUnlinkStaleFails, At, Failing, Goto
<1>46. ASSUME NEW t \in Thread, QueueUnlinkFails(t) PROVE NamesInv'
  BY <1>0, <1>46 DEF QueueUnlinkFails, At, Failing, Goto
<1>47. ASSUME NEW t \in Thread, ShmUnlinkFails(t) PROVE NamesInv'
  BY <1>0, <1>47 DEF ShmUnlinkFails, At, Failing, Goto
<1>48. ASSUME NEW t \in Thread, PokeQueueUnlinkFails(t) PROVE NamesInv'
  BY <1>0, <1>48 DEF PokeQueueUnlinkFails, At, Failing, Goto
<1>49. ASSUME NEW t \in Thread, PokeShmUnlinkFails(t) PROVE NamesInv'
  BY <1>0, <1>49 DEF PokeShmUnlinkFails, At, Failing, Goto
<1>50. QED
  BY <1>1, <1>2, <1>3, <1>4, <1>5, <1>6, <1>7, <1>8, <1>9, <1>10, <1>11,
     <1>12, <1>13, <1>14, <1>15, <1>16, <1>17, <1>18, <1>19, <1>20, <1>21,
     <1>22, <1>23, <1>24, <1>25, <1>26, <1>27, <1>28, <1>29, <1>30, <1>31,
     <1>32, <1>33, <1>34, <1>35, <1>36, <1>37, <1>38, <1>39, <1>40, <1>41,
     <1>42, <1>43, <1>44, <1>45, <1>46, <1>47, <1>48, <1>49
  DEF Next, Step, Fault

\* The whole invariant, in every reachable state.
THEOREM NamesSafe == Spec => [](TypeInv /\ LockInv /\ NamesInv)
<1>1. Init => TypeInv /\ LockInv /\ NamesInv
  BY SentinelAssumption, ThreadAssumption, BoundAssumption
  DEF Init, TypeInv, TypeOK, MappingInv, LockInv, NamesInv, CreateInv,
      SharedInv, PokeInv, UnlinkedIsDead, PCs, Creating, Poking, Serving,
      Closing, Outside, WithFd
<1>2. QED
  BY <1>1, TypeStep, LockStep, NamesStep, PTL DEF Spec

------------------------------------------------------------------------------
(* The promises *)

\* At most one server is at work, whoever crashes and whatever call fails
\* (xinput_service_server(): the lock is what excludes the others).
THEOREM OneServiceHolds == Spec => []OneService
<1>1. LockInv => OneService
  BY LockExcludes DEF Exclusive, OneService, Owners, Serving, Outside
<1>2. QED
  BY <1>1, LockSafe, PTL

\* A running server is always the one its names lead to: nothing another
\* process does in create(), poke() or destroy() takes them away.
THEOREM LiveServiceReachableHolds == Spec => []LiveServiceReachable
<1>1. TypeInv /\ LockInv /\ NamesInv => LiveServiceReachable
  BY ThreadAssumption
  DEF TypeInv, TypeOK, NamesInv, CreateInv, SharedInv, LiveServiceReachable,
      Serving
<1>2. QED
  BY <1>1, NamesSafe, PTL

\* Shared memory that lost its name has no live owner written in it, so a
\* client that still maps it finds it dead.
THEOREM UnlinkedIsDeadHolds == Spec => []UnlinkedIsDead
<1>1. NamesInv => UnlinkedIsDead
  BY DEF NamesInv
<1>2. QED
  BY <1>1, NamesSafe, PTL

\* The flock never stays with a process that has left the server.
THEOREM LockNotLeakedHolds == Spec => []LockNotLeaked
<1>1. TypeInv /\ LockInv => LockNotLeaked
  BY SentinelAssumption, ThreadAssumption
  DEF TypeInv, TypeOK, LockInv, LockNotLeaked, Outside
<1>2. QED
  BY <1>1, LockSafe, PTL

\* Every step that changes a name, a size or a pid is the lock holder's.
LEMMA HolderStep ==
  ASSUME TypeInv, LockInv, [Next]_vars, names' # names
  PROVE  \E t \in Thread : ProcOf[t] = lockOwner /\ pc'[t] # pc[t]
<1> DEFINE Holder == \E t \in Thread : ProcOf[t] = lockOwner /\ pc'[t] # pc[t]
<1> USE SentinelAssumption, ThreadAssumption
<1> USE DEF TypeInv, TypeOK, LockInv, names, globals, locals, Outside
<1>1. ASSUME NEW t \in Thread, Start(t) PROVE Holder
  BY <1>1 DEF Start, At, Goto
<1>2. ASSUME NEW t \in Thread, LockAcquire(t) PROVE Holder
  BY <1>2 DEF LockAcquire, At, Goto
<1>3. ASSUME NEW t \in Thread, FlockTaken(t) PROVE Holder
  BY <1>3 DEF FlockTaken, At, Goto
<1>4. ASSUME NEW t \in Thread, FlockBusy(t) PROVE Holder
  BY <1>4 DEF FlockBusy, At, Goto
<1>5. ASSUME NEW t \in Thread, FlockOpenFails(t) PROVE Holder
  BY <1>5 DEF FlockOpenFails, At, Failing, Goto
<1>6. ASSUME NEW t \in Thread, SetLockFd(t) PROVE Holder
  BY <1>6 DEF SetLockFd, At, Goto
<1>7. ASSUME NEW t \in Thread, NEW g \in Gen, ShmCreate(t, g) PROVE Holder
  BY <1>7 DEF ShmCreate, At, Goto
<1>8. ASSUME NEW t \in Thread, ShmExists(t) PROVE Holder
  BY <1>8 DEF ShmExists, At, Goto
<1>9. ASSUME NEW t \in Thread, ShmCreateFails(t) PROVE Holder
  BY <1>9 DEF ShmCreateFails, At, Failing, Goto
<1>10. ASSUME NEW t \in Thread, Truncate(t) PROVE Holder
  BY <1>10 DEF Truncate, At, Goto
<1>11. ASSUME NEW t \in Thread, TruncateFails(t) PROVE Holder
  BY <1>11 DEF TruncateFails, At, Failing, Goto
<1>12. ASSUME NEW t \in Thread, Clear(t) PROVE Holder
  BY <1>12 DEF Clear, At, Goto
<1>13. ASSUME NEW t \in Thread, NEW q \in Queue, QueueCreate(t, q) PROVE Holder
  BY <1>13 DEF QueueCreate, At, Goto
<1>14. ASSUME NEW t \in Thread, QueueExists(t) PROVE Holder
  BY <1>14 DEF QueueExists, At, Goto
<1>15. ASSUME NEW t \in Thread, QueueUnlinkStale(t) PROVE Holder
  BY <1>15 DEF QueueUnlinkStale, At, Goto
<1>16. ASSUME NEW t \in Thread, QueueCreateFails(t) PROVE Holder
  BY <1>16 DEF QueueCreateFails, At, Failing, Goto
<1>17. ASSUME NEW t \in Thread, QueueStillExists(t) PROVE Holder
  BY <1>17 DEF QueueStillExists, At, Goto
<1>18. ASSUME NEW t \in Thread, Publish(t) PROVE Holder
  BY <1>18 DEF Publish, At, Goto
<1>19. ASSUME NEW t \in Thread, Run(t) PROVE Holder
  BY <1>19 DEF Run, At, Goto
<1>20. ASSUME NEW t \in Thread, RumbleThreadStart(t) PROVE Holder
  BY <1>20 DEF RumbleThreadStart, At, Goto
<1>21. ASSUME NEW t \in Thread, RumbleThreadFails(t) PROVE Holder
  BY <1>21 DEF RumbleThreadFails, At, Failing, Goto
<1>22. ASSUME NEW t \in Thread, IdleStop(t) PROVE Holder
  BY <1>22 DEF IdleStop, At, Goto
<1>23. ASSUME NEW t \in Thread, QueueClose(t) PROVE Holder
  BY <1>23 DEF QueueClose, At, Goto
<1>24. ASSUME NEW t \in Thread, QueueUnlink(t) PROVE Holder
  BY <1>24 DEF QueueUnlink, At, Goto
<1>25. ASSUME NEW t \in Thread, DestroyShared(t) PROVE Holder
  BY <1>25 DEF DestroyShared, At, Goto
<1>26. ASSUME NEW t \in Thread, DestroyNothing(t) PROVE Holder
  BY <1>26 DEF DestroyNothing, At, Goto
<1>27. ASSUME NEW t \in Thread, MarkBroken(t) PROVE Holder
  BY <1>27 DEF MarkBroken, At, Goto
<1>28. ASSUME NEW t \in Thread, ShmUnlink(t) PROVE Holder
  BY <1>28 DEF ShmUnlink, At, Goto
<1>29. ASSUME NEW t \in Thread, Unmap(t) PROVE Holder
  BY <1>29 DEF Unmap, At, Goto
<1>30. ASSUME NEW t \in Thread, LockRelease(t) PROVE Holder
  BY <1>30 DEF LockRelease, At, Goto
<1>31. ASSUME NEW t \in Thread, LockClose(t) PROVE Holder
  BY <1>31 DEF LockClose, At, Goto
<1>32. ASSUME NEW t \in Thread, PokeOpen(t) PROVE Holder
  BY <1>32 DEF PokeOpen, At, Goto
<1>33. ASSUME NEW t \in Thread, PokeOpenFails(t) PROVE Holder
  BY <1>33 DEF PokeOpenFails, At, Failing, Goto
<1>34. ASSUME NEW t \in Thread, PokeWait(t) PROVE Holder
  BY <1>34 DEF PokeWait, At
<1>35. ASSUME NEW t \in Thread, PokeRead(t) PROVE Holder
  BY <1>35 DEF PokeRead, At, Goto
<1>36. ASSUME NEW t \in Thread, PokeDead(t) PROVE Holder
  BY <1>36 DEF PokeDead, At, Goto
<1>37. ASSUME NEW t \in Thread, PokeAlive(t) PROVE Holder
  BY <1>37 DEF PokeAlive, At, Goto
<1>38. ASSUME NEW t \in Thread, PokeMarkBroken(t) PROVE Holder
  BY <1>38 DEF PokeMarkBroken, At, Goto
<1>39. ASSUME NEW t \in Thread, PokeQueueUnlink(t) PROVE Holder
  BY <1>39 DEF PokeQueueUnlink, At, Goto
<1>40. ASSUME NEW t \in Thread, PokeShmUnlink(t) PROVE Holder
  BY <1>40 DEF PokeShmUnlink, At, Goto
<1>41. ASSUME NEW p \in Proc, Crash(p) PROVE Holder
  BY <1>41 DEF Crash, Dies
<1>42. ASSUME NEW t \in Thread, BadAccess(t) PROVE Holder
  BY <1>42 DEF BadAccess, At, Dies
<1>43. ASSUME NEW p \in Proc, Reuse(p) PROVE Holder
  BY <1>43 DEF Reuse
<1>44. CASE UNCHANGED vars
  BY <1>44 DEF vars
<1>45. ASSUME NEW t \in Thread, QueueUnlinkStaleFails(t) PROVE Holder
  BY <1>45 DEF QueueUnlinkStaleFails, At, Failing, Goto
<1>46. ASSUME NEW t \in Thread, QueueUnlinkFails(t) PROVE Holder
  BY <1>46 DEF QueueUnlinkFails, At, Failing, Goto
<1>47. ASSUME NEW t \in Thread, ShmUnlinkFails(t) PROVE Holder
  BY <1>47 DEF ShmUnlinkFails, At, Failing, Goto
<1>48. ASSUME NEW t \in Thread, PokeQueueUnlinkFails(t) PROVE Holder
  BY <1>48 DEF PokeQueueUnlinkFails, At, Failing, Goto
<1>49. ASSUME NEW t \in Thread, PokeShmUnlinkFails(t) PROVE Holder
  BY <1>49 DEF PokeShmUnlinkFails, At, Failing, Goto
<1>50. QED
  BY <1>1, <1>2, <1>3, <1>4, <1>5, <1>6, <1>7, <1>8, <1>9, <1>10, <1>11,
     <1>12, <1>13, <1>14, <1>15, <1>16, <1>17, <1>18, <1>19, <1>20, <1>21,
     <1>22, <1>23, <1>24, <1>25, <1>26, <1>27, <1>28, <1>29, <1>30, <1>31,
     <1>32, <1>33, <1>34, <1>35, <1>36, <1>37, <1>38, <1>39, <1>40, <1>41,
     <1>42, <1>43, <1>44, <1>45, <1>46, <1>47, <1>48, <1>49
  DEF Next, Step, Fault

\* Names and pids change at the lock holder's hand only.
THEOREM OnlyLockHolderChangesNamesHolds == Spec => OnlyLockHolderChangesNames
<1> DEFINE ByHolder ==
      names' # names => \E t \in Thread : ProcOf[t] = lockOwner /\ pc'[t] # pc[t]
<1>1. TypeInv /\ LockInv /\ [Next]_vars => [ByHolder]_vars
  BY HolderStep DEF ByHolder
<1>2. QED
  BY <1>1, LockSafe, PTL DEF Spec, OnlyLockHolderChangesNames, ByHolder

------------------------------------------------------------------------------
(* The queue *)

\* Every step keeps the order of the two names: the queue is made after the
\* shared memory and removed before it.
LEMMA QueueStep ==
  TypeInv /\ LockInv /\ NamesInv /\ FreshQueueInv /\ [Next]_vars => FreshQueueInv'
<1> SUFFICES ASSUME TypeInv, LockInv, NamesInv, FreshQueueInv, [Next]_vars,
                    ~StaleQueue, "mq_unlink" \notin Fails
             PROVE  FreshQueueInv'
  BY DEF FreshQueueInv
<1>0. Exclusive
  BY LockExcludes
<1> USE SentinelAssumption, ThreadAssumption, OneServerPerProcess
<1> USE DEF TypeInv, TypeOK, MappingInv, Exclusive, NamesInv, CreateInv, SharedInv,
            PokeInv, FreshQueueInv, QueueInv, Building, QueueHasShm, names, globals, locals,
            PCs, Acquiring, Creating, Poking, Serving, Closing, Releasing, Outside
<1>1. ASSUME NEW t \in Thread, Start(t) PROVE FreshQueueInv'
  BY <1>0, <1>1 DEF Start, At, Goto
<1>2. ASSUME NEW t \in Thread, LockAcquire(t) PROVE FreshQueueInv'
  BY <1>0, <1>2 DEF LockAcquire, At, Goto
<1>3. ASSUME NEW t \in Thread, FlockTaken(t) PROVE FreshQueueInv'
  BY <1>0, <1>3 DEF FlockTaken, At, Goto
<1>4. ASSUME NEW t \in Thread, FlockBusy(t) PROVE FreshQueueInv'
  BY <1>0, <1>4 DEF FlockBusy, At, Goto
<1>5. ASSUME NEW t \in Thread, FlockOpenFails(t) PROVE FreshQueueInv'
  BY <1>0, <1>5 DEF FlockOpenFails, At, Failing, Goto
<1>6. ASSUME NEW t \in Thread, SetLockFd(t) PROVE FreshQueueInv'
  BY <1>0, <1>6 DEF SetLockFd, At, Goto
<1>7. ASSUME NEW t \in Thread, NEW g \in Gen, ShmCreate(t, g) PROVE FreshQueueInv'
  BY <1>0, <1>7 DEF ShmCreate, At, Goto
<1>8. ASSUME NEW t \in Thread, ShmExists(t) PROVE FreshQueueInv'
  BY <1>0, <1>8 DEF ShmExists, At, Goto
<1>9. ASSUME NEW t \in Thread, ShmCreateFails(t) PROVE FreshQueueInv'
  BY <1>0, <1>9 DEF ShmCreateFails, At, Failing, Goto
<1>10. ASSUME NEW t \in Thread, Truncate(t) PROVE FreshQueueInv'
  BY <1>0, <1>10 DEF Truncate, At, Goto
<1>11. ASSUME NEW t \in Thread, TruncateFails(t) PROVE FreshQueueInv'
  BY <1>0, <1>11 DEF TruncateFails, At, Failing, Goto
<1>12. ASSUME NEW t \in Thread, Clear(t) PROVE FreshQueueInv'
  BY <1>0, <1>12 DEF Clear, At, Goto
<1>13. ASSUME NEW t \in Thread, NEW q \in Queue, QueueCreate(t, q) PROVE FreshQueueInv'
  BY <1>0, <1>13 DEF QueueCreate, At, Goto
<1>14. ASSUME NEW t \in Thread, QueueExists(t) PROVE FreshQueueInv'
  BY <1>0, <1>14 DEF QueueExists, At, Goto
<1>15. ASSUME NEW t \in Thread, QueueUnlinkStale(t) PROVE FreshQueueInv'
  BY <1>0, <1>15 DEF QueueUnlinkStale, At, Goto
<1>16. ASSUME NEW t \in Thread, QueueCreateFails(t) PROVE FreshQueueInv'
  BY <1>0, <1>16 DEF QueueCreateFails, At, Failing, Goto
<1>17. ASSUME NEW t \in Thread, QueueStillExists(t) PROVE FreshQueueInv'
  BY <1>0, <1>17 DEF QueueStillExists, At, Goto
<1>18. ASSUME NEW t \in Thread, Publish(t) PROVE FreshQueueInv'
  BY <1>0, <1>18 DEF Publish, At, Goto
<1>19. ASSUME NEW t \in Thread, Run(t) PROVE FreshQueueInv'
  BY <1>0, <1>19 DEF Run, At, Goto
<1>20. ASSUME NEW t \in Thread, RumbleThreadStart(t) PROVE FreshQueueInv'
  BY <1>0, <1>20 DEF RumbleThreadStart, At, Goto
<1>21. ASSUME NEW t \in Thread, RumbleThreadFails(t) PROVE FreshQueueInv'
  BY <1>0, <1>21 DEF RumbleThreadFails, At, Failing, Goto
<1>22. ASSUME NEW t \in Thread, IdleStop(t) PROVE FreshQueueInv'
  BY <1>0, <1>22 DEF IdleStop, At, Goto
<1>23. ASSUME NEW t \in Thread, QueueClose(t) PROVE FreshQueueInv'
  BY <1>0, <1>23 DEF QueueClose, At, Goto
<1>24. ASSUME NEW t \in Thread, QueueUnlink(t) PROVE FreshQueueInv'
  BY <1>0, <1>24 DEF QueueUnlink, At, Goto
<1>25. ASSUME NEW t \in Thread, DestroyShared(t) PROVE FreshQueueInv'
  BY <1>0, <1>25 DEF DestroyShared, At, Goto
<1>26. ASSUME NEW t \in Thread, DestroyNothing(t) PROVE FreshQueueInv'
  BY <1>0, <1>26 DEF DestroyNothing, At, Goto
<1>27. ASSUME NEW t \in Thread, MarkBroken(t) PROVE FreshQueueInv'
  BY <1>0, <1>27 DEF MarkBroken, At, Goto
<1>28. ASSUME NEW t \in Thread, ShmUnlink(t) PROVE FreshQueueInv'
  BY <1>0, <1>28 DEF ShmUnlink, At, Goto
<1>29. ASSUME NEW t \in Thread, Unmap(t) PROVE FreshQueueInv'
  BY <1>0, <1>29 DEF Unmap, At, Goto
<1>30. ASSUME NEW t \in Thread, LockRelease(t) PROVE FreshQueueInv'
  BY <1>0, <1>30 DEF LockRelease, At, Goto
<1>31. ASSUME NEW t \in Thread, LockClose(t) PROVE FreshQueueInv'
  BY <1>0, <1>31 DEF LockClose, At, Goto
<1>32. ASSUME NEW t \in Thread, PokeOpen(t) PROVE FreshQueueInv'
  BY <1>0, <1>32 DEF PokeOpen, At, Goto
<1>33. ASSUME NEW t \in Thread, PokeOpenFails(t) PROVE FreshQueueInv'
  BY <1>0, <1>33 DEF PokeOpenFails, At, Failing, Goto
<1>34. ASSUME NEW t \in Thread, PokeWait(t) PROVE FreshQueueInv'
  BY <1>0, <1>34 DEF PokeWait, At
<1>35. ASSUME NEW t \in Thread, PokeRead(t) PROVE FreshQueueInv'
  BY <1>0, <1>35 DEF PokeRead, At, Goto
<1>36. ASSUME NEW t \in Thread, PokeDead(t) PROVE FreshQueueInv'
  BY <1>0, <1>36 DEF PokeDead, At, Goto
<1>37. ASSUME NEW t \in Thread, PokeAlive(t) PROVE FreshQueueInv'
  BY <1>0, <1>37 DEF PokeAlive, At, Goto
<1>38. ASSUME NEW t \in Thread, PokeMarkBroken(t) PROVE FreshQueueInv'
  BY <1>0, <1>38 DEF PokeMarkBroken, At, Goto
<1>39. ASSUME NEW t \in Thread, PokeQueueUnlink(t) PROVE FreshQueueInv'
  BY <1>0, <1>39 DEF PokeQueueUnlink, At, Goto
<1>40. ASSUME NEW t \in Thread, PokeShmUnlink(t) PROVE FreshQueueInv'
  BY <1>0, <1>40 DEF PokeShmUnlink, At, Goto
<1>41. ASSUME NEW p \in Proc, Crash(p) PROVE FreshQueueInv'
  BY <1>0, <1>41 DEF Crash, Dies
<1>42. ASSUME NEW t \in Thread, BadAccess(t) PROVE FreshQueueInv'
  BY <1>0, <1>42 DEF BadAccess, At, Dies
<1>43. ASSUME NEW p \in Proc, Reuse(p) PROVE FreshQueueInv'
  BY <1>0, <1>43 DEF Reuse
<1>44. CASE UNCHANGED vars
  BY <1>44 DEF vars
<1>45. ASSUME NEW t \in Thread, QueueUnlinkStaleFails(t) PROVE FreshQueueInv'
  BY <1>0, <1>45 DEF QueueUnlinkStaleFails, At, Failing, Goto
<1>46. ASSUME NEW t \in Thread, QueueUnlinkFails(t) PROVE FreshQueueInv'
  BY <1>0, <1>46 DEF QueueUnlinkFails, At, Failing, Goto
<1>47. ASSUME NEW t \in Thread, ShmUnlinkFails(t) PROVE FreshQueueInv'
  BY <1>0, <1>47 DEF ShmUnlinkFails, At, Failing, Goto
<1>48. ASSUME NEW t \in Thread, PokeQueueUnlinkFails(t) PROVE FreshQueueInv'
  BY <1>0, <1>48 DEF PokeQueueUnlinkFails, At, Failing, Goto
<1>49. ASSUME NEW t \in Thread, PokeShmUnlinkFails(t) PROVE FreshQueueInv'
  BY <1>0, <1>49 DEF PokeShmUnlinkFails, At, Failing, Goto
<1>50. QED
  BY <1>1, <1>2, <1>3, <1>4, <1>5, <1>6, <1>7, <1>8, <1>9, <1>10, <1>11,
     <1>12, <1>13, <1>14, <1>15, <1>16, <1>17, <1>18, <1>19, <1>20, <1>21,
     <1>22, <1>23, <1>24, <1>25, <1>26, <1>27, <1>28, <1>29, <1>30, <1>31,
     <1>32, <1>33, <1>34, <1>35, <1>36, <1>37, <1>38, <1>39, <1>40, <1>41,
     <1>42, <1>43, <1>44, <1>45, <1>46, <1>47, <1>48, <1>49
  DEF Next, Step, Fault

\* With no queue left over from before, and none that cannot be unlinked, there
\* is never a queue without shared memory: create() does not find one that
\* exists.
THEOREM QueueHasShmHolds ==
  ASSUME ~StaleQueue, "mq_unlink" \notin Fails
  PROVE  Spec => []QueueHasShm
<1>1. Init => FreshQueueInv
  BY DEF Init, FreshQueueInv, QueueHasShm, QueueInv, Building
<1>2. FreshQueueInv => QueueHasShm
  BY DEF FreshQueueInv
<1>3. QED
  BY <1>1, <1>2, NamesSafe, QueueStep, PTL DEF Spec

==============================================================================
