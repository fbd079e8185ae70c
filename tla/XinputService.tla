---------------------------- MODULE XinputService ----------------------------
(***************************************************************************)
(* The life cycle of the xinput service (src/src/xinput_service.c): taking *)
(* the system-wide lock, creating the shared memory and the message queue, *)
(* publishing the owner's pid, serving, tearing everything down, and       *)
(* reclaiming what a dead server left behind.                              *)
(*                                                                         *)
(* Every action is the code between two system calls whose effect another  *)
(* process can see.  A shared memory object is a generation: the name can  *)
(* be unlinked and created anew while processes still map the old object.  *)
(* A generation nobody links or maps is free and may be used again.        *)
(*                                                                         *)
(* The gamepads (driver, reader and rumble threads) are in XinputDevices,  *)
(* the activity clock poke_us is in XinputIdle, the clients are in         *)
(* XinputClient.                                                           *)
(***************************************************************************)
EXTENDS Naturals, FiniteSets

CONSTANTS
  Proc,        \* processes, named by their pids
  Thread,      \* threads that execute xinput_service_server()
  ProcOf,      \* the process of each such thread
  Gen,         \* identities of shared memory objects
  Queue,       \* identities of message queues
  None,        \* no object, no lock holder, no pid
  Unset,       \* master_pid = 0
  Broken,      \* master_pid = XINPUT_OWNER_BROKEN
  Tries,       \* times a pid that is still 0 is read before giving up
  Fails,       \* system calls that may fail
  CrashAt,     \* control points at which a process may be killed
  MaxFault,    \* bound on the failures and crashes of a behaviour
  IdleStops,   \* processes whose service stops when idle (strikes > 0)
  StaleQueue,  \* a queue of that name may exist at the start
  PidReuse     \* the pid of a dead process may be given to another one

ASSUME SentinelAssumption ==
  /\ None \notin Proc \cup Gen \cup Queue
  /\ Unset \notin Proc \cup {None, Broken}
  /\ Broken \notin Proc \cup {None, Unset}

ASSUME ThreadAssumption == ProcOf \in [Thread -> Proc]

ASSUME BoundAssumption == Tries \in Nat \ {0} /\ MaxFault \in Nat

VARIABLES
  alive,       \* processes that exist: kill(pid, 0) succeeds for them
  lockOwner,   \* the process holding flock() on the lock file
  lockFd,      \* per process: xinput_service_lock_fd >= 0
  shmName,     \* the generation SERVICE_SHM_NAME names
  sized,       \* per generation: ftruncate() has been called
  master,      \* per generation: master_pid
  mqName,      \* the queue SERVICE_MSG_NAME names
  shared,      \* per process: the generation service_shared points to
  mq,          \* per process: service_mq
  pc,          \* per thread: where it is
  state,       \* per thread: the local mapping in create() or poke()
  tries,       \* per thread: reads of master_pid left in poke()
  pid,         \* per thread: the pid poke() has read
  again,       \* per thread: destroy() was called below server(), which
               \* calls it once more
  faults       \* failures and crashes so far

names    == <<shmName, sized, master, mqName>>
globals  == <<lockFd, shared, mq>>
locals   == <<state, tries, pid, again>>
vars     == <<alive, lockOwner, names, globals, locals, pc, faults>>

\* control points: the call about to be made, in the order of the code
Acquiring == {"acquire", "flock"}
Creating  == {"create", "ftruncate", "memset", "queue", "mqclear", "requeue",
              "publish"}
Poking    == {"poke", "wait", "judge", "pbroken", "pmq", "pshm"}
Serving   == {"run", "rumble", "service"}
Closing   == {"destroy", "mqdrop", "dshm", "mark", "unlink", "unmap"}
Releasing == {"release", "closefd"}
PCs == {"idle", "setfd"} \cup Acquiring \cup Creating \cup Poking \cup Serving
         \cup Closing \cup Releasing

TypeOK ==
  /\ alive \subseteq Proc
  /\ lockOwner \in Proc \cup {None}
  /\ lockFd \in [Proc -> BOOLEAN]
  /\ shmName \in Gen \cup {None}
  /\ sized \in [Gen -> BOOLEAN]
  /\ master \in [Gen -> Proc \cup {Unset, Broken}]
  /\ mqName \in Queue \cup {None}
  /\ shared \in [Proc -> Gen \cup {None}]
  /\ mq \in [Proc -> Queue \cup {None}]
  /\ pc \in [Thread -> PCs]
  /\ state \in [Thread -> Gen \cup {None}]
  /\ tries \in [Thread -> 0..Tries]
  /\ pid \in [Thread -> Proc \cup {Unset, Broken}]
  /\ again \in [Thread -> BOOLEAN]
  /\ faults \in 0..MaxFault

Init ==
  /\ alive = Proc
  /\ lockOwner = None
  /\ lockFd = [p \in Proc |-> FALSE]
  /\ shmName = None
  /\ sized = [g \in Gen |-> FALSE]
  /\ master = [g \in Gen |-> Unset]
  /\ \/ mqName = None
     \/ StaleQueue /\ mqName \in Queue
  /\ shared = [p \in Proc |-> None]
  /\ mq = [p \in Proc |-> None]
  /\ pc = [t \in Thread |-> "idle"]
  /\ state = [t \in Thread |-> None]
  /\ tries = [t \in Thread |-> 0]
  /\ pid = [t \in Thread |-> Unset]
  /\ again = [t \in Thread |-> FALSE]
  /\ faults = 0

------------------------------------------------------------------------------
At(t, c) == pc[t] = c /\ ProcOf[t] \in alive
Goto(t, c) == pc' = [pc EXCEPT ![t] = c]

\* a system call of thread t fails and t goes on at c
Failing(t, call, c) ==
  /\ call \in Fails
  /\ faults < MaxFault
  /\ faults' = faults + 1
  /\ Goto(t, c)

FreeGen(g) == g # shmName /\ (\A p \in Proc : shared[p] # g)
                          /\ (\A t \in Thread : state[t] # g)
FreeQueue(q) == q # mqName /\ \A p \in Proc : mq[p] # q

------------------------------------------------------------------------------
(* xinput_service_server() and xinput_service_lock_acquire() *)

\* the daemon's main(), rundll() or XInputServer enters the server
Start(t) ==
  /\ At(t, "idle")
  /\ Goto(t, "acquire")
  /\ UNCHANGED <<alive, lockOwner, names, globals, locals, faults>>

\* mutant: the process's descriptor is looked at, the file is not locked
LockAcquireUnlocked(t) ==
  /\ At(t, "acquire")
  /\ Goto(t, "create")
  /\ UNCHANGED <<alive, lockOwner, names, globals, locals, faults>>

\* the mutex protects only this look at the process's descriptor
LockAcquire(t) ==
  /\ At(t, "acquire")
  /\ Goto(t, IF lockFd[ProcOf[t]] THEN "create" ELSE "flock")
  /\ UNCHANGED <<alive, lockOwner, names, globals, locals, faults>>

\* mutant: LOCK_SH instead of LOCK_EX
FlockTakenShared(t) ==
  /\ At(t, "flock")
  /\ lockOwner' = ProcOf[t]
  /\ Goto(t, "setfd")
  /\ UNCHANGED <<alive, names, globals, locals, faults>>

FlockTaken(t) ==
  /\ At(t, "flock")
  /\ lockOwner = None
  /\ lockOwner' = ProcOf[t]
  /\ Goto(t, "setfd")
  /\ UNCHANGED <<alive, names, globals, locals, faults>>

FlockBusy(t) ==
  /\ At(t, "flock")
  /\ lockOwner # None
  /\ Goto(t, "idle")
  /\ UNCHANGED <<alive, lockOwner, names, globals, locals, faults>>

FlockOpenFails(t) ==
  /\ At(t, "flock")
  /\ Failing(t, "open", "idle")
  /\ UNCHANGED <<alive, lockOwner, names, globals, locals>>

SetLockFd(t) ==
  /\ At(t, "setfd")
  /\ lockFd' = [lockFd EXCEPT ![ProcOf[t]] = TRUE]
  /\ Goto(t, "create")
  /\ UNCHANGED <<alive, lockOwner, names, shared, mq, locals, faults>>

------------------------------------------------------------------------------
(* xinput_service_create() and xinput_service_queue_create() *)

ShmCreate(t, g) ==
  /\ At(t, "create")
  /\ shmName = None
  /\ FreeGen(g)
  /\ shmName' = g
  /\ sized' = [sized EXCEPT ![g] = FALSE]
  /\ master' = [master EXCEPT ![g] = Unset]
  /\ state' = [state EXCEPT ![t] = g]
  /\ Goto(t, "ftruncate")
  /\ UNCHANGED <<alive, lockOwner, mqName, globals, tries, pid, again,
                 faults>>

ShmExists(t) ==
  /\ At(t, "create")
  /\ shmName # None
  /\ Goto(t, "poke")
  /\ UNCHANGED <<alive, lockOwner, names, globals, locals, faults>>

ShmCreateFails(t) ==
  /\ At(t, "create")
  /\ Failing(t, "shm_open", "destroy")
  /\ UNCHANGED <<alive, lockOwner, names, globals, locals>>

Truncate(t) ==
  /\ At(t, "ftruncate")
  /\ sized' = [sized EXCEPT ![state[t]] = TRUE]
  /\ Goto(t, "memset")
  /\ UNCHANGED <<alive, lockOwner, shmName, master, mqName, globals, locals,
                 faults>>

TruncateFails(t) ==
  /\ At(t, "ftruncate")
  /\ Failing(t, "ftruncate", "destroy")
  /\ shmName' = None
  /\ state' = [state EXCEPT ![t] = None]
  /\ UNCHANGED <<alive, lockOwner, sized, master, mqName, globals, tries,
                 pid, again>>

Clear(t) ==
  /\ At(t, "memset")
  /\ master' = [master EXCEPT ![state[t]] = Unset]
  /\ Goto(t, "queue")
  /\ UNCHANGED <<alive, lockOwner, shmName, sized, mqName, globals, locals,
                 faults>>

\* the first mq_open(), and the one after the stale queue was unlinked
QueueCreate(t, q) ==
  /\ At(t, "queue") \/ At(t, "requeue")
  /\ mqName = None
  /\ FreeQueue(q)
  /\ mqName' = q
  /\ mq' = [mq EXCEPT ![ProcOf[t]] = q]
  /\ Goto(t, "publish")
  /\ UNCHANGED <<alive, lockOwner, shmName, sized, master, lockFd, shared,
                 locals, faults>>

QueueExists(t) ==
  /\ At(t, "queue")
  /\ mqName # None
  /\ Goto(t, "mqclear")
  /\ UNCHANGED <<alive, lockOwner, names, globals, locals, faults>>

QueueUnlinkStale(t) ==
  /\ At(t, "mqclear")
  /\ mqName' = None
  /\ Goto(t, "requeue")
  /\ UNCHANGED <<alive, lockOwner, shmName, sized, master, globals, locals,
                 faults>>

\* the queue belongs to another user; no result of an unlink is looked at
QueueUnlinkStaleFails(t) ==
  /\ At(t, "mqclear")
  /\ Failing(t, "mq_unlink", "requeue")
  /\ UNCHANGED <<alive, lockOwner, names, globals, locals>>

\* create() calls destroy() while service_shared is still NULL: the shared
\* memory stays linked, with the pid 0
QueueCreateFails(t) ==
  /\ At(t, "queue") \/ At(t, "requeue")
  /\ Failing(t, "mq_open", "destroy")
  /\ again' = [again EXCEPT ![t] = TRUE]
  /\ state' = [state EXCEPT ![t] = None]
  /\ UNCHANGED <<alive, lockOwner, names, globals, tries, pid>>

QueueStillExists(t) ==
  /\ At(t, "requeue")
  /\ mqName # None
  /\ Goto(t, "destroy")
  /\ again' = [again EXCEPT ![t] = TRUE]
  /\ state' = [state EXCEPT ![t] = None]
  /\ UNCHANGED <<alive, lockOwner, names, globals, tries, pid, faults>>

Publish(t) ==
  /\ At(t, "publish")
  /\ shared' = [shared EXCEPT ![ProcOf[t]] = state[t]]
  /\ state' = [state EXCEPT ![t] = None]
  /\ Goto(t, "run")
  /\ UNCHANGED <<alive, lockOwner, names, lockFd, mq, tries, pid, again,
                 faults>>

------------------------------------------------------------------------------
(* xinput_service_run() and xinput_service_thread() *)

Run(t) ==
  LET g == shared[ProcOf[t]] IN
  /\ At(t, "run")
  /\ g # None
  /\ master' = [master EXCEPT ![g] = ProcOf[t]]
  /\ Goto(t, "rumble")
  /\ UNCHANGED <<alive, lockOwner, shmName, sized, mqName, globals, locals,
                 faults>>

RumbleThreadStart(t) ==
  /\ At(t, "rumble")
  /\ Goto(t, "service")
  /\ UNCHANGED <<alive, lockOwner, names, globals, locals, faults>>

RumbleThreadFails(t) ==
  /\ At(t, "rumble")
  /\ Failing(t, "pthread_create", "destroy")
  /\ again' = [again EXCEPT ![t] = TRUE]
  /\ UNCHANGED <<alive, lockOwner, names, globals, state, tries, pid>>

\* mutant: the lock is released before the service is torn down
IdleStopUnlocks(t) ==
  /\ At(t, "service")
  /\ ProcOf[t] \in IdleStops
  /\ shared[ProcOf[t]] # None
  /\ lockOwner' = None
  /\ Goto(t, "destroy")
  /\ UNCHANGED <<alive, names, globals, locals, faults>>

IdleStop(t) ==
  /\ At(t, "service")
  /\ ProcOf[t] \in IdleStops
  /\ shared[ProcOf[t]] # None
  /\ Goto(t, "destroy")
  /\ UNCHANGED <<alive, lockOwner, names, globals, locals, faults>>

------------------------------------------------------------------------------
(* xinput_service_destroy() and xinput_service_lock_release() *)

\* mutant: the queue is closed and keeps its name
QueueCloseOnly(t) ==
  /\ At(t, "destroy")
  /\ mq' = [mq EXCEPT ![ProcOf[t]] = None]
  /\ Goto(t, "dshm")
  /\ UNCHANGED <<alive, lockOwner, names, lockFd, shared, locals, faults>>

QueueClose(t) ==
  /\ At(t, "destroy")
  /\ mq' = [mq EXCEPT ![ProcOf[t]] = None]
  /\ Goto(t, IF mq[ProcOf[t]] # None THEN "mqdrop" ELSE "dshm")
  /\ UNCHANGED <<alive, lockOwner, names, lockFd, shared, locals, faults>>

QueueUnlink(t) ==
  /\ At(t, "mqdrop")
  /\ mqName' = None
  /\ Goto(t, "dshm")
  /\ UNCHANGED <<alive, lockOwner, shmName, sized, master, globals, locals,
                 faults>>

QueueUnlinkFails(t) ==
  /\ At(t, "mqdrop")
  /\ Failing(t, "mq_unlink", "dshm")
  /\ UNCHANGED <<alive, lockOwner, names, globals, locals>>

\* mutant: the shared memory is unlinked without being marked broken
DestroySharedUnmarked(t) ==
  /\ At(t, "dshm")
  /\ shared[ProcOf[t]] # None
  /\ Goto(t, "unlink")
  /\ UNCHANGED <<alive, lockOwner, names, globals, locals, faults>>

DestroyShared(t) ==
  /\ At(t, "dshm")
  /\ shared[ProcOf[t]] # None
  /\ Goto(t, "mark")
  /\ UNCHANGED <<alive, lockOwner, names, globals, locals, faults>>

DestroyNothing(t) ==
  /\ At(t, "dshm")
  /\ shared[ProcOf[t]] = None
  /\ again' = [again EXCEPT ![t] = FALSE]
  /\ Goto(t, IF again[t] THEN "destroy" ELSE "release")
  /\ UNCHANGED <<alive, lockOwner, names, globals, state, tries, pid, faults>>

MarkBroken(t) ==
  LET g == shared[ProcOf[t]] IN
  /\ At(t, "mark")
  /\ g # None
  /\ master' = [master EXCEPT ![g] = Broken]
  /\ Goto(t, "unlink")
  /\ UNCHANGED <<alive, lockOwner, shmName, sized, mqName, globals, locals,
                 faults>>

ShmUnlink(t) ==
  /\ At(t, "unlink")
  /\ shmName' = None
  /\ Goto(t, "unmap")
  /\ UNCHANGED <<alive, lockOwner, sized, master, mqName, globals, locals,
                 faults>>

ShmUnlinkFails(t) ==
  /\ At(t, "unlink")
  /\ Failing(t, "shm_unlink", "unmap")
  /\ UNCHANGED <<alive, lockOwner, names, globals, locals>>

Unmap(t) ==
  /\ At(t, "unmap")
  /\ shared' = [shared EXCEPT ![ProcOf[t]] = None]
  /\ again' = [again EXCEPT ![t] = FALSE]
  /\ Goto(t, IF again[t] THEN "destroy" ELSE "release")
  /\ UNCHANGED <<alive, lockOwner, names, lockFd, mq, state, tries, pid,
                 faults>>

\* mutant: the descriptor is forgotten and stays open
LockReleaseOpen(t) ==
  /\ At(t, "release")
  /\ lockFd' = [lockFd EXCEPT ![ProcOf[t]] = FALSE]
  /\ Goto(t, "idle")
  /\ UNCHANGED <<alive, lockOwner, names, shared, mq, locals, faults>>

LockRelease(t) ==
  /\ At(t, "release")
  /\ lockFd' = [lockFd EXCEPT ![ProcOf[t]] = FALSE]
  /\ Goto(t, IF lockFd[ProcOf[t]] THEN "closefd" ELSE "idle")
  /\ UNCHANGED <<alive, lockOwner, names, shared, mq, locals, faults>>

\* closing the descriptor drops the flock
LockClose(t) ==
  /\ At(t, "closefd")
  /\ lockOwner' = None
  /\ Goto(t, "idle")
  /\ UNCHANGED <<alive, names, globals, locals, faults>>

------------------------------------------------------------------------------
(* xinput_service_poke() *)

\* ENOENT, which only another server thread of the same process can cause,
\* leads back to create()
PokeOpen(t) ==
  /\ At(t, "poke")
  /\ state' = [state EXCEPT ![t] = shmName]
  /\ tries' = [tries EXCEPT ![t] = IF shmName = None THEN 0 ELSE Tries]
  /\ Goto(t, IF shmName = None THEN "create" ELSE "wait")
  /\ UNCHANGED <<alive, lockOwner, names, globals, pid, again, faults>>

\* the object belongs to another user: the server gives up
PokeOpenFails(t) ==
  /\ At(t, "poke")
  /\ Failing(t, "shm_open", "destroy")
  /\ UNCHANGED <<alive, lockOwner, names, globals, locals>>

\* mutant: a pid of 0 is read again without a limit
PokeWaitForever(t) ==
  /\ At(t, "wait")
  /\ sized[state[t]]
  /\ master[state[t]] = Unset
  /\ tries' = [tries EXCEPT ![t] = @ - 1]
  /\ UNCHANGED <<alive, lockOwner, names, globals, state, pid, again, pc,
                 faults>>

\* a pid of 0 is read again after XINPUT_OWNER_PROBE_PERIOD_US
PokeWait(t) ==
  /\ At(t, "wait")
  /\ sized[state[t]]
  /\ master[state[t]] = Unset
  /\ tries[t] > 1
  /\ tries' = [tries EXCEPT ![t] = @ - 1]
  /\ UNCHANGED <<alive, lockOwner, names, globals, state, pid, again, pc,
                 faults>>

\* the pid is taken as it is, or as 0 when the tries are used up
PokeRead(t) ==
  /\ At(t, "wait")
  /\ sized[state[t]]
  /\ master[state[t]] = Unset => tries[t] <= 1
  /\ pid' = [pid EXCEPT ![t] = master[state[t]]]
  /\ tries' = [tries EXCEPT ![t] = 0]
  /\ Goto(t, "judge")
  /\ UNCHANGED <<alive, lockOwner, names, globals, state, again, faults>>

\* mutant: a pid that was never written counts as alive
PokeDeadWritten(t) ==
  /\ At(t, "judge")
  /\ pid[t] \notin alive \cup {Unset}
  /\ pid' = [pid EXCEPT ![t] = Unset]
  /\ Goto(t, "pbroken")
  /\ UNCHANGED <<alive, lockOwner, names, globals, state, tries, again, faults>>

\* no pid, a broken one, or one that kill(pid, 0) does not find
PokeDead(t) ==
  /\ At(t, "judge")
  /\ pid[t] \notin alive
  /\ pid' = [pid EXCEPT ![t] = Unset]
  /\ Goto(t, "pbroken")
  /\ UNCHANGED <<alive, lockOwner, names, globals, state, tries, again, faults>>

\* EEXIST: the server gives up
PokeAlive(t) ==
  /\ At(t, "judge")
  /\ pid[t] \in alive
  /\ pid' = [pid EXCEPT ![t] = Unset]
  /\ state' = [state EXCEPT ![t] = None]
  /\ Goto(t, "destroy")
  /\ UNCHANGED <<alive, lockOwner, names, globals, tries, again, faults>>

PokeMarkBroken(t) ==
  /\ At(t, "pbroken")
  /\ master' = [master EXCEPT ![state[t]] = Broken]
  /\ Goto(t, "pmq")
  /\ UNCHANGED <<alive, lockOwner, shmName, sized, mqName, globals, locals,
                 faults>>

PokeQueueUnlink(t) ==
  /\ At(t, "pmq")
  /\ mqName' = None
  /\ Goto(t, "pshm")
  /\ UNCHANGED <<alive, lockOwner, shmName, sized, master, globals, locals,
                 faults>>

PokeQueueUnlinkFails(t) ==
  /\ At(t, "pmq")
  /\ Failing(t, "mq_unlink", "pshm")
  /\ UNCHANGED <<alive, lockOwner, names, globals, locals>>

PokeShmUnlink(t) ==
  /\ At(t, "pshm")
  /\ shmName' = None
  /\ state' = [state EXCEPT ![t] = None]
  /\ Goto(t, "create")
  /\ UNCHANGED <<alive, lockOwner, sized, master, mqName, globals, tries,
                 pid, again, faults>>

\* what is still there is poked once more
PokeShmUnlinkFails(t) ==
  /\ At(t, "pshm")
  /\ Failing(t, "shm_unlink", "create")
  /\ state' = [state EXCEPT ![t] = None]
  /\ UNCHANGED <<alive, lockOwner, names, globals, tries, pid, again>>

------------------------------------------------------------------------------
(* Processes *)

\* the end of a process: its descriptors, mappings and threads go away, what
\* it linked and what it wrote in shared memory stays
Dies(p) ==
  /\ alive' = alive \ {p}
  /\ lockOwner' = IF lockOwner = p THEN None ELSE lockOwner
  /\ lockFd' = [lockFd EXCEPT ![p] = FALSE]
  /\ shared' = [shared EXCEPT ![p] = None]
  /\ mq' = [mq EXCEPT ![p] = None]
  /\ pc' = [t \in Thread |-> IF ProcOf[t] = p THEN "idle" ELSE pc[t]]
  /\ state' = [t \in Thread |-> IF ProcOf[t] = p THEN None ELSE state[t]]
  /\ tries' = [t \in Thread |-> IF ProcOf[t] = p THEN 0 ELSE tries[t]]
  /\ pid' = [t \in Thread |-> IF ProcOf[t] = p THEN Unset ELSE pid[t]]
  /\ again' = [t \in Thread |-> IF ProcOf[t] = p THEN FALSE ELSE again[t]]
  /\ UNCHANGED names

\* killed, or ended by the program that hosts the server
Crash(p) ==
  /\ p \in alive
  /\ \A t \in Thread : ProcOf[t] = p => pc[t] \in CrashAt
  /\ faults < MaxFault
  /\ faults' = faults + 1
  /\ Dies(p)

\* a read of a shared memory object of size 0 (SIGBUS), or through a NULL
\* service_shared (SIGSEGV)
BadAccess(t) ==
  /\ \/ At(t, "wait") /\ ~sized[state[t]]
     \/ At(t, "run") /\ shared[ProcOf[t]] = None
     \/ At(t, "service") /\ shared[ProcOf[t]] = None
     \/ At(t, "mark") /\ shared[ProcOf[t]] = None
  /\ Dies(ProcOf[t])
  /\ UNCHANGED faults

\* the kernel gives the pid of a dead process to a new one
Reuse(p) ==
  /\ PidReuse
  /\ p \notin alive
  /\ alive' = alive \cup {p}
  /\ UNCHANGED <<lockOwner, names, globals, locals, pc, faults>>

------------------------------------------------------------------------------
Step(t) ==
  \/ LockAcquire(t) \/ FlockTaken(t) \/ FlockBusy(t) \/ SetLockFd(t)
  \/ \E g \in Gen : ShmCreate(t, g)
  \/ ShmExists(t) \/ Truncate(t) \/ Clear(t)
  \/ \E q \in Queue : QueueCreate(t, q)
  \/ QueueExists(t) \/ QueueUnlinkStale(t) \/ QueueStillExists(t) \/ Publish(t)
  \/ Run(t) \/ RumbleThreadStart(t)
  \/ QueueClose(t) \/ QueueUnlink(t) \/ DestroyShared(t) \/ DestroyNothing(t)
  \/ MarkBroken(t) \/ ShmUnlink(t) \/ Unmap(t) \/ LockRelease(t) \/ LockClose(t)
  \/ PokeOpen(t) \/ PokeWait(t) \/ PokeRead(t)
  \/ PokeDead(t) \/ PokeAlive(t)
  \/ PokeMarkBroken(t) \/ PokeQueueUnlink(t) \/ PokeShmUnlink(t)

Fault(t) ==
  \/ FlockOpenFails(t) \/ ShmCreateFails(t) \/ TruncateFails(t)
  \/ QueueUnlinkStaleFails(t) \/ QueueCreateFails(t) \/ RumbleThreadFails(t)
  \/ QueueUnlinkFails(t) \/ ShmUnlinkFails(t)
  \/ PokeOpenFails(t) \/ PokeQueueUnlinkFails(t) \/ PokeShmUnlinkFails(t)

Next ==
  \/ \E t \in Thread : 
       Start(t) \/ Step(t) \/ IdleStop(t) \/ Fault(t) \/ BadAccess(t)
  \/ \E p \in Proc : Crash(p) \/ Reuse(p)

Spec == Init /\ [][Next]_vars

\* A thread that runs is scheduled; a process without a service calls
\* rundll() again, once per second, as long as its program uses the API.
Fairness ==
  \A t \in Thread : WF_vars(Start(t)) /\ WF_vars(Step(t) \/ BadAccess(t))

FairSpec == Spec /\ Fairness
------------------------------------------------------------------------------
(* What the service promises *)

\* The threads that own the service: their process has published its pid, or
\* is about to, and has not taken it back yet.
Owners == {t \in Thread : pc[t] \in Serving \cup {"publish"}}

\* "The service can be shared among any process but should only run once"
\* (xinput_settings.h:103): the lock file, the exclusive creation and the poke
\* never leave two servers at work, whoever crashes and whatever fails.
OneService == \A s, t \in Owners : s = t

\* While a server runs, the names lead to it: no other process unlinks or
\* replaces its shared memory or its queue (create(), poke(), destroy()).
LiveServiceReachable ==
  \A t \in Thread : pc[t] = "service" =>
    LET p == ProcOf[t] IN
    /\ shmName # None /\ shmName = shared[p] /\ sized[shmName]
    /\ master[shmName] = p
    /\ mqName # None /\ mqName = mq[p]

\* Shared memory without a name never carries a live owner: destroy() and
\* poke() mark it broken before they unlink it, so a client that still maps it
\* finds out (xinput_gamepad_service_is_alive()).
UnlinkedIsDead == \A g \in Gen \ {shmName} : master[g] \in {Unset, Broken}

\* A queue exists only beside a shared memory object, at every point where a
\* process can be killed: create() makes it last, destroy() and poke() remove
\* it first.  With no queue left over at the start, and none that cannot be
\* unlinked, the EEXIST branch of xinput_service_queue_create() is not needed.
QueueHasShm == mqName # None => shmName # None

\* The flock is never left to a process none of whose threads is in the
\* server: it would keep every other process from serving, whichever of the
\* server's exits was taken (xinput_service_lock_release()).
LockNotLeaked ==
  \A p \in Proc : lockOwner = p =>
    /\ p \in alive
    /\ \E t \in Thread : ProcOf[t] = p /\ pc[t] \notin {"idle", "acquire", "flock"}

\* The names and the pid change hands only at the lock holder's hand.
OnlyLockHolderChangesNames ==
  [][names' # names =>
       \E t \in Thread : ProcOf[t] = lockOwner /\ pc'[t] # pc[t]]_vars

\* What keeps a service from ever starting again.  Its creator died between
\* shm_open() and ftruncate(): whoever reads the pid gets SIGBUS.
Unsized == shmName # None /\ ~sized[shmName]

\* The pid of the dead server now belongs to a process that is no server.
StalePid ==
  /\ shmName # None
  /\ master[shmName] \in alive
  /\ \A p \in Proc : shared[p] # shmName

\* "If the program containing the server stops, another instance will take
\* the job" (xinput_settings.h:92): as long as there is a process, a service
\* runs again and again, whatever failed or was killed before, but for these
\* two cases.
Takeover ==
  \/ []<>(\E t \in Thread : pc[t] = "service")
  \/ <>[](alive = {}) \/ <>[]Unsized \/ <>[]StalePid

------------------------------------------------------------------------------
(* The abstract specification *)

\* the pids a client can find in shared memory, named or not, and takes for
\* those of a running service: kill(pid, 0) succeeds
Announced == {p \in alive : \E g \in Gen : master[g] = p}
Board == IF Announced = {} THEN None ELSE shmName
BoardQueue == IF Announced = {} THEN None ELSE mqName

OS == INSTANCE OneServer WITH
        announced <- Announced, board <- Board, queue <- BoardQueue

\* When no pid is given out twice, the service seen through its shared memory
\* is OneServer: nobody is announced beside another, or beside a name that
\* leads elsewhere, not even while the service is torn down or reclaimed
\* (create(), run(), destroy(), poke()).
ImplementsOneServer == OS!Spec

==============================================================================
