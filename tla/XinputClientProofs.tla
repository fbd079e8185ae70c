------------------------- MODULE XinputClientProofs -------------------------
(***************************************************************************)
(* The clients beside the service, for any number of processes, programs,  *)
(* generations and failures.                                               *)
(*                                                                         *)
(* What a client does leaves the service alone, but for its own end, which *)
(* takes a server thread of the process with it: all that XinputService    *)
(* promises it still promises beside its clients.  A client that has       *)
(* mapped the memory of a service finds no queue but that service's: there *)
(* is none while the memory is new, and no other while the service runs.   *)
(***************************************************************************)
EXTENDS XinputClient, OneServerProofs

------------------------------------------------------------------------------
(* The service beside its clients *)

ServiceInv == TypeInv /\ LockInv /\ NamesInv /\ FreshQueueInv

LEMMA ServiceInit == Init => ServiceInv
BY SentinelAssumption, ThreadAssumption, BoundAssumption
DEF Init, ServiceInv, TypeInv, TypeOK, MappingInv, LockInv, NamesInv, CreateInv,
    SharedInv, PokeInv, UnlinkedIsDead, FreshQueueInv, QueueHasShm, QueueInv,
    PCs, Creating, Poking, Serving, Closing, Building, Outside, WithFd

\* The end of a process, wherever its server thread is, keeps what the names
\* and the lock promise to the others.
LEMMA DiesKeeps ==
  ASSUME ServiceInv, NEW p \in Proc, Dies(p), UNCHANGED faults
  PROVE  ServiceInv'
<1> USE SentinelAssumption, ThreadAssumption, OneServerPerProcess
<1> USE DEF ServiceInv
<1>1. TypeInv'
  BY DiesType DEF TypeInv, TypeOK
<1>2. LockInv'
  BY DEF Dies, TypeInv, TypeOK, LockInv, PCs, Acquiring, Creating, Poking, Serving,
     Closing, Releasing, Outside, WithFd
<1>3. NamesInv'
  BY DEF Dies, TypeInv, TypeOK, NamesInv, CreateInv, SharedInv, PokeInv,
     UnlinkedIsDead, names, Creating, Poking, Serving, Closing
<1>4. FreshQueueInv'
  BY DEF Dies, TypeInv, TypeOK, FreshQueueInv, QueueInv, QueueHasShm, names, Building
<1> QED
  BY <1>1, <1>2, <1>3, <1>4

\* A step of the system is one of the service, one that leaves the service
\* alone, or the end of a program that hosts it.
LEMMA ServiceMoves ==
  ASSUME [ClientNext]_cvars
  PROVE  [Next]_vars \/ \E p \in Proc : Dies(p) /\ UNCHANGED faults
<1> USE AppAssumption, ThreadAssumption
<1>1. ASSUME NEW t \in Thread,
             \/ ServerStep(t) \/ ServerOther(t) \/ DaemonStart(t)
             \/ ServerThreadEnds(t) \/ Receive(t)
      PROVE  [Next]_vars
  BY <1>1 DEF ServerStep, ServerOther, DaemonStart, ServerThreadEnds, Receive,
     Next, service, world, vars
<1>2. ASSUME NEW a \in App, Call(a)  PROVE [Next]_vars
  BY <1>2 DEF Call, CallInit, CallDue, CallNotDue, world, service, vars
<1>3. ASSUME NEW a \in App, AppStep(a), ~AppBadAccess(a)  PROVE [Next]_vars
  <2>1. ASSUME NEW t \in Thread, RundllThread(a, t) \/ RundllProcess(a, t)
        PROVE  [Next]_vars
    BY <2>1 DEF RundllThread, RundllProcess, Next
  <2>2. CASE \/ UseNothing(a) \/ UseDue(a) \/ UseNotDue(a) \/ Copy(a) \/ Send(a)
             \/ AliveSelf(a) \/ AliveUnmapped(a) \/ AliveCheck(a) \/ AliveWait(a)
             \/ AliveRead(a) \/ AliveDead(a) \/ AliveYes(a)
    BY <2>2 DEF UseNothing, UseDue, UseNotDue, Copy, Send, AliveSelf, AliveUnmapped,
       AliveCheck, AliveWait, AliveRead, AliveDead, AliveYes, world, service, vars
  <2>3. CASE \/ Disconnect(a) \/ RundllHasThread(a) \/ RundllFull(a) \/ SetTid(a)
             \/ ConnectOpen(a) \/ ConnectNoShm(a) \/ ConnectMap(a) \/ ConnectQueue(a)
             \/ ConnectNoQueue(a)
    BY <2>3 DEF Disconnect, RundllHasThread, RundllFull, SetTid, ConnectOpen,
       ConnectNoShm, ConnectMap, ConnectQueue, ConnectNoQueue, world, service, vars
  <2> QED
    BY <1>3, <2>1, <2>2, <2>3 DEF AppStep
<1>4. ASSUME NEW a \in App, AppBadAccess(a)
      PROVE  \E p \in Proc : Dies(p) /\ UNCHANGED faults
  BY <1>4 DEF AppBadAccess
<1>5. ASSUME NEW p \in Proc, Finalize(p) \/ ProcessEnds(p) \/ PidReused(p)
      PROVE  [Next]_vars
  BY <1>5 DEF Finalize, ProcessEnds, PidReused, Next, world, service, vars
<1>6. CASE UNCHANGED cvars
  BY <1>6 DEF cvars, service, vars
<1> QED
  BY <1>1, <1>2, <1>3, <1>4, <1>5, <1>6 DEF ClientNext

LEMMA ServiceStep == ServiceInv /\ [ClientNext]_cvars => ServiceInv'
BY ServiceMoves, TypeStep, LockStep, NamesStep, QueueStep, DiesKeeps DEF ServiceInv

LEMMA ServiceHolds == ClientSpec => []ServiceInv
<1>1. ClientInit => ServiceInv
  BY ServiceInit DEF ClientInit
<1> QED
  BY <1>1, ServiceStep, PTL DEF ClientSpec

\* Beside any clients there is one service at most, its names lead to it, shared
\* memory without a name is dead, and the lock is not left behind: no step of a
\* client, of its threads or at its end undoes what the server's calls promise
\* (xinput_gamepad.c, xinput_service.c).
THEOREM PromisesHoldBesideClients ==
  ClientSpec => [](OneService /\ LiveServiceReachable /\ UnlinkedIsDead /\ LockNotLeaked)
<1>1. ServiceInv => OneService
  BY LockExcludes DEF ServiceInv, Exclusive, OneService, Owners, Serving, Outside
<1>2. ServiceInv => LiveServiceReachable
  BY ThreadAssumption
  DEF ServiceInv, TypeInv, TypeOK, NamesInv, CreateInv, SharedInv,
      LiveServiceReachable, Serving
<1>3. ServiceInv => UnlinkedIsDead
  BY DEF ServiceInv, NamesInv
<1>4. ServiceInv => LockNotLeaked
  BY SentinelAssumption, ThreadAssumption
  DEF ServiceInv, TypeInv, TypeOK, LockInv, LockNotLeaked, Outside
<1> QED
  BY <1>1, <1>2, <1>3, <1>4, ServiceHolds, PTL

\* Started without a queue, and when queues can be unlinked, there is never a
\* queue without shared memory, whatever the clients do.
THEOREM ClientQueueHasShmHolds ==
  ASSUME ~StaleQueue, "mq_unlink" \notin Fails
  PROVE  ClientSpec => []QueueHasShm
<1>1. ServiceInv => QueueHasShm
  BY DEF ServiceInv, FreshQueueInv
<1> QED
  BY <1>1, ServiceHolds, PTL

\* The end of a process takes its own announcement with it.
LEMMA DiesAnnounced ==
  ASSUME StepInv, AnnouncedInv, NEW p \in Proc, Dies(p)
  PROVE  AnnouncedInv'
BY ThreadAssumption
DEF StepInv, TypeInv, TypeOK, AnnouncedInv, Dies, names, Up

\* What a client finds in shared memory is OneServer beside any clients, as long
\* as no pid is given out twice: a client that ends, hosting the service or not,
\* withdraws at most itself (xinput_gamepad.c, xinput_service_run(), destroy()).
THEOREM ClientImplementsOneServerHolds ==
  ASSUME ~PidReuse
  PROVE  ClientSpec => ImplementsOneServer
<1>1. ClientInit => OS!Init /\ AnnouncedInv
  BY SentinelAssumption
  DEF ClientInit, Init, OS!Init, Announced, Board, BoardQueue, AnnouncedInv
<1>2. ServiceInv => StepInv
  BY DEF ServiceInv, StepInv
<1>3. StepInv /\ AnnouncedInv /\ [ClientNext]_cvars => AnnouncedInv'
  BY ServiceMoves, AnnouncedStep, DiesAnnounced
<1>4. StepInv /\ AnnouncedInv /\ AnnouncedInv' /\ [ClientNext]_cvars
        => [OS!Next]_(OS!view)
  BY ServiceMoves, OneServerStep, DiesMaps
<1> QED
  BY <1>1, <1>2, <1>3, <1>4, ServiceHolds, PTL
  DEF ClientSpec, ImplementsOneServer, OS!Spec

------------------------------------------------------------------------------
(* Types *)

\* the part of ClientTypeOK that is about the clients
ClientTypes ==
  /\ initDone \in [Proc -> BOOLEAN]
  /\ tid \in [Proc -> Thread \cup {None}]
  /\ running \subseteq Thread
  /\ cshared \in [Proc -> Gen \cup {None}]
  /\ cmq \in [Proc -> Queue \cup {None}]
  /\ apc \in [App -> APCs]
  /\ cont \in [App -> {"init", "connected", "copy", "send"}]
  /\ cmap \in [App -> Gen \cup {None}]
  /\ atries \in [App -> 0..Tries]
  /\ apid \in [App -> Proc \cup {Unset, Broken}]
  /\ child \in [App -> Thread \cup {None}]
  /\ depth \in [Queue -> 0..MaxMsg]

\* Where connect() and is_alive() return to is a control point of the call.
LEMMA ResumeType ==
  ASSUME ClientTypes, NEW a \in App, NEW c \in APCs, Resume(a, c)
  PROVE  apc' \in [App -> APCs]
BY DEF ClientTypes, Resume, AppGoto, APCs

\* The end of a program leaves every variable in its set.
LEMMA ClientDiesType ==
  ASSUME ClientTypes, NEW p \in Proc, ClientDies(p)
  PROVE  ClientTypes'
<1> USE DEF ClientTypes, ClientDies
<1>1. /\ (initDone \in [Proc -> BOOLEAN])' /\ (tid \in [Proc -> Thread \cup {None}])'
      /\ (running \subseteq Thread)' /\ (cshared \in [Proc -> Gen \cup {None}])'
      /\ (cmq \in [Proc -> Queue \cup {None}])' /\ (depth \in [Queue -> 0..MaxMsg])'
  OBVIOUS
<1>2. (apc \in [App -> APCs])' /\ (cont \in [App -> {"init", "connected", "copy", "send"}])'
  BY DEF APCs
<1>3. (cmap \in [App -> Gen \cup {None}])' /\ (child \in [App -> Thread \cup {None}])'
  OBVIOUS
<1>4. (atries \in [App -> 0..Tries])' /\ (apid \in [App -> Proc \cup {Unset, Broken}])'
  BY BoundAssumption
<1> QED
  BY <1>1, <1>2, <1>3, <1>4

\* The steps of a call.
LEMMA CallType ==
  ASSUME TypeOK, ClientTypes, NEW a \in App,
         Call(a) \/ (AppStep(a) /\ ~AppBadAccess(a))
  PROVE  ClientTypes'
<1> USE AppAssumption, BoundAssumption, ThreadAssumption
<1> USE DEF ClientTypes, TypeOK, AppAt, AppGoto, APCs, world, service, attached,
            checking, names
<1>1. CASE Call(a)
  BY <1>1 DEF Call, CallInit, CallDue, CallNotDue
<1>2. CASE UseNothing(a) \/ Copy(a)
  BY <1>2 DEF UseNothing, Copy
<1>3. CASE UseDue(a)
  BY <1>3 DEF UseDue, Uses
<1>4. CASE UseNotDue(a)
  BY <1>4 DEF UseNotDue, Uses
<1>5. CASE Send(a)
  BY <1>5 DEF Send
<1>6. CASE AliveSelf(a)
  BY <1>6, ResumeType DEF AliveSelf, Checked
<1>7. CASE AliveUnmapped(a)
  BY <1>7 DEF AliveUnmapped
<1>8. CASE AliveCheck(a)
  BY <1>8 DEF AliveCheck
<1>9. CASE AliveWait(a)
  BY <1>9 DEF AliveWait
<1>10. CASE AliveRead(a)
  BY <1>10 DEF AliveRead
<1>11. CASE AliveDead(a)
  BY <1>11 DEF AliveDead
<1>12. CASE AliveYes(a)
  BY <1>12, ResumeType DEF AliveYes, Checked
<1>13. CASE Disconnect(a)
  BY <1>13 DEF Disconnect
<1>14. CASE RundllHasThread(a) \/ RundllFull(a)
  BY <1>14 DEF RundllHasThread, RundllFull
<1>15. CASE SetTid(a)
  BY <1>15 DEF SetTid
<1>16. ASSUME NEW t \in Thread, RundllThread(a, t)  PROVE ClientTypes'
  BY <1>16 DEF RundllThread
<1>17. ASSUME NEW t \in Thread, RundllProcess(a, t)  PROVE ClientTypes'
  BY <1>17 DEF RundllProcess
<1>18. CASE ConnectOpen(a)
  BY <1>18 DEF ConnectOpen
<1>19. CASE ConnectNoShm(a)
  BY <1>19, ResumeType DEF ConnectNoShm, Connected
<1>20. CASE ConnectMap(a)
  BY <1>20 DEF ConnectMap
<1>21. CASE ConnectQueue(a)
  BY <1>21, ResumeType DEF ConnectQueue, Connected
<1>22. CASE ConnectNoQueue(a)
  BY <1>22, ResumeType DEF ConnectNoQueue, Connected
<1> QED
  BY <1>1, <1>2, <1>3, <1>4, <1>5, <1>6, <1>7, <1>8, <1>9, <1>10, <1>11, <1>12,
     <1>13, <1>14, <1>15, <1>16, <1>17, <1>18, <1>19, <1>20, <1>21, <1>22
  DEF AppStep

\* Every step keeps each variable of the clients in its set.
LEMMA ClientTypeStep == TypeOK /\ TypeOK' /\ ClientTypes /\ [ClientNext]_cvars => ClientTypes'
<1> SUFFICES ASSUME TypeOK, TypeOK', ClientTypes, [ClientNext]_cvars  PROVE ClientTypes'
  OBVIOUS
<1> USE AppAssumption, ThreadAssumption
<1>1. ASSUME NEW t \in Thread, ServerStep(t)  PROVE ClientTypes'
  <2>1. depth' \in [Queue -> 0..MaxMsg]
    BY <1>1 DEF ServerStep, ClientTypes, TypeOK
  <2> QED
    BY <1>1, <2>1 DEF ServerStep, ClientTypes, attached, checking
<1>2. ASSUME NEW t \in Thread, ServerOther(t) \/ DaemonStart(t)  PROVE ClientTypes'
  BY <1>2 DEF ServerOther, DaemonStart, ClientTypes, client, attached, checking
<1>3. ASSUME NEW t \in Thread, ServerThreadEnds(t)  PROVE ClientTypes'
  BY <1>3 DEF ServerThreadEnds, ClientTypes, world, attached, checking
<1>4. ASSUME NEW t \in Thread, Receive(t)  PROVE ClientTypes'
  BY <1>4 DEF Receive, ClientTypes, TypeOK, attached, checking
<1>5. ASSUME NEW a \in App, Call(a) \/ AppStep(a)  PROVE ClientTypes'
  <2>1. CASE AppBadAccess(a)
    BY <2>1, ClientDiesType DEF AppBadAccess
  <2> QED
    BY <1>5, <2>1, CallType
<1>6. ASSUME NEW p \in Proc, Finalize(p)  PROVE ClientTypes'
  BY <1>6 DEF Finalize, ClientTypes, world, checking
<1>7. ASSUME NEW p \in Proc, ProcessEnds(p) \/ PidReused(p)  PROVE ClientTypes'
  <2>1. CASE ProcessEnds(p)
    BY <2>1, ClientDiesType DEF ProcessEnds
  <2>2. CASE PidReused(p)
    BY <2>2 DEF PidReused, ClientTypes, client, attached, checking
  <2> QED
    BY <1>7, <2>1, <2>2
<1>8. CASE UNCHANGED cvars
  BY <1>8 DEF cvars, ClientTypes, client, attached, checking
<1> QED
  BY <1>1, <1>2, <1>3, <1>4, <1>5, <1>6, <1>7, <1>8 DEF ClientNext

LEMMA ClientTypesHold == ClientSpec => [](ServiceInv /\ ClientTypes)
<1>1. ClientInit => ClientTypes
  BY SentinelAssumption, BoundAssumption, AppAssumption
  DEF ClientInit, ClientTypes, APCs
<1>2. ServiceInv => TypeOK
  BY DEF ServiceInv, TypeInv
<1> QED
  BY <1>1, <1>2, ClientTypeStep, ServiceHolds, PTL DEF ClientSpec

\* Every variable of the service and of its clients stays within its type, for
\* any programs, threads, tries and queue lengths: no call is left at a place
\* the code does not have, and no queue holds more commands than it can.
THEOREM ClientTypeOKHolds == ClientSpec => []ClientTypeOK
<1>1. ServiceInv /\ ClientTypes => ClientTypeOK
  BY DEF ServiceInv, TypeInv, ClientTypes, ClientTypeOK
<1> QED
  BY <1>1, ClientTypesHold, PTL

------------------------------------------------------------------------------
(* Pairing *)

\* One thread of each program calls the API.
SoleCaller == \A a, b \in App : AppOf[a] = AppOf[b] => a = b

\* Shared memory g has no queue yet; it is that of a service with a queue.
Builds(t, g) == pc[t] \in Building /\ state[t] = g
Backs(t, g) ==
  \/ pc[t] = "publish" /\ state[t] = g
  \/ pc[t] \in Serving /\ shared[ProcOf[t]] = g

\* A client that has both has them from one service, or from none that lives.
PairInv ==
  \A p \in Proc, t \in Thread :
    cshared[p] # None /\ cmq[p] # None =>
      /\ ~Builds(t, cshared[p])
      /\ Backs(t, cshared[p]) => cmq[p] = mq[ProcOf[t]]

\* A call that attaches starts without a queue, and only programs whose library
\* is initialised have one.
Attaching == {"rundll", "settid", "connect", "map", "mq"}
CallInv ==
  /\ \A a \in App : apc[a] # "out" => initDone[AppOf[a]]
  /\ \A a \in App : apc[a] \in Attaching => cmq[AppOf[a]] = None
  /\ \A p \in Proc : cmq[p] # None => initDone[p] /\ p \in ClientProc

------------------------------------------------------------------------------
(* What a server thread does to the memory and the queue it has *)

Acts(t) == Start(t) \/ Step(t) \/ IdleStop(t) \/ Fault(t)

\* A thread of another process has no part in it.
LEMMA OthersKeep ==
  ASSUME TypeInv, NEW u \in Thread, NEW t \in Thread \ {u}, Acts(u)
  PROVE  /\ pc'[t] = pc[t] /\ state'[t] = state[t]
         /\ shared'[ProcOf[t]] = shared[ProcOf[t]] /\ mq'[ProcOf[t]] = mq[ProcOf[t]]
<1> USE ThreadAssumption, OneServerPerProcess
<1> USE DEF TypeInv, TypeOK, At, Goto, Failing, globals, locals
<1>1. CASE \/ Start(u) \/ LockAcquire(u) \/ FlockTaken(u) \/ FlockBusy(u)
           \/ FlockOpenFails(u) \/ SetLockFd(u) \/ LockRelease(u) \/ LockClose(u)
  BY <1>1 DEF Start, LockAcquire, FlockTaken, FlockBusy, FlockOpenFails, SetLockFd,
     LockRelease, LockClose
<1>2. CASE \/ (\E g \in Gen : ShmCreate(u, g)) \/ ShmExists(u) \/ ShmCreateFails(u)
           \/ Truncate(u) \/ TruncateFails(u) \/ Clear(u)
  BY <1>2 DEF ShmCreate, ShmExists, ShmCreateFails, Truncate, TruncateFails, Clear
<1>3. CASE \/ (\E q \in Queue : QueueCreate(u, q)) \/ QueueExists(u)
           \/ QueueUnlinkStale(u) \/ QueueUnlinkStaleFails(u) \/ QueueCreateFails(u)
           \/ QueueStillExists(u) \/ Publish(u)
  BY <1>3 DEF QueueCreate, QueueExists, QueueUnlinkStale, QueueUnlinkStaleFails,
     QueueCreateFails, QueueStillExists, Publish
<1>4. CASE \/ Run(u) \/ RumbleThreadStart(u) \/ RumbleThreadFails(u) \/ IdleStop(u)
  BY <1>4 DEF Run, RumbleThreadStart, RumbleThreadFails, IdleStop
<1>5. CASE \/ QueueClose(u) \/ QueueUnlink(u) \/ QueueUnlinkFails(u)
           \/ DestroyShared(u) \/ DestroyNothing(u) \/ MarkBroken(u) \/ ShmUnlink(u)
           \/ ShmUnlinkFails(u) \/ Unmap(u)
  BY <1>5 DEF QueueClose, QueueUnlink, QueueUnlinkFails, DestroyShared,
     DestroyNothing, MarkBroken, ShmUnlink, ShmUnlinkFails, Unmap
<1>6. CASE \/ PokeOpen(u) \/ PokeOpenFails(u) \/ PokeWait(u) \/ PokeRead(u)
           \/ PokeDead(u) \/ PokeAlive(u)
  BY <1>6 DEF PokeOpen, PokeOpenFails, PokeWait, PokeRead, PokeDead, PokeAlive
<1>7. CASE \/ PokeMarkBroken(u) \/ PokeQueueUnlink(u) \/ PokeQueueUnlinkFails(u)
           \/ PokeShmUnlink(u) \/ PokeShmUnlinkFails(u)
  BY <1>7 DEF PokeMarkBroken, PokeQueueUnlink, PokeQueueUnlinkFails, PokeShmUnlink,
     PokeShmUnlinkFails
<1> QED
  BY <1>1, <1>2, <1>3, <1>4, <1>5, <1>6, <1>7 DEF Acts, Step, Fault

\* Its own thread makes new memory, gives it a queue, or serves with both.
LEMMA OwnSteps ==
  ASSUME TypeInv, NEW t \in Thread, Acts(t),
         pc'[t] \in Building \cup {"publish"} \cup Serving
  PROVE  \/ \E g \in Gen : Step(t) /\ ShmCreate(t, g)
         \/ /\ pc[t] \in Building /\ pc'[t] \in Building \cup {"publish"}
            /\ state' = state
         \/ /\ pc[t] = "publish" /\ pc'[t] \in Serving
            /\ shared'[ProcOf[t]] = state[t] /\ mq' = mq
         \/ /\ pc[t] \in Serving /\ pc'[t] \in Serving
            /\ shared' = shared /\ mq' = mq
<1> USE ThreadAssumption
<1> USE DEF TypeInv, TypeOK, At, Goto, Failing, globals, locals, Building, Serving
<1>1. CASE \/ Start(t) \/ LockAcquire(t) \/ FlockTaken(t) \/ FlockBusy(t)
           \/ FlockOpenFails(t) \/ SetLockFd(t) \/ LockRelease(t) \/ LockClose(t)
  BY <1>1 DEF Start, LockAcquire, FlockTaken, FlockBusy, FlockOpenFails, SetLockFd,
     LockRelease, LockClose
<1>2. CASE \E g \in Gen : ShmCreate(t, g)
  BY <1>2 DEF Step
<1>3. CASE ShmExists(t) \/ ShmCreateFails(t) \/ Truncate(t) \/ TruncateFails(t) \/ Clear(t)
  BY <1>3 DEF ShmExists, ShmCreateFails, Truncate, TruncateFails, Clear
<1>4. CASE \/ (\E q \in Queue : QueueCreate(t, q)) \/ QueueExists(t)
           \/ QueueUnlinkStale(t) \/ QueueUnlinkStaleFails(t) \/ QueueCreateFails(t)
           \/ QueueStillExists(t) \/ Publish(t)
  BY <1>4 DEF QueueCreate, QueueExists, QueueUnlinkStale, QueueUnlinkStaleFails,
     QueueCreateFails, QueueStillExists, Publish
<1>5. CASE \/ Run(t) \/ RumbleThreadStart(t) \/ RumbleThreadFails(t) \/ IdleStop(t)
  BY <1>5 DEF Run, RumbleThreadStart, RumbleThreadFails, IdleStop
<1>6. CASE \/ QueueClose(t) \/ QueueUnlink(t) \/ QueueUnlinkFails(t)
           \/ DestroyShared(t) \/ DestroyNothing(t) \/ MarkBroken(t) \/ ShmUnlink(t)
           \/ ShmUnlinkFails(t) \/ Unmap(t)
  BY <1>6 DEF QueueClose, QueueUnlink, QueueUnlinkFails, DestroyShared,
     DestroyNothing, MarkBroken, ShmUnlink, ShmUnlinkFails, Unmap
<1>7. CASE \/ PokeOpen(t) \/ PokeOpenFails(t) \/ PokeWait(t) \/ PokeRead(t)
           \/ PokeDead(t) \/ PokeAlive(t)
  BY <1>7 DEF PokeOpen, PokeOpenFails, PokeWait, PokeRead, PokeDead, PokeAlive
<1>8. CASE \/ PokeMarkBroken(t) \/ PokeQueueUnlink(t) \/ PokeQueueUnlinkFails(t)
           \/ PokeShmUnlink(t) \/ PokeShmUnlinkFails(t)
  BY <1>8 DEF PokeMarkBroken, PokeQueueUnlink, PokeQueueUnlinkFails, PokeShmUnlink,
     PokeShmUnlinkFails
<1> QED
  BY <1>1, <1>2, <1>3, <1>4, <1>5, <1>6, <1>7, <1>8 DEF Acts, Step, Fault

\* A name the shared memory gets is that of memory no client maps.
LEMMA NamesAreFresh ==
  ASSUME TypeInv, [ClientNext]_cvars
  PROVE  shmName' \in {shmName, None} \cup FreshGen
<1> USE DEF names
<1>1. ASSUME NEW t \in Thread, ServerStep(t)
      PROVE  shmName' \in {shmName, None} \cup FreshGen
  BY <1>1 DEF ServerStep, NewNames, First
<1>2. ASSUME NEW t \in Thread, Start(t) \/ IdleStop(t) \/ Fault(t)
      PROVE  shmName' \in {shmName, None}
  <2>1. CASE \/ Start(t) \/ IdleStop(t) \/ FlockOpenFails(t) \/ ShmCreateFails(t)
             \/ TruncateFails(t) \/ QueueUnlinkStaleFails(t) \/ QueueCreateFails(t)
    BY <2>1 DEF Start, IdleStop, FlockOpenFails, ShmCreateFails, TruncateFails,
       QueueUnlinkStaleFails, QueueCreateFails
  <2>2. CASE \/ RumbleThreadFails(t) \/ QueueUnlinkFails(t) \/ ShmUnlinkFails(t)
             \/ PokeOpenFails(t) \/ PokeQueueUnlinkFails(t) \/ PokeShmUnlinkFails(t)
    BY <2>2 DEF RumbleThreadFails, QueueUnlinkFails, ShmUnlinkFails, PokeOpenFails,
       PokeQueueUnlinkFails, PokeShmUnlinkFails
  <2> QED
    BY <1>2, <2>1, <2>2 DEF Fault
<1>3. ASSUME NEW p \in Proc, Dies(p) \/ Reuse(p)  PROVE shmName' = shmName
  BY <1>3 DEF Dies, Reuse
<1>4. ASSUME NEW t \in Thread, ServerOther(t) \/ DaemonStart(t)
      PROVE  shmName' \in {shmName, None}
  BY <1>2, <1>4 DEF ServerOther, DaemonStart
<1>5. ASSUME NEW t \in Thread, ServerThreadEnds(t) \/ Receive(t)
      PROVE  shmName' = shmName
  BY <1>5 DEF ServerThreadEnds, Receive, world, service
<1>6. ASSUME NEW a \in App, Call(a)  PROVE shmName' = shmName
  BY <1>6 DEF Call, CallInit, CallDue, CallNotDue, world, service
<1>7. ASSUME NEW a \in App, AppStep(a)  PROVE shmName' \in {shmName, None}
  <2>1. ASSUME NEW t \in Thread, RundllThread(a, t) \/ RundllProcess(a, t)
        PROVE  shmName' \in {shmName, None}
    BY <1>2, <2>1 DEF RundllThread, RundllProcess
  <2>2. CASE AppBadAccess(a)
    BY <1>3, <2>2, AppAssumption DEF AppBadAccess
  <2>3. CASE \/ UseNothing(a) \/ UseDue(a) \/ UseNotDue(a) \/ Copy(a) \/ Send(a)
             \/ AliveSelf(a) \/ AliveUnmapped(a) \/ AliveCheck(a) \/ AliveWait(a)
             \/ AliveRead(a) \/ AliveDead(a) \/ AliveYes(a)
    BY <2>3 DEF UseNothing, UseDue, UseNotDue, Copy, Send, AliveSelf, AliveUnmapped,
       AliveCheck, AliveWait, AliveRead, AliveDead, AliveYes, world, service
  <2>4. CASE \/ Disconnect(a) \/ RundllHasThread(a) \/ RundllFull(a) \/ SetTid(a)
             \/ ConnectOpen(a) \/ ConnectNoShm(a) \/ ConnectMap(a) \/ ConnectQueue(a)
             \/ ConnectNoQueue(a)
    BY <2>4 DEF Disconnect, RundllHasThread, RundllFull, SetTid, ConnectOpen,
       ConnectNoShm, ConnectMap, ConnectQueue, ConnectNoQueue, world, service
  <2> QED
    BY <1>7, <2>1, <2>2, <2>3, <2>4 DEF AppStep
<1>8. ASSUME NEW p \in Proc, Finalize(p) \/ ProcessEnds(p) \/ PidReused(p)
      PROVE  shmName' = shmName
  BY <1>3, <1>8, ThreadAssumption
  DEF Finalize, ProcessEnds, PidReused, Crash, BadAccess, world, service
<1>9. CASE UNCHANGED cvars
  BY <1>9 DEF cvars, service
<1> QED
  BY <1>1, <1>4, <1>5, <1>6, <1>7, <1>8, <1>9 DEF ClientNext

\* Memory is new to the clients before it gets a queue, and a service keeps
\* the queue it has.
LEMMA MemoryMoves ==
  ASSUME TypeInv, [ClientNext]_cvars, NEW t \in Thread, NEW g
  PROVE  /\ Builds(t, g)' => Builds(t, g) \/ g \in FreshGen
         /\ Backs(t, g)' => \/ Builds(t, g)
                            \/ Backs(t, g) /\ mq'[ProcOf[t]] = mq[ProcOf[t]]
<1> DEFINE Kept ==
      /\ pc'[t] = pc[t] /\ state'[t] = state[t]
      /\ shared'[ProcOf[t]] = shared[ProcOf[t]] /\ mq'[ProcOf[t]] = mq[ProcOf[t]]
<1> USE ThreadAssumption
<1>1. ASSUME Kept
      PROVE  (Builds(t, g)' => Builds(t, g))
             /\ (Backs(t, g)' => Backs(t, g) /\ mq'[ProcOf[t]] = mq[ProcOf[t]])
  BY <1>1 DEF Builds, Backs
<1>2. ASSUME pc'[t] \notin Building \cup {"publish"} \cup Serving
      PROVE  ~Builds(t, g)' /\ ~Backs(t, g)'
  BY <1>2 DEF Builds, Backs
<1>3. ASSUME NEW p \in Proc, Dies(p)
      PROVE  Kept \/ pc'[t] \notin Building \cup {"publish"} \cup Serving
  BY <1>3 DEF Dies, Building, Serving, TypeInv, TypeOK
<1>4. ASSUME Acts(t), pc'[t] \in Building \cup {"publish"} \cup Serving
      PROVE  /\ Builds(t, g)' => Builds(t, g) \/ g \in FreshGen
             /\ Backs(t, g)' => \/ Builds(t, g)
                                \/ Backs(t, g) /\ mq'[ProcOf[t]] = mq[ProcOf[t]]
  <2>1. ASSUME NEW h \in Gen, ShmCreate(t, h)
        PROVE  ~Backs(t, g)' /\ (Builds(t, g)' => g \in FreshGen)
    <3>1. pc'[t] = "ftruncate" /\ state'[t] = h /\ shmName' = h /\ shmName = None
      BY <2>1 DEF ShmCreate, Goto, TypeInv, TypeOK
    <3>2. h \in FreshGen
      BY <3>1, NamesAreFresh, SentinelAssumption
    <3> QED
      BY <3>1, <3>2 DEF Builds, Backs, Serving
  <2>2. ASSUME pc[t] \in Building, pc'[t] \in Building \cup {"publish"}, state' = state
        PROVE  (Builds(t, g)' => Builds(t, g)) /\ (Backs(t, g)' => Builds(t, g))
    BY <2>2 DEF Builds, Backs, Building, Serving
  <2>3. ASSUME pc[t] = "publish", pc'[t] \in Serving,
               shared'[ProcOf[t]] = state[t], mq' = mq
        PROVE  ~Builds(t, g)' /\ (Backs(t, g)' => Backs(t, g))
    BY <2>3 DEF Builds, Backs, Building, Serving
  <2>4. ASSUME pc[t] \in Serving, pc'[t] \in Serving, shared' = shared, mq' = mq
        PROVE  ~Builds(t, g)' /\ (Backs(t, g)' => Backs(t, g))
    BY <2>4 DEF Builds, Backs, Building, Serving
  <2>5. \/ \E h \in Gen : ShmCreate(t, h)
        \/ /\ pc[t] \in Building /\ pc'[t] \in Building \cup {"publish"}
           /\ state' = state
        \/ /\ pc[t] = "publish" /\ pc'[t] \in Serving
           /\ shared'[ProcOf[t]] = state[t] /\ mq' = mq
        \/ /\ pc[t] \in Serving /\ pc'[t] \in Serving
           /\ shared' = shared /\ mq' = mq
    BY <1>4, OwnSteps
  <2>6. mq' = mq => mq'[ProcOf[t]] = mq[ProcOf[t]]
    OBVIOUS
  <2> QED
    BY <2>1, <2>2, <2>3, <2>4, <2>5, <2>6
<1>5. \/ Kept \/ (\E p \in Proc : Dies(p)) \/ Acts(t)
  <2>1. ASSUME NEW u \in Thread, u # t, Acts(u)  PROVE Kept
    BY <2>1, OthersKeep
  <2>2. ASSUME NEW p \in Proc, Reuse(p)  PROVE Kept
    BY <2>2 DEF Reuse, globals, locals
  <2>3. ASSUME UNCHANGED vars  PROVE Kept
    BY <2>3 DEF vars, globals, locals
  <2>4. ASSUME NEW u \in Thread, BadAccess(u)  PROVE \E p \in Proc : Dies(p)
    BY <2>4 DEF BadAccess
  <2>5. ASSUME NEW p \in Proc, Crash(p)  PROVE \E q \in Proc : Dies(q)
    BY <2>5 DEF Crash
  <2> HIDE DEF Kept
  <2> QED
    BY <2>1, <2>2, <2>3, <2>4, <2>5, ServiceMoves DEF Next, Acts
<1> HIDE DEF Kept
<1> QED
  BY <1>1, <1>2, <1>3, <1>4, <1>5

------------------------------------------------------------------------------
(* What a call does to the memory and the queue its program has *)

\* What p has attached after a step is what it had, or the queue that has the
\* name beside the memory it had.
Attaches(p) ==
  \/ cmq'[p] = None
  \/ cshared'[p] = cshared[p] /\ cmq'[p] = cmq[p]
  \/ UNCHANGED vars /\ cshared'[p] = cshared[p] /\ cmq'[p] = mqName

LEMMA CallStep ==
  ASSUME SoleCaller, ClientTypes, CallInv, NEW a \in App,
         Call(a) \/ (AppStep(a) /\ ~AppBadAccess(a))
  PROVE  CallInv' /\ \A p \in Proc : Attaches(p)
<1> USE AppAssumption
<1> USE DEF SoleCaller, ClientTypes, CallInv, Attaches, ClientProc, Attaching, AppAt,
            AppGoto, attached
<1>1. CASE Call(a)
  BY <1>1 DEF Call, CallInit, CallDue, CallNotDue
<1>2. CASE \/ UseNothing(a) \/ UseDue(a) \/ Copy(a) \/ Send(a)
           \/ AliveUnmapped(a) \/ AliveCheck(a) \/ AliveWait(a) \/ AliveRead(a)
           \/ AliveDead(a)
  BY <1>2 DEF UseNothing, UseDue, Copy, Send, AliveUnmapped, AliveCheck, AliveWait,
     AliveRead, AliveDead
<1>3. CASE UseNotDue(a)
  BY <1>3 DEF UseNotDue, Uses
<1>4. CASE AliveSelf(a) \/ AliveYes(a)
  BY <1>4 DEF AliveSelf, AliveYes, Checked, Resume
<1>5. CASE Disconnect(a)
  BY <1>5 DEF Disconnect
<1>6. CASE RundllHasThread(a) \/ RundllFull(a) \/ SetTid(a)
  BY <1>6 DEF RundllHasThread, RundllFull, SetTid
<1>7. ASSUME NEW t \in Thread, RundllThread(a, t) \/ RundllProcess(a, t)
      PROVE  CallInv' /\ \A p \in Proc : Attaches(p)
  BY <1>7 DEF RundllThread, RundllProcess
<1>8. CASE ConnectOpen(a)
  BY <1>8 DEF ConnectOpen
<1>9. CASE ConnectNoShm(a)
  BY <1>9 DEF ConnectNoShm, Connected, Resume
<1>10. CASE ConnectMap(a)
  BY <1>10 DEF ConnectMap
<1>11. CASE ConnectQueue(a)
  BY <1>11 DEF ConnectQueue, Connected, Resume, world, service, vars
<1>12. CASE ConnectNoQueue(a)
  BY <1>12 DEF ConnectNoQueue, Connected, Resume
<1> QED
  BY <1>1, <1>2, <1>3, <1>4, <1>5, <1>6, <1>7, <1>8, <1>9, <1>10, <1>11, <1>12
  DEF AppStep

LEMMA ClientDiesStep ==
  ASSUME ClientTypes, CallInv, NEW p \in Proc, ClientDies(p)
  PROVE  CallInv' /\ \A q \in Proc : Attaches(q)
BY AppAssumption DEF ClientTypes, CallInv, ClientDies, Attaches, ClientProc, Attaching

LEMMA AttachStep ==
  ASSUME SoleCaller, ClientTypes, CallInv, [ClientNext]_cvars
  PROVE  CallInv' /\ \A p \in Proc : Attaches(p)
<1> DEFINE Goal == CallInv' /\ \A p \in Proc : Attaches(p)
<1> USE AppAssumption, ThreadAssumption
<1>1. ASSUME UNCHANGED <<initDone, attached, apc>>  PROVE Goal
  BY <1>1 DEF CallInv, Attaches, attached
<1>2. ASSUME NEW t \in Thread,
             \/ ServerStep(t) \/ ServerOther(t) \/ DaemonStart(t)
             \/ ServerThreadEnds(t) \/ Receive(t)
      PROVE  Goal
  BY <1>1, <1>2 DEF ServerStep, ServerOther, DaemonStart, ServerThreadEnds, Receive, client
<1>3. ASSUME NEW a \in App, Call(a) \/ AppStep(a)  PROVE Goal
  <2>1. CASE AppBadAccess(a)
    BY <2>1, ClientDiesStep DEF AppBadAccess
  <2> QED
    BY <1>3, <2>1, CallStep
<1>4. ASSUME NEW p \in Proc, Finalize(p)  PROVE Goal
  BY <1>4 DEF Finalize, ClientTypes, CallInv, Attaches, Attaching
<1>5. ASSUME NEW p \in Proc, ProcessEnds(p)  PROVE Goal
  BY <1>5, ClientDiesStep DEF ProcessEnds
<1>6. ASSUME NEW p \in Proc, PidReused(p)  PROVE Goal
  BY <1>1, <1>6 DEF PidReused, client
<1>7. ASSUME UNCHANGED cvars  PROVE Goal
  BY <1>1, <1>7 DEF cvars, client
<1> HIDE DEF Goal
<1> QED
  <2> SUFFICES Goal
    BY DEF Goal
  <2> QED
    BY <1>2, <1>3, <1>4, <1>5, <1>6, <1>7 DEF ClientNext

------------------------------------------------------------------------------
(* The pairs stay right *)

LEMMA PairStep ==
  ASSUME SoleCaller, ~StaleQueue, "mq_unlink" \notin Fails,
         ServiceInv, ClientTypes, CallInv, PairInv, [ClientNext]_cvars
  PROVE  PairInv'
<1> SUFFICES ASSUME NEW p \in Proc, NEW t \in Thread,
                    cshared'[p] # None, cmq'[p] # None
             PROVE  /\ ~Builds(t, cshared[p])'
                    /\ Backs(t, cshared[p])' => cmq'[p] = mq'[ProcOf[t]]
  BY DEF PairInv
<1> PICK g : g = cshared[p]
  OBVIOUS
<1>1. cshared'[p] = g
  BY AttachStep DEF Attaches
<1>2. (Builds(t, cshared[p])' <=> Builds(t, g)') /\ (Backs(t, cshared[p])' <=> Backs(t, g)')
  BY <1>1 DEF Builds, Backs
<1>3. CASE cmq'[p] = cmq[p]
  <2>1. ~Builds(t, g) /\ (Backs(t, g) => cmq[p] = mq[ProcOf[t]])
    BY <1>1, <1>3 DEF PairInv
  <2>2. g \notin FreshGen
    BY <1>3 DEF CallInv, ClientProc, FreshGen
  <2>3. /\ Builds(t, g)' => Builds(t, g) \/ g \in FreshGen
        /\ Backs(t, g)' => \/ Builds(t, g)
                           \/ Backs(t, g) /\ mq'[ProcOf[t]] = mq[ProcOf[t]]
    BY MemoryMoves DEF ServiceInv
  <2> QED
    BY <1>1, <1>2, <1>3, <2>1, <2>2, <2>3
<1>4. CASE UNCHANGED vars /\ cmq'[p] = mqName
  <2>1. ~Builds(t, g)
    BY <1>4 DEF Builds, ServiceInv, FreshQueueInv, QueueInv
  <2>2. Backs(t, g) => mqName = mq[ProcOf[t]]
    BY DEF Backs, ServiceInv, NamesInv, CreateInv
  <2> QED
    BY <1>1, <1>2, <1>4, <2>1, <2>2 DEF Builds, Backs, vars, globals, locals
<1> QED
  BY <1>2, <1>3, <1>4, AttachStep DEF Attaches

LEMMA PairHolds ==
  ASSUME SoleCaller, ~StaleQueue, "mq_unlink" \notin Fails
  PROVE  ClientSpec => [](ServiceInv /\ ClientTypes /\ CallInv /\ PairInv)
<1>1. ClientInit => CallInv /\ PairInv
  BY AppAssumption DEF ClientInit, CallInv, PairInv, Attaching
<1>2. ServiceInv /\ ClientTypes /\ CallInv /\ PairInv /\ [ClientNext]_cvars
        => CallInv' /\ PairInv'
  BY AttachStep, PairStep
<1> QED
  BY <1>1, <1>2, ClientTypesHold, PTL DEF ClientSpec

\* With one thread per program that calls the API, and started without a queue
\* that cannot be removed, no client pairs the shared memory of a running service
\* with another's queue, for any number of programs and services that come and
\* go between the two steps of xinput_gamepad_service_connect().
THEOREM NoMixedGenerationsHolds ==
  ASSUME SoleCaller, ~StaleQueue, "mq_unlink" \notin Fails
  PROVE  ClientSpec => []NoMixedGenerations
<1>1. ServiceInv /\ PairInv => NoMixedGenerations
  <2> SUFFICES ASSUME ServiceInv, PairInv, NEW p \in Proc, NEW t \in Thread, Serves(t),
                      cshared[p] = shared[ProcOf[t]], cmq[p] # None
               PROVE  cmq[p] = mq[ProcOf[t]]
    BY DEF NoMixedGenerations
  <2>1. Backs(t, cshared[p])
    BY DEF Serves, Serving, Backs
  <2>2. shared[ProcOf[t]] # None
    BY DEF Serves, Serving, ServiceInv, NamesInv, SharedInv
  <2> QED
    BY <2>1, <2>2 DEF PairInv
<1> QED
  BY <1>1, PairHolds, PTL

==============================================================================
