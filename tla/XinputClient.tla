---------------------------- MODULE XinputClient ----------------------------
(***************************************************************************)
(* The clients (src/src/xinput_gamepad.c) beside the service: an API call  *)
(* first makes sure that the shared memory and the queue of a live service *)
(* are attached, and starts a server when there is none.                   *)
(*                                                                         *)
(* The same library can run the server in a thread of the client           *)
(* (XINPUT_RUNDLL 0) or in a process of its own (XINPUT_RUNDLL 1).  Sleeps *)
(* only let the others run; whether a probe is due is left open.           *)
(***************************************************************************)
EXTENDS XinputService

CONSTANTS
  App,        \* threads of the programs that call the XInput API
  AppOf,      \* the process of each of them
  RunDll,     \* XINPUT_RUNDLL: the server gets a process of its own
  SpawnRace,  \* a new thread may run before pthread_create() returns
  Daemon,      \* server threads started as a daemon by main()
  Rumblers,    \* application threads that send rumble commands
  MaxMsg       \* mq_maxmsg: commands a queue holds

ClientProc == {AppOf[a] : a \in App}

ASSUME AppAssumption ==
  /\ AppOf \in [App -> Proc]
  /\ RunDll \in BOOLEAN /\ SpawnRace \in BOOLEAN
  /\ Daemon \subseteq {t \in Thread : ProcOf[t] \notin ClientProc}
  /\ Rumblers \subseteq App
  /\ MaxMsg \in Nat \ {0}
  /\ None \notin Thread

VARIABLES
  initDone,   \* per process: xinput_gamepad_init_done
  tid,        \* per process: service_thread_id
  running,    \* server threads spawned by rundll() that have not returned
  cshared,    \* per process: client_shared
  cmq,        \* per process: client_mq
  apc,        \* per application thread: where it is
  cont,       \* why it connects: "init", or the call that probes
  cmap,       \* the mapping in connect()
  atries,     \* reads of master_pid left in is_alive()
  apid,       \* the pid is_alive() has read
  child,      \* the thread rundll() has just created
  depth       \* per queue: rumble commands waiting in it

service  == <<alive, lockOwner, names, globals, locals, pc, faults>>
world    == <<service, depth>>
attached == <<cshared, cmq>>
checking == <<atries, apid>>
client   == <<initDone, tid, running, attached, apc, cont, cmap, checking,
              child, depth>>
cvars    == <<service, client>>

APCs == {"out", "alive", "await", "ajudge", "disconnect", "rundll", "settid",
         "connect", "map", "mq", "use", "copy", "send"}

ClientTypeOK ==
  /\ TypeOK
  /\ initDone \in [Proc -> BOOLEAN]
  /\ tid \in [Proc -> Thread \cup {None}]
  /\ running \subseteq Thread
  /\ cshared \in [Proc -> Gen \cup {None}]
  /\ cmq \in [Proc -> Queue \cup {None}]
  /\ apc \in [App -> APCs]
  /\ cont \in [App -> {"init", "connected", "copy", "send"}]
  /\ cmap \in [App -> Gen \cup {None}]
  /\ atries \in [App -> 0..Tries]
  /\ apid \in [App -> Proc \cup {Unset, Broken}]
  /\ child \in [App -> Thread \cup {None}]
  /\ depth \in [Queue -> 0..MaxMsg]

ClientInit ==
  /\ Init
  /\ initDone = [p \in Proc |-> FALSE]
  /\ tid = [p \in Proc |-> None]
  /\ running = {}
  /\ cshared = [p \in Proc |-> None]
  /\ cmq = [p \in Proc |-> None]
  /\ apc = [a \in App |-> "out"]
  /\ cont = [a \in App |-> "connected"]
  /\ cmap = [a \in App |-> None]
  /\ atries = [a \in App |-> 0]
  /\ apid = [a \in App |-> Unset]
  /\ child = [a \in App |-> None]
  /\ depth = [q \in Queue |-> 0]

------------------------------------------------------------------------------
AppAt(a, c) == apc[a] = c /\ AppOf[a] \in alive
AppGoto(a, c) == apc' = [apc EXCEPT ![a] = c]

\* where connect() and is_alive() return to
Resume(a, c) == AppGoto(a, CASE cont[a] = "init" -> c
                             [] cont[a] = "connected" -> "use"
                             [] OTHER -> cont[a])
Connected(a) == Resume(a, "alive")
Checked(a) == Resume(a, "out")

------------------------------------------------------------------------------
(* xinput_gamepad_service_probe() and xinput_gamepad_init() *)

\* init_done is set before anything is initialised
CallInit(a) ==
  /\ AppAt(a, "out")
  /\ ~initDone[AppOf[a]]
  /\ initDone' = [initDone EXCEPT ![AppOf[a]] = TRUE]
  /\ cont' = [cont EXCEPT ![a] = "init"]
  /\ AppGoto(a, "rundll")
  /\ UNCHANGED <<world, tid, running, attached, cmap, checking, child>>

\* more than XINPUT_OWNER_REPROBE_PERIOD_US since the last probe
CallDue(a) ==
  /\ AppAt(a, "out")
  /\ initDone[AppOf[a]]
  /\ cont' = [cont EXCEPT ![a] = "connected"]
  /\ AppGoto(a, "alive")
  /\ UNCHANGED <<world, initDone, tid, running, attached, cmap, checking,
                 child>>

CallNotDue(a) ==
  /\ AppAt(a, "out")
  /\ initDone[AppOf[a]]
  /\ cont' = [cont EXCEPT ![a] = "connected"]
  /\ AppGoto(a, "use")
  /\ UNCHANGED <<world, initDone, tid, running, attached, cmap, checking,
                 child>>

\* xinput_gamepad_connected() found no mapping, or no gamepad in the slot
UseNothing(a) ==
  /\ AppAt(a, "use")
  /\ AppGoto(a, "out")
  /\ UNCHANGED <<world, initDone, tid, running, attached, cont, cmap, checking,
                 child>>

\* a gamepad is there: its state is copied, or a rumble command sent
Uses(a) == {"copy"} \cup IF a \in Rumblers THEN {"send"} ELSE {}

\* ... and copy_state() or rumble() probes once more
UseDue(a) ==
  /\ AppAt(a, "use")
  /\ cshared[AppOf[a]] # None
  /\ \E c \in Uses(a) : cont' = [cont EXCEPT ![a] = c]
  /\ AppGoto(a, "alive")
  /\ UNCHANGED <<world, initDone, tid, running, attached, cmap, checking,
                 child>>

UseNotDue(a) ==
  /\ AppAt(a, "use")
  /\ cshared[AppOf[a]] # None
  /\ \E c \in Uses(a) : AppGoto(a, c)
  /\ UNCHANGED <<world, initDone, tid, running, attached, cont, cmap, checking,
                 child>>

\* mq_send() blocks while the queue is full; on MQD_INVALID it fails with
\* EBADF and rumble() calls it again without end, which changes nothing
Send(a) ==
  LET q == cmq[AppOf[a]] IN
  /\ AppAt(a, "send")
  /\ q # None
  /\ depth[q] < MaxMsg
  /\ depth' = [depth EXCEPT ![q] = @ + 1]
  /\ AppGoto(a, "out")
  /\ UNCHANGED <<service, initDone, tid, running, attached, cont, cmap,
                 checking, child>>

Copy(a) ==
  /\ AppAt(a, "copy")
  /\ cshared[AppOf[a]] # None
  /\ AppGoto(a, "out")
  /\ UNCHANGED <<world, initDone, tid, running, attached, cont, cmap, checking,
                 child>>

------------------------------------------------------------------------------
(* xinput_gamepad_service_is_alive() *)

IsSelf(p) == ~RunDll /\ shared[p] # None

\* the process hosts the service: no further check
AliveSelf(a) ==
  /\ AppAt(a, "alive")
  /\ IsSelf(AppOf[a])
  /\ cshared[AppOf[a]] # None
  /\ Checked(a)
  /\ UNCHANGED <<world, initDone, tid, running, attached, cont, cmap, checking,
                 child>>

AliveUnmapped(a) ==
  /\ AppAt(a, "alive")
  /\ ~IsSelf(AppOf[a])
  /\ cshared[AppOf[a]] = None
  /\ AppGoto(a, "disconnect")
  /\ UNCHANGED <<world, initDone, tid, running, attached, cont, cmap, checking,
                 child>>

AliveCheck(a) ==
  /\ AppAt(a, "alive")
  /\ ~IsSelf(AppOf[a])
  /\ cshared[AppOf[a]] # None
  /\ atries' = [atries EXCEPT ![a] = Tries]
  /\ AppGoto(a, "await")
  /\ UNCHANGED <<world, initDone, tid, running, attached, cont, cmap, apid,
                 child>>

\* mutant: a pid of 0 is read again without a limit
AliveWaitForever(a) ==
  LET g == cshared[AppOf[a]] IN
  /\ AppAt(a, "await")
  /\ g # None
  /\ master[g] = Unset
  /\ atries' = [atries EXCEPT ![a] = @ - 1]
  /\ UNCHANGED <<world, initDone, tid, running, attached, apc, cont, cmap,
                 apid, child>>

\* mutant: the tries are not counted
AliveWaitUncounted(a) ==
  LET g == cshared[AppOf[a]] IN
  /\ AppAt(a, "await")
  /\ g # None
  /\ master[g] = Unset
  /\ atries[a] > 1
  /\ UNCHANGED cvars

AliveWait(a) ==
  LET g == cshared[AppOf[a]] IN
  /\ AppAt(a, "await")
  /\ g # None
  /\ master[g] = Unset
  /\ atries[a] > 1
  /\ atries' = [atries EXCEPT ![a] = @ - 1]
  /\ UNCHANGED <<world, initDone, tid, running, attached, apc, cont, cmap,
                 apid, child>>

AliveRead(a) ==
  LET g == cshared[AppOf[a]] IN
  /\ AppAt(a, "await")
  /\ g # None
  /\ master[g] = Unset => atries[a] <= 1
  /\ apid' = [apid EXCEPT ![a] = master[g]]
  /\ atries' = [atries EXCEPT ![a] = 0]
  /\ AppGoto(a, "ajudge")
  /\ UNCHANGED <<world, initDone, tid, running, attached, cont, cmap, child>>

AliveDead(a) ==
  /\ AppAt(a, "ajudge")
  /\ apid[a] \notin alive
  /\ apid' = [apid EXCEPT ![a] = Unset]
  /\ AppGoto(a, "disconnect")
  /\ UNCHANGED <<world, initDone, tid, running, attached, cont, cmap, atries,
                 child>>

\* mutant: every pid is taken for one of a process that is alive
AliveYesBroken(a) ==
  /\ AppAt(a, "ajudge")
  /\ cshared[AppOf[a]] # None
  /\ apid' = [apid EXCEPT ![a] = Unset]
  /\ Checked(a)
  /\ UNCHANGED <<world, initDone, tid, running, attached, cont, cmap, atries,
                 child>>

AliveYes(a) ==
  /\ AppAt(a, "ajudge")
  /\ apid[a] \in alive
  /\ cshared[AppOf[a]] # None
  /\ apid' = [apid EXCEPT ![a] = Unset]
  /\ Checked(a)
  /\ UNCHANGED <<world, initDone, tid, running, attached, cont, cmap, atries,
                 child>>

\* mutant: the call gives up instead of starting a server
DisconnectOnly(a) ==
  /\ AppAt(a, "disconnect")
  /\ cshared' = [cshared EXCEPT ![AppOf[a]] = None]
  /\ cmq' = [cmq EXCEPT ![AppOf[a]] = None]
  /\ AppGoto(a, "connect")
  /\ UNCHANGED <<world, initDone, tid, running, cont, cmap, checking, child>>

\* xinput_gamepad_service_disconnect(), before a server is started
Disconnect(a) ==
  /\ AppAt(a, "disconnect")
  /\ cshared' = [cshared EXCEPT ![AppOf[a]] = None]
  /\ cmq' = [cmq EXCEPT ![AppOf[a]] = None]
  /\ AppGoto(a, "rundll")
  /\ UNCHANGED <<world, initDone, tid, running, cont, cmap, checking, child>>

------------------------------------------------------------------------------
(* xinput_service_rundll() *)

RundllHasThread(a) ==
  /\ AppAt(a, "rundll")
  /\ ~RunDll
  /\ tid[AppOf[a]] # None
  /\ AppGoto(a, "connect")
  /\ UNCHANGED <<world, initDone, tid, running, attached, cont, cmap, checking,
                 child>>

\* pthread_create(): the new thread may run, and end, before its id is stored
RundllThread(a, t) ==
  /\ AppAt(a, "rundll")
  /\ ~RunDll
  /\ tid[AppOf[a]] = None
  /\ ProcOf[t] = AppOf[a] /\ t \notin running
  /\ Start(t)
  /\ running' = running \cup {t}
  /\ IF SpawnRace
     THEN /\ child' = [child EXCEPT ![a] = t]
          /\ AppGoto(a, "settid")
          /\ UNCHANGED tid
     ELSE /\ tid' = [tid EXCEPT ![AppOf[a]] = t]
          /\ AppGoto(a, "connect")
          /\ UNCHANGED child
  /\ UNCHANGED <<initDone, attached, cont, cmap, checking, depth>>

SetTid(a) ==
  /\ AppAt(a, "settid")
  /\ tid' = [tid EXCEPT ![AppOf[a]] = child[a]]
  /\ child' = [child EXCEPT ![a] = None]
  /\ AppGoto(a, "connect")
  /\ UNCHANGED <<world, initDone, running, attached, cont, cmap, checking>>

\* CreateProcess() of rundll32
RundllProcess(a, t) ==
  /\ AppAt(a, "rundll")
  /\ RunDll
  /\ ProcOf[t] \notin ClientProc
  /\ Start(t)
  /\ AppGoto(a, "connect")
  /\ UNCHANGED <<initDone, tid, running, attached, cont, cmap, checking, child,
                 depth>>

\* every process there is room for already runs a server; it does not matter
\* whether one more would be refused the lock
RundllFull(a) ==
  /\ AppAt(a, "rundll")
  /\ RunDll
  /\ \A t \in Thread : ProcOf[t] \in ClientProc \/ ~At(t, "idle")
  /\ AppGoto(a, "connect")
  /\ UNCHANGED <<world, initDone, tid, running, attached, cont, cmap, checking,
                 child>>

\* xinput_service_server_thread() after xinput_service_server() returned
ServerThreadEnds(t) ==
  /\ At(t, "idle")
  /\ t \in running
  /\ running' = running \ {t}
  /\ tid' = [tid EXCEPT ![ProcOf[t]] = None]
  /\ UNCHANGED <<world, initDone, attached, apc, cont, cmap, checking, child>>

------------------------------------------------------------------------------
(* xinput_gamepad_service_connect() *)

ConnectOpen(a) ==
  /\ AppAt(a, "connect")
  /\ shmName # None
  /\ cmap' = [cmap EXCEPT ![a] = shmName]
  /\ AppGoto(a, "map")
  /\ UNCHANGED <<world, initDone, tid, running, attached, cont, checking,
                 child>>

\* ENOENT: init() starts a server and tries again, probe() ignores it
ConnectNoShm(a) ==
  /\ AppAt(a, "connect")
  /\ shmName = None
  /\ IF cont[a] = "init" THEN AppGoto(a, "rundll") ELSE Connected(a)
  /\ UNCHANGED <<world, initDone, tid, running, attached, cont, cmap, checking,
                 child>>

ConnectMap(a) ==
  /\ AppAt(a, "map")
  /\ sized[cmap[a]]
  /\ cshared' = [cshared EXCEPT ![AppOf[a]] = cmap[a]]
  /\ cmap' = [cmap EXCEPT ![a] = None]
  /\ AppGoto(a, "mq")
  /\ UNCHANGED <<world, initDone, tid, running, cmq, cont, checking, child>>

ConnectQueue(a) ==
  /\ AppAt(a, "mq")
  /\ mqName # None
  /\ cshared[AppOf[a]] # None
  /\ cmq' = [cmq EXCEPT ![AppOf[a]] = mqName]
  /\ Connected(a)
  /\ UNCHANGED <<world, initDone, tid, running, cshared, cont, cmap, checking,
                 child>>

\* no queue: disconnect(), and init() tries again without starting a server
ConnectNoQueue(a) ==
  /\ AppAt(a, "mq")
  /\ mqName = None
  /\ cshared' = [cshared EXCEPT ![AppOf[a]] = None]
  /\ cmq' = [cmq EXCEPT ![AppOf[a]] = None]
  /\ IF cont[a] = "init" THEN AppGoto(a, "connect") ELSE Connected(a)
  /\ UNCHANGED <<world, initDone, tid, running, cont, cmap, checking, child>>

------------------------------------------------------------------------------
(* Processes *)

\* xinput_gamepad_finalize(), when the program unloads the library between two
\* calls; the code of a server thread would go with it, so there is none
Finalize(p) ==
  /\ p \in ClientProc \cap alive
  /\ initDone[p]
  /\ \A a \in App : AppOf[a] = p => apc[a] = "out"
  /\ \A t \in running : ProcOf[t] # p
  /\ initDone' = [initDone EXCEPT ![p] = FALSE]
  /\ tid' = [tid EXCEPT ![p] = None]
  /\ cshared' = [cshared EXCEPT ![p] = None]
  /\ cmq' = [cmq EXCEPT ![p] = None]
  /\ UNCHANGED <<world, running, apc, cont, cmap, checking, child>>

ClientDies(p) ==
  /\ initDone' = [initDone EXCEPT ![p] = FALSE]
  /\ tid' = [tid EXCEPT ![p] = None]
  /\ running' = {t \in running : ProcOf[t] # p}
  /\ cshared' = [cshared EXCEPT ![p] = None]
  /\ cmq' = [cmq EXCEPT ![p] = None]
  /\ LET Reset(f, x) == [a \in App |-> IF AppOf[a] = p THEN x ELSE f[a]] IN
     /\ apc' = Reset(apc, "out")
     /\ cont' = Reset(cont, "connected")
     /\ cmap' = Reset(cmap, None)
     /\ atries' = Reset(atries, 0)
     /\ apid' = Reset(apid, Unset)
     /\ child' = Reset(child, None)
  /\ UNCHANGED depth

\* SIGBUS on shared memory its creator has not sized yet, SIGSEGV on a
\* client_shared that is NULL
AppBadAccess(a) ==
  LET p == AppOf[a] IN
  /\ \/ AppAt(a, "map") /\ ~sized[cmap[a]]
     \/ cshared[p] = None /\
        \/ AppAt(a, "alive") /\ IsSelf(p)
        \/ AppAt(a, "await")
        \/ AppAt(a, "ajudge") /\ apid[a] \in alive
        \/ AppAt(a, "mq") /\ mqName # None
        \/ AppAt(a, "copy")
  /\ Dies(p)
  /\ ClientDies(p)
  /\ UNCHANGED faults

ProcessEnds(p) ==
  /\ \/ Crash(p)
     \/ \E t \in Thread : ProcOf[t] = p /\ BadAccess(t)
  /\ ClientDies(p)

------------------------------------------------------------------------------
\* Objects the clients map are not free either.  Of the free ones a new object
\* gets the first: which it is makes no difference.
FreshGen == {g \in Gen : /\ FreeGen(g)
                         /\ \A a \in App : g \notin {cshared[AppOf[a]], cmap[a]}}
FreshQueue == {q \in Queue : FreeQueue(q) /\ \A p \in Proc : cmq[p] # q}
First(S) == {x \in S : x = CHOOSE y \in S : TRUE}

NewNames ==
  /\ shmName' \in {shmName, None} \cup First(FreshGen)
  /\ mqName' \in {mqName, None} \cup First(FreshQueue)

ServerStep(t) ==
  /\ Step(t)
  /\ NewNames
  /\ depth' = IF mqName' \in {mqName, None} THEN depth
              ELSE [depth EXCEPT ![mqName'] = 0]
  /\ UNCHANGED <<initDone, tid, running, attached, apc, cont, cmap, checking,
                 child>>

\* xinput_service_rumble_thread()
Receive(t) ==
  LET q == mq[ProcOf[t]] IN
  /\ At(t, "service")
  /\ q # None
  /\ depth[q] > 0
  /\ depth' = [depth EXCEPT ![q] = @ - 1]
  /\ UNCHANGED <<service, initDone, tid, running, attached, apc, cont, cmap,
                 checking, child>>

ServerOther(t) ==
  /\ IdleStop(t) \/ Fault(t)
  /\ UNCHANGED client

DaemonStart(t) == t \in Daemon /\ Start(t) /\ UNCHANGED client

PidReused(p) == Reuse(p) /\ UNCHANGED client

Call(a) == CallInit(a) \/ CallDue(a) \/ CallNotDue(a)

AppStep(a) ==
  \/ UseNothing(a) \/ UseDue(a) \/ UseNotDue(a) \/ Copy(a)
  \/ Send(a)
  \/ AliveSelf(a) \/ AliveUnmapped(a) \/ AliveCheck(a) \/ AliveWait(a)
  \/ AliveRead(a) \/ AliveDead(a) \/ AliveYes(a) \/ Disconnect(a)
  \/ RundllHasThread(a) \/ RundllFull(a) \/ SetTid(a)
  \/ \E t \in Thread : RundllThread(a, t) \/ RundllProcess(a, t)
  \/ ConnectOpen(a) \/ ConnectNoShm(a) \/ ConnectMap(a) \/ ConnectQueue(a)
  \/ ConnectNoQueue(a) \/ AppBadAccess(a)

ClientNext ==
  \/ \E t \in Thread : \/ ServerStep(t) \/ ServerOther(t) \/ DaemonStart(t)
                       \/ ServerThreadEnds(t) \/ Receive(t)
  \/ \E a \in App : Call(a) \/ AppStep(a)
  \/ \E p \in Proc : Finalize(p) \/ ProcessEnds(p) \/ PidReused(p)

ClientSpec == ClientInit /\ [][ClientNext]_cvars

\* Runnable threads are scheduled; the programs keep calling the API, and their
\* calls are more than a second apart again and again.
ClientFairness ==
  /\ \A t \in Thread :
       /\ WF_cvars(ServerStep(t)) /\ WF_cvars(ServerThreadEnds(t))
       /\ WF_cvars(Receive(t))
       /\ WF_cvars(BadAccess(t) /\ ClientDies(ProcOf[t]))
  /\ \A a \in App :
       WF_cvars(AppStep(a)) /\ WF_cvars(Call(a)) /\ SF_cvars(CallDue(a))

ClientFairSpec == ClientSpec /\ ClientFairness

------------------------------------------------------------------------------
(* What the clients can rely on *)

Serves(t) == pc[t] = "service" /\ ProcOf[t] \in alive

\* A client never pairs the shared memory of a running service with another
\* service's queue: its rumble commands reach the server whose state it reads
\* (xinput_gamepad_service_connect()).
NoMixedGenerations ==
  \A p \in Proc, t \in Thread :
    Serves(t) /\ cshared[p] = shared[ProcOf[t]] /\ cmq[p] # None
      => cmq[p] = mq[ProcOf[t]]

\* What a call never returns from, unless the system around it changes:
\* rumble() repeats mq_send() on MQD_INVALID without end, or blocks in it while
\* the queue is full and the server that read it is gone;
NoReceiver(a) ==
  LET q == cmq[AppOf[a]] IN
  /\ apc[a] = "send"
  /\ q # None => depth[q] = MaxMsg /\ \A p \in Proc : mq[p] # q

\* init() finds the shared memory of a server that died before it made the
\* queue, and starts no server for that;
NoQueue(a) == apc[a] # "out" /\ cont[a] = "init" /\ shmName # None /\ mqName = None

\* init() starts no server because service_thread_id names a thread that had
\* ended before pthread_create() returned.
GhostThread(a) ==
  LET t == tid[AppOf[a]] IN
  apc[a] # "out" /\ cont[a] = "init" /\ t # None /\ t \notin running

Stuck(a) == <>[]NoReceiver(a) \/ <>[]NoQueue(a) \/ <>[]GhostThread(a)
ProgramStuck(p) == \E a \in App : AppOf[a] = p /\ Stuck(a)

\* services that stop again before a call has found them
ServicesKeepStopping == []<>(\E t \in Thread : pc[t] = "destroy")

\* Every call of the API returns, whatever crashes or fails meanwhile and
\* however the starting server and the call interleave: these are the only
\* ways to wait for ever (xinput_gamepad_init(), probe(), rumble()).
CallsReturn ==
  \A a \in App : []<>(apc[a] = "out") \/ Stuck(a) \/ ServicesKeepStopping

\* A process that goes on calling the API, and whose calls return, does not
\* stay with shared memory that has lost its name: is_alive() finds out.
StaleMappingDropped ==
  \A p \in ClientProc :
    []<>(cshared[p] \in {None, shmName}) \/ ProgramStuck(p)

\* ... and reaches a running service again and again.
Attached(p) == \E t \in Thread : Serves(t) /\ cshared[p] = shared[ProcOf[t]]
Reconnects ==
  \A p \in ClientProc :
    []<>(p \notin alive \/ Attached(p)) \/ ProgramStuck(p)

\* "If the connection to the daemon is lost, the selection process starts
\* again" (README:15): shared memory without a name is given up, in a process
\* that hosts the service itself too.
ConnectionRestarts ==
  \A p \in ClientProc :
    (cshared[p] \notin {None, shmName}) ~> (cshared[p] \in {None, shmName})

==============================================================================
