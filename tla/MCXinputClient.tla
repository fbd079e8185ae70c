--------------------------- MODULE MCXinputClient ---------------------------
(***************************************************************************)
(* Instances of XinputClient for TLC: clients with server processes of     *)
(* their own (Wine), and clients that host the server in a thread.         *)
(***************************************************************************)
EXTENDS XinputClient, TLC

CONSTANTS p1, p2, p3, t1, t2, t3, a1, a2, g1, g2, g3, q1, q2, q3

Nobody == {}
Procs1 == {p1}
Procs2 == {p1, p2}
Procs3 == {p1, p2, p3}
Threads2 == {t1, t2}
Apps1 == {a1}
Apps2 == {a1, a2}
Gens3 == {g1, g2, g3}
Queues3 == {q1, q2, q3}

\* one client process p1, server processes p2 and p3
Servers2 == (t1 :> p2) @@ (t2 :> p3)
Client1 == a1 :> p1

\* a client p1 that may host a server thread, and a daemon p2
Hosts2 == (t1 :> p1) @@ (t2 :> p2)
Daemon2 == {t2}

\* one client process with two threads that call the API
Host1Twice == (t1 :> p1) @@ (t2 :> p1)
TwoInClient == (a1 :> p1) @@ (a2 :> p1)

\* any but mq_unlink: no queue is left over
AnyCall == {"open", "shm_open", "ftruncate", "mq_open", "pthread_create",
            "shm_unlink"}
AnyPoint == PCs

\* a process is not killed between shm_open(O_CREAT) and ftruncate()
NotInTheGap == PCs \ {"ftruncate"}
=============================================================================
