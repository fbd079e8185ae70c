-------------------------- MODULE MCXinputService --------------------------
(***************************************************************************)
(* Instances of XinputService for TLC, with the invariants of the proofs:  *)
(* one server thread per process (the native library and the daemon).      *)
(***************************************************************************)
EXTENDS XinputServiceProofs, TLC

CONSTANTS p1, p2, p3, t1, t2, t3, g1, g2, g3, q1, q2, q3

Procs3 == {p1, p2, p3}
Threads3 == {t1, t2, t3}
Gens3 == {g1, g2, g3}
Queues3 == {q1, q2, q3}

\* one server thread per process
OneEach3 == (t1 :> p1) @@ (t2 :> p2) @@ (t3 :> p3)

AnyCall == {"open", "shm_open", "ftruncate", "mq_open", "pthread_create",
            "mq_unlink", "shm_unlink"}
AnyPoint == PCs

Nobody == {}

\* Of the free identities a new object gets the first: which it is makes no
\* difference.
First(S) == {x \in S : x = CHOOSE y \in S : TRUE}
FirstNames ==
  /\ shmName' \in {shmName, None} \cup First({g \in Gen : FreeGen(g)})
  /\ mqName' \in {mqName, None} \cup First({q \in Queue : FreeQueue(q)})

MCSpec == Init /\ [][Next /\ FirstNames]_vars /\ Fairness
=============================================================================
