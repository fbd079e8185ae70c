------------------------------ MODULE OneServer ------------------------------
(***************************************************************************)
(* What the processes of the xinput service promise the world together,    *)
(* without lock file, poke or order of clean-up: at any time at most one   *)
(* of them is announced, by the pid a client finds in the shared memory.   *)
(* It announces itself on a board (a shared memory object) that has a name *)
(* and a command queue, and neither of them is changed under it; only the  *)
(* queue may be withdrawn before the announcement is.                      *)
(*                                                                         *)
(* XinputService implements this specification, see ImplementsOneServer.   *)
(***************************************************************************)
CONSTANTS Proc, Gen, Queue, None

VARIABLES
  announced,  \* the live processes announced anywhere
  board,      \* where, None when nobody is
  queue       \* the queue beside it, None when nobody is or it is withdrawn

view == <<announced, board, queue>>

Init == announced = {} /\ board = None /\ queue = None

Announce(p, g, q) ==
  /\ announced = {}
  /\ announced' = {p}
  /\ board' = g
  /\ queue' = q

WithdrawQueue ==
  /\ announced # {}
  /\ queue # None
  /\ queue' = None
  /\ UNCHANGED <<announced, board>>

\* by a clean end, or by the death of the process
Withdraw ==
  /\ announced # {}
  /\ announced' = {}
  /\ board' = None
  /\ queue' = None

Next ==
  \/ \E p \in Proc, g \in Gen, q \in Queue : Announce(p, g, q)
  \/ WithdrawQueue
  \/ Withdraw

Spec == Init /\ [][Next]_view
==============================================================================
