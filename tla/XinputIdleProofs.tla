--------------------------- MODULE XinputIdleProofs ---------------------------
(***************************************************************************)
(* The idle shutdown never takes the service from a program that uses it,  *)
(* for any number of clients, periods and delays, and however the clock is *)
(* set back.                                                               *)
(*                                                                         *)
(* The argument: poke_us is never older, by the clock, than what a client  *)
(* last wrote, but for the time it takes to write what has been read.      *)
(***************************************************************************)
EXTENDS XinputIdle, TLAPS

\* A running service has strikes left, and uses the clock it has just read.
TypeInv ==
  /\ TypeOK
  /\ spc # "stopped" => allalone < Strikes
  /\ spc = "judge" => since <= Lag

\* The service's own stamps make poke_us younger than the clients left it, never
\* older; so does a clock that is set back.
AgeInv == age <= idle + Lag

IdleInv == TypeInv /\ AgeInv

------------------------------------------------------------------------------
\* What is older by a moment, and what the cap leaves of it.
LEMMA CapBounds ==
  ASSUME NEW n \in Int
  PROVE  /\ Cap(n) \in Int /\ Cap(n) <= MaxAge /\ Cap(n) <= n
         /\ n < MaxAge => Cap(n) = n
         /\ n >= MaxAge => Cap(n) = MaxAge
BY IdleAssumption DEF Cap

LEMMA OlderType ==
  ASSUME NEW n \in -1 .. Lag, n < Lag
  PROVE  Older(n) \in -1 .. Lag
BY IdleAssumption DEF Older

LEMMA IdleInit == Init => IdleInv
BY IdleAssumption DEF Init, IdleInv, TypeInv, TypeOK, AgeInv

\* Judging ends in another sleep, with the service's stamp or the clients'.
LEMMA JudgeKeeps ==
  ASSUME IdleInv, Judge, age' = since \/ UNCHANGED age,
         allalone' \in 0 .. Strikes - 1
  PROVE  IdleInv'
BY IdleAssumption DEF IdleInv, TypeInv, TypeOK, AgeInv, Judge

LEMMA IdleStep == IdleInv /\ [Next]_vars => IdleInv'
<1> SUFFICES ASSUME IdleInv, [Next]_vars  PROVE IdleInv'
  OBVIOUS
<1> USE IdleAssumption
<1>1. CASE UNCHANGED vars
  BY <1>1 DEF vars, IdleInv, TypeInv, TypeOK, AgeInv
<1>2. CASE Look
  BY <1>2 DEF Look, IdleInv, TypeInv, TypeOK, AgeInv
<1>3. CASE NeverStops \/ Active \/ WeirdClock \/ Strike
  <2>1. spc = "judge" /\ allalone \in 0 .. Strikes - 1 /\ strikes \in {0, Strikes}
    BY <1>3 DEF NeverStops, Active, WeirdClock, Strike, Judge, IdleInv, TypeInv,
         TypeOK
  <2>2. Judge /\ (age' = since \/ UNCHANGED age)
    BY <1>3 DEF NeverStops, Active, WeirdClock, Strike
  <2>3. allalone' \in 0 .. Strikes - 1
    BY <1>3, <2>1 DEF NeverStops, Active, WeirdClock, Strike
  <2> QED
    BY <2>2, <2>3, JudgeKeeps
<1>4. CASE GiveUp
  BY <1>4 DEF GiveUp, IdleInv, TypeInv, TypeOK, AgeInv
<1>5. ASSUME NEW c \in Client, Call(c)  PROVE IdleInv'
  BY <1>5 DEF Call, IdleInv, TypeInv, TypeOK, AgeInv
<1>6. ASSUME NEW c \in Client, Poke(c)  PROVE IdleInv'
  BY <1>6 DEF Poke, IdleInv, TypeInv, TypeOK, AgeInv
<1>7. CASE Tick
  <2>1. stamp' \in [Client -> -1 .. Lag]
    BY <1>7, OlderType DEF Tick, IdleInv, TypeInv, TypeOK
  <2>2. /\ age' \in Int /\ age' <= MaxAge
        /\ idle' \in 0 .. MaxAge
        /\ AgeInv'
    BY <1>7, CapBounds, age + 1 \in Int, idle + 1 \in Int
    DEF Tick, IdleInv, TypeInv, TypeOK, AgeInv
  <2>3. since' \in 0 .. Period + Late + Lag /\ (spc = "judge" => since' <= Lag)
    BY <1>7 DEF Tick, IdleInv, TypeInv, TypeOK
  <2> QED
    BY <1>7, <2>1, <2>2, <2>3 DEF Tick, IdleInv, TypeInv, TypeOK
<1>8. ASSUME NEW j \in SetBack, ClockSetBack(j)  PROVE IdleInv'
  BY <1>8 DEF ClockSetBack, IdleInv, TypeInv, TypeOK, AgeInv
<1> QED
  BY <1>1, <1>2, <1>3, <1>4, <1>5, <1>6, <1>7, <1>8 DEF Next, Service

\* The idle shutdown (xinput_service_thread()) keeps its types and its count of
\* strikes, with any constants.
THEOREM TypeOKHolds == Spec => []TypeOK
<1>1. IdleInv => TypeOK
  BY DEF IdleInv, TypeInv
<1> QED
  BY IdleInit, IdleStep, <1>1, PTL DEF Spec

\* The service gives up (xinput_service_thread()) only when no client has written
\* poke_us for a period, less the time it takes to write what it has read.
THEOREM StopsOnlyUnusedHolds == Spec => StopsOnlyUnused
<1>1. IdleInv /\ [Next]_vars => [GivesUp => idle + Lag > Period]_vars
  <2> SUFFICES ASSUME IdleInv, Next, GivesUp  PROVE idle + Lag > Period
    OBVIOUS
  <2>1. GiveUp
    BY DEF GivesUp, Next, Service, Look, NeverStops, Active, WeirdClock, Strike,
         Judge, Call, Poke, Tick, ClockSetBack
  <2> QED
    BY <2>1, IdleAssumption
    DEF GiveUp, Elapsed, IdleInv, TypeInv, TypeOK, AgeInv
<1> QED
  BY IdleInit, IdleStep, <1>1, PTL DEF Spec, StopsOnlyUnused

===============================================================================
