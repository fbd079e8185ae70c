------------------------------ MODULE XinputIdle ------------------------------
(***************************************************************************)
(* The idle shutdown: the clients stamp poke_us in the shared memory at    *)
(* each API call (src/src/xinput_gamepad.c), the service thread looks at   *)
(* it every XINPUT_DEVICE_PROBE_PERIOD_S (src/src/xinput_service.c) and    *)
(* gives up after some looks without a sign of life.                       *)
(*                                                                         *)
(* The clock is gettimeofday(), which may be set back.  Only differences   *)
(* of stamps matter, so the module keeps ages: how long ago by the clock   *)
(* poke_us is, how long ago the service read the clock, and so on.         *)
(***************************************************************************)
EXTENDS Integers

CONSTANTS
  Client,      \* threads of the programs that call the API
  Period,      \* XINPUT_DEVICE_PROBE_PERIOD_S
  Strikes,     \* XINPUT_IDLE_CLIENT_STRIKES
  Lag,         \* bound on the time between reading the clock and using it
  Late,        \* bound on the delay of the service thread beyond its sleep
  SetBack,     \* the steps by which the clock may be set back
  MaxSetBack,  \* bound on the number of times it is
  MaxAge       \* ages beyond this one are not told apart

ASSUME IdleAssumption ==
  /\ Period \in Nat \ {0} /\ Strikes \in Nat \ {0}
  /\ Lag \in Nat /\ Late \in Nat \ {0}
  /\ SetBack \subseteq Nat /\ MaxSetBack \in Nat
  /\ MaxAge \in Nat /\ MaxAge > Period + Lag + Late + 1

VARIABLES
  strikes,   \* xinput_service_idle_strikes: 0 for the daemon
  age,       \* the clock minus poke_us
  spc,       \* the service thread: "asleep", "judge" or "stopped"
  since,     \* time since the service thread read the clock
  allalone,  \* looks without a sign of life
  stamp,     \* per client: time since it read the clock, -1 if it has not
  idle,      \* time since a client last wrote poke_us
  setbacks

vars == <<strikes, age, spc, since, allalone, stamp, idle, setbacks>>

Cap(n) == IF n < MaxAge THEN n ELSE MaxAge

TypeOK ==
  /\ strikes \in {0, Strikes}
  /\ age \in Int /\ age <= MaxAge
  /\ spc \in {"asleep", "judge", "stopped"}
  /\ since \in 0 .. Period + Late + Lag
  /\ allalone \in 0 .. Strikes
  /\ stamp \in [Client -> -1 .. Lag]
  /\ idle \in 0 .. MaxAge
  /\ setbacks \in 0 .. MaxSetBack

\* the shared memory has just been cleared: poke_us is 0, long ago
Init ==
  /\ strikes \in {0, Strikes}
  /\ age = MaxAge
  /\ spc = "asleep"
  /\ since = Period + 1
  /\ allalone = 0
  /\ stamp = [c \in Client |-> -1]
  /\ idle = MaxAge
  /\ setbacks = 0

------------------------------------------------------------------------------
(* xinput_service_thread() *)

\* sleep() lasts the period at least, and the probe some time more
Look ==
  /\ spc = "asleep"
  /\ since > Period
  /\ since' = 0
  /\ spc' = "judge"
  /\ UNCHANGED <<strikes, age, allalone, stamp, idle, setbacks>>

\* now - poke_us, with now read a while ago
Elapsed == age - since

Judge ==
  /\ spc = "judge"
  /\ spc' = "asleep"
  /\ UNCHANGED <<strikes, since, stamp, idle, setbacks>>

\* the daemon does not stop
NeverStops ==
  /\ strikes = 0
  /\ Judge
  /\ UNCHANGED <<age, allalone>>

\* mutant: the bound does not leave room for the probe's own time
ActiveLoose ==
  /\ strikes > 0
  /\ Elapsed \in 0 .. Period + Late
  /\ Judge
  /\ age' = since
  /\ allalone' = 0

\* the stamp is replaced by the service's own; poke_us is read once to compare
\* it with now and once for the difference, and a client may write in between
Active ==
  /\ strikes > 0
  /\ \/ Elapsed \in 0 .. Period
     \/ Elapsed < 0 /\ idle <= since
  /\ Judge
  /\ age' = since
  /\ allalone' = 0

\* the stamp is in the future; the strikes stay
WeirdClock ==
  /\ strikes > 0
  /\ Elapsed < 0
  /\ Judge
  /\ age' = since
  /\ UNCHANGED allalone

\* mutant: the strike does not count up to the limit
StrikeAlways ==
  /\ strikes > 0
  /\ Elapsed > Period
  /\ Judge
  /\ allalone' = allalone + 1
  /\ UNCHANGED age

Strike ==
  /\ strikes > 0
  /\ Elapsed > Period
  /\ allalone + 1 < strikes
  /\ Judge
  /\ allalone' = allalone + 1
  /\ UNCHANGED age

\* mutant: the difference is taken as unsigned
GiveUpUnsigned ==
  /\ spc = "judge"
  /\ strikes > 0
  /\ Elapsed \notin 0 .. Period
  /\ allalone + 1 >= strikes
  /\ spc' = "stopped"
  /\ allalone' = allalone + 1
  /\ UNCHANGED <<strikes, age, since, stamp, idle, setbacks>>

GiveUp ==
  /\ spc = "judge"
  /\ strikes > 0
  /\ Elapsed > Period
  /\ allalone + 1 >= strikes
  /\ spc' = "stopped"
  /\ allalone' = allalone + 1
  /\ UNCHANGED <<strikes, age, since, stamp, idle, setbacks>>

------------------------------------------------------------------------------
(* xinput_gamepad_service_probe() and xinput_gamepad_service_is_alive() *)

\* a call finds the service alive and reads the clock
Call(c) ==
  /\ spc # "stopped"
  /\ stamp[c] = -1
  /\ stamp' = [stamp EXCEPT ![c] = 0]
  /\ UNCHANGED <<strikes, age, spc, since, allalone, idle, setbacks>>

Poke(c) ==
  /\ stamp[c] >= 0
  /\ age' = stamp[c]
  /\ stamp' = [stamp EXCEPT ![c] = -1]
  /\ idle' = 0
  /\ UNCHANGED <<strikes, spc, since, allalone, setbacks>>

------------------------------------------------------------------------------
(* Time *)

Older(n) == IF n = -1 THEN -1 ELSE n + 1

Tick ==
  /\ spc = "asleep" => since < Period + Late
  /\ spc = "judge" => since < Lag
  /\ \A c \in Client : stamp[c] < Lag
  /\ age' = Cap(age + 1)
  /\ since' = IF spc = "stopped" THEN since ELSE since + 1
  /\ idle' = Cap(idle + 1)
  /\ stamp' = [c \in Client |-> Older(stamp[c])]
  /\ UNCHANGED <<strikes, spc, allalone, setbacks>>

\* the clock is set back while nobody is about to use what it read from it;
\* sleep() does not notice
ClockSetBack(j) ==
  /\ spc = "asleep"
  /\ \A c \in Client : stamp[c] = -1
  /\ setbacks < MaxSetBack
  /\ setbacks' = setbacks + 1
  /\ age' = age - j
  /\ UNCHANGED <<strikes, spc, since, allalone, stamp, idle>>

------------------------------------------------------------------------------
Service == Look \/ NeverStops \/ Active \/ WeirdClock \/ Strike \/ GiveUp

Next ==
  \/ Service
  \/ \E c \in Client : Call(c) \/ Poke(c)
  \/ Tick
  \/ \E j \in SetBack : ClockSetBack(j)

Spec == Init /\ [][Next]_vars

\* time passes, and threads get to run
Fairness ==
  /\ WF_vars(Tick) /\ WF_vars(Service)
  /\ \A c \in Client : WF_vars(Poke(c))

FairSpec == Spec /\ Fairness
------------------------------------------------------------------------------
(* What the clients and the system get *)

\* A program that calls the API more often than once per period never loses the
\* service to the idle shutdown, whatever the interleaving of its stamps with
\* the service's looks, and also when the clock is set back: the service gives
\* up (xinput_service_thread()) only when no client has written poke_us for a
\* period, less the time a client takes to write what it has read.
GivesUp == spc' = "stopped" /\ spc # "stopped"
StopsOnlyUnused == [][GivesUp => idle + Lag > Period]_vars

\* A service that is no longer used stops; its own stamps in poke_us do not
\* keep it alive, nor does a clock that is set back (xinput_service_thread()).
StopsWhenUnused ==
  (strikes > 0 /\ <>[](idle > 0)) => <>(spc = "stopped")

==============================================================================
