------------------------ MODULE HealthAndArmingChecks ------------------------
(***************************************************************************)
(* HealthAndArmingChecks (components/health_and_arming_checks.cpp): the     *)
(* arming checks answer the FMU's requests, and a watchdog timer of 4 s     *)
(* ends the process when no request came that shows the registration valid. *)
(*                                                                         *)
(* Time passes in steps of one unit.  The ROS thread takes requests and     *)
(* runs the timer while it spins; it is away in the constructor, which      *)
(* registers, and in other callbacks.  What is ready is run before time     *)
(* passes.  The FMU is external.                                            *)
(***************************************************************************)
EXTENDS Integers

CONSTANTS
  Period,    \* of the watchdog timer: 4 s
  Interval,  \* longest time between two requests of a running FMU
  MaxAway,   \* longest time other callbacks keep a request or the timer waiting
  MaxStart,  \* longest time from the constructor to the first spin
  MaxEvents, \* ArmingCheckReply.events.size()
  MaxLost    \* bound: how long a lost FMU is watched

ASSUME TimeAssumption ==
  /\ Period \in Nat \ {0} /\ Interval \in Nat
  /\ MaxAway \in Nat /\ MaxStart \in Nat
  /\ MaxEvents \in Nat /\ MaxLost \in Nat

VARIABLES
  thread,     \* "constructor", "spin", "away" or "ended" (rclcpp::shutdown())
  away,       \* how long it has been away
  registered, \* _registration->registered()
  triggered,  \* _check_triggered
  first,      \* _first_request
  due,        \* time until _watchdog_timer, negative when it is late
  queue,      \* queue of depth 1: "none", a request with the bit of this
              \* registration ("valid") or without ("flagged")
  reply,      \* the last ArmingCheckReply: may the vehicle arm, events in it
  fmu,        \* "alive", "lost" (also: rebooted), or "reused": rebooted, and the
              \* registration id is valid again, as that of another component
  told,       \* a request was sent since the registration
  gap,        \* time since the last request
  lostFor     \* time the FMU has been lost, while the thread runs callbacks

checkVars == <<registered, triggered, first, reply>>
fmuVars   == <<fmu, told, gap, lostFor>>
vars == <<thread, away, due, queue, checkVars, fmuVars>>

NoReply == [canArm |-> FALSE, events |-> 0]

TypeOK ==
  /\ thread \in {"constructor", "spin", "away", "ended"}
  /\ away \in Nat
  /\ registered \in BOOLEAN /\ triggered \in BOOLEAN /\ first \in BOOLEAN
  /\ due \in Int
  /\ queue \in {"none", "valid", "flagged"}
  /\ reply \in [canArm : BOOLEAN, events : 0 .. MaxEvents]
  /\ fmu \in {"alive", "lost", "reused"}
  /\ told \in BOOLEAN
  /\ gap \in 0 .. Interval
  /\ lostFor \in Nat

Init ==
  /\ thread = "constructor" /\ away = 0
  /\ registered = FALSE /\ triggered = TRUE /\ first = TRUE
  /\ due = Period
  /\ queue = "none"
  /\ reply = NoReply
  /\ fmu = "alive" /\ told = FALSE /\ gap = 0 /\ lostFor = 0

-----------------------------------------------------------------------------
(* The process.                                                            *)

\* doRegister() blocks, in the constructor or in a callback.
Register ==
  /\ thread \in {"constructor", "away"}
  /\ fmu = "alive"
  /\ ~registered
  /\ registered' = TRUE
  /\ first' = TRUE
  /\ told' = FALSE
  /\ UNCHANGED <<thread, away, due, queue, triggered, reply, fmu, gap, lostFor>>

\* The constructor or the callback returns.
Spin ==
  /\ thread \in {"constructor", "away"}
  /\ thread' = "spin"
  /\ away' = 0
  /\ UNCHANGED <<due, queue, checkVars, fmuVars>>

\* Another callback runs, when nothing of this component is ready.
Leave ==
  /\ thread = "spin"
  /\ due > 0 /\ queue = "none"
  /\ thread' = "away"
  /\ UNCHANGED <<away, due, queue, checkVars, fmuVars>>

\* The user's checks report a number of failures: each forbids to arm, and takes
\* one of the events as long as there is one.
Report(failures) ==
  [canArm |-> failures = 0,
   events |-> IF failures < MaxEvents THEN failures ELSE MaxEvents]

\* Mutant: any request shows the registration valid.
ShowsValid(request) == TRUE

\* The first request might not have the bit set yet.
CountsAsValid(request) == first \/ request = "valid"

\* The request callback
TakeRequest(failures) ==
  /\ thread = "spin"
  /\ queue # "none"
  /\ queue' = "none"
  /\ IF registered
     THEN /\ reply' = Report(failures)
          /\ triggered' = (triggered \/ CountsAsValid(queue))
          /\ first' = FALSE
     ELSE UNCHANGED <<reply, triggered, first>>
  /\ UNCHANGED <<thread, away, due, registered, fmuVars>>

\* rcl_timer_call(): the next multiple of the period that is not in the past
NextCall == IF due >= -Period THEN due + Period ELSE due % Period

\* Mutant: the flag is cleared while unregistered as well.
WatchdogForgets ==
  /\ thread = "spin"
  /\ due <= 0
  /\ due' = NextCall
  /\ thread' = IF registered /\ ~triggered THEN "ended" ELSE "spin"
  /\ triggered' = FALSE
  /\ UNCHANGED <<away, queue, registered, first, reply, fmuVars>>

\* watchdogTimerUpdate()
WatchdogFires ==
  /\ thread = "spin"
  /\ due <= 0
  /\ due' = NextCall
  /\ IF registered
     THEN /\ thread' = IF triggered THEN "spin" ELSE "ended"
          /\ triggered' = FALSE
     ELSE /\ triggered' = TRUE   \* avoid false positives while unregistered
          /\ UNCHANGED thread
  /\ UNCHANGED <<away, queue, registered, first, reply, fmuVars>>

-----------------------------------------------------------------------------
(* Time and the FMU (external).                                             *)

Patience == CASE thread = "constructor" -> MaxStart
              [] thread = "away" -> MaxAway
              [] OTHER -> 0

Tick ==
  /\ thread # "ended"
  /\ IF thread = "spin"
     THEN due > 0 /\ queue = "none" /\ UNCHANGED away
     ELSE away < Patience /\ away' = away + 1
  /\ fmu = "alive" => gap < Interval
  /\ fmu = "lost" => lostFor < MaxLost
  /\ due' = due - 1
  /\ gap' = IF fmu = "alive" THEN gap + 1 ELSE gap
  /\ lostFor' = IF fmu = "lost" /\ thread # "constructor" THEN lostFor + 1 ELSE lostFor
  /\ UNCHANGED <<thread, queue, checkVars, fmu, told>>

\* A request replaces the one in the queue.
RequestArrives(request) ==
  /\ thread # "ended"
  /\ CASE fmu = "alive"  -> request = "valid" => registered
       [] fmu = "lost"   -> request = "flagged"
       [] fmu = "reused" -> request = "valid"
  /\ (fmu = "alive" /\ registered /\ told) => request = "valid"
  /\ queue' = request
  /\ told' = (told \/ registered)
  /\ gap' = 0
  /\ UNCHANGED <<thread, away, due, checkVars, fmu, lostFor>>

FmuLost ==
  /\ fmu = "alive"
  /\ fmu' = "lost"
  /\ lostFor' = 0
  /\ UNCHANGED <<thread, away, due, queue, checkVars, told, gap>>

IdReused ==
  /\ fmu = "lost"
  /\ fmu' = "reused"
  /\ UNCHANGED <<thread, away, due, queue, checkVars, told, gap, lostFor>>

Next ==
  \/ Register \/ Spin \/ Leave
  \/ \E failures \in 0 .. MaxEvents + 1 : TakeRequest(failures)
  \/ WatchdogFires
  \/ Tick
  \/ \E request \in {"valid", "flagged"} : RequestArrives(request)
  \/ FmuLost \/ IdReused

Spec == Init /\ [][Next]_vars

-----------------------------------------------------------------------------
\* The watchdog ends the process only when the FMU it registered with is gone:
\* not because the thread was away, or because of the requests that may be
\* flagged after the registration (watchdogTimerUpdate()).
LiveFmuKeepsProcess == thread = "ended" => fmu # "alive"

\* A registered process does not outlive an FMU that is lost by more than three
\* periods (a rebooted FMU may send the first request) and a callback, unless
\* its registration id is in use again.
LostFmuEndsProcess ==
  (registered /\ fmu = "lost" /\ thread # "ended") =>
    lostFor <= 3 * Period + MaxAway

\* What the proof needs of the times: two requests and two callbacks fit in a
\* period, and the constructor is over when the timer is due.
Timely == Period > 2 * (Interval + MaxAway) /\ MaxStart < Period
=============================================================================
