--------------------- MODULE HealthAndArmingChecksProofs ---------------------
(***************************************************************************)
(* For all times that are Timely, the watchdog ends the process only when   *)
(* the FMU is gone.                                                        *)
(*                                                                         *)
(* The invariant says that the watchdog is never due before the next valid  *)
(* request is taken: NextValid is the time until such a request is in the   *)
(* queue, at most two intervals, and then it is taken when the callback     *)
(* that runs returns.                                                      *)
(*                                                                         *)
(* Conversely, once the FMU is lost, the process is ended: each period that *)
(* passes uses up the flag or the last request that could set it again.     *)
(***************************************************************************)
EXTENDS HealthAndArmingChecks, TLAPS

NextValid == IF told THEN Interval - gap ELSE 2 * Interval - gap

TakenIn == IF thread = "away" THEN MaxAway - away ELSE 0

\* Where the thread is bounds how late the timer is.
TimerInTime ==
  /\ thread = "constructor" => due = Period - away /\ away <= MaxStart
  /\ thread = "away" => due > -away /\ away <= MaxAway
  /\ thread = "spin" => due >= -MaxAway /\ away = 0

\* A request is taken before the timer that would end the process is due.
TakenInTime ==
  (registered /\ ~triggered /\ fmu = "alive") =>
    /\ thread \in {"spin", "away"}
    /\ queue = "valid" => due > TakenIn
    /\ queue # "valid" => due > NextValid + MaxAway

IInv ==
  /\ TypeOK
  /\ TimerInTime
  /\ ~registered => triggered
  /\ thread = "constructor" => triggered
  /\ (queue = "valid" /\ fmu = "alive") => registered /\ told
  /\ TakenInTime
  /\ LiveFmuKeepsProcess

\* The timer is never called a whole period late, so its next call is a period
\* after the last one.
LEMMA NextCallInPeriod ==
  ASSUME TimeAssumption, Timely, due \in Int, due >= -MaxAway
  PROVE  NextCall = due + Period
BY DEF TimeAssumption, Timely, NextCall

\* What is left of a period after a late call is enough for the next valid
\* request and a callback.
LEMMA FitsInPeriod ==
  ASSUME TimeAssumption, Timely, NEW d \in Int, d >= -MaxAway, NEW g \in 0 .. Interval
  PROVE  /\ d + Period > 0
         /\ d + Period > (Interval - g) + MaxAway
         /\ d + Period > (2 * Interval - g) + MaxAway
BY DEF TimeAssumption, Timely

LEMMA InitTypeOK ==
  ASSUME TimeAssumption, Init
  PROVE  TypeOK
<1>1. reply \in [canArm : BOOLEAN, events : 0 .. MaxEvents]
  BY DEF Init, NoReply, TimeAssumption
<1>2. gap \in 0 .. Interval /\ lostFor \in Nat /\ away \in Nat /\ due \in Int
  BY DEF Init, TimeAssumption
<1> QED BY <1>1, <1>2 DEF Init, TypeOK

LEMMA InitInductive ==
  ASSUME TimeAssumption, Init
  PROVE  IInv
<1>1. TypeOK
  BY InitTypeOK
<1>2. TimerInTime
  BY DEF Init, TimerInTime, TimeAssumption
<1> QED BY <1>1, <1>2 DEF Init, IInv, TakenInTime, LiveFmuKeepsProcess

LEMMA TypeStep ==
  ASSUME TimeAssumption, TypeOK, [Next]_vars
  PROVE  TypeOK'
<1> USE DEF TimeAssumption, TypeOK
<1>1. CASE Register
  BY <1>1 DEF Register
<1>2. CASE Spin
  BY <1>2 DEF Spin, checkVars, fmuVars
<1>3. CASE Leave
  BY <1>3 DEF Leave, checkVars, fmuVars
<1>4. ASSUME NEW failures \in 0 .. MaxEvents + 1, TakeRequest(failures)
      PROVE  TypeOK'
  <2>1. Report(failures) \in [canArm : BOOLEAN, events : 0 .. MaxEvents]
    BY <1>4 DEF Report
  <2> QED BY <1>4, <2>1 DEF TakeRequest, CountsAsValid, fmuVars
<1>5. CASE WatchdogFires
  <2>1. NextCall \in Int
    BY DEF NextCall
  <2> QED BY <1>5, <2>1 DEF WatchdogFires, fmuVars
<1>6. CASE Tick
  <2>1. away' \in Nat
    BY <1>6 DEF Tick, vars
  <2>2. due' \in Int /\ gap' \in 0 .. Interval /\ lostFor' \in Nat
    BY <1>6 DEF Tick
  <2> QED BY <1>6, <2>1, <2>2 DEF Tick, checkVars
<1>7. ASSUME NEW request \in {"valid", "flagged"}, RequestArrives(request)
      PROVE  TypeOK'
  BY <1>7 DEF RequestArrives, checkVars
<1>8. CASE FmuLost
  BY <1>8 DEF FmuLost, checkVars
<1>9. CASE IdReused
  BY <1>9 DEF IdReused, checkVars
<1>10. CASE UNCHANGED vars
  BY <1>10 DEF vars, checkVars, fmuVars
<1> QED BY <1>1, <1>2, <1>3, <1>4, <1>5, <1>6, <1>7, <1>8, <1>9, <1>10 DEF Next

\* One step per action; the timer and the passing of time are the hard ones.
LEMMA StepInductive ==
  ASSUME TimeAssumption, Timely, IInv, [Next]_vars
  PROVE  IInv'
<1>0. TypeOK'
  BY TypeStep DEF IInv
<1>1. CASE Register
  BY <1>0, <1>1 DEF Register, IInv, TypeOK, TimerInTime, TakenInTime,
     LiveFmuKeepsProcess
<1>2. CASE Spin
  BY <1>0, <1>2 DEF Spin, checkVars, fmuVars, IInv, TypeOK, TimerInTime, TakenInTime,
     TakenIn, NextValid, LiveFmuKeepsProcess, Timely, TimeAssumption
<1>3. CASE Leave
  <2>1. TimerInTime'
    BY <1>3 DEF Leave, IInv, TypeOK, TimerInTime, TimeAssumption
  <2>2. TakenInTime'
    BY <1>3 DEF Leave, checkVars, fmuVars, IInv, TypeOK, TakenInTime, NextValid
  <2> QED BY <1>0, <1>3, <2>1, <2>2 DEF Leave, checkVars, fmuVars, IInv,
          LiveFmuKeepsProcess
<1>4. ASSUME NEW failures \in 0 .. MaxEvents + 1, TakeRequest(failures)
      PROVE  IInv'
  <2>1. TimerInTime'
    BY <1>4 DEF TakeRequest, fmuVars, IInv, TimerInTime
  <2>2. TakenInTime'
    BY <1>4 DEF TakeRequest, CountsAsValid, fmuVars, IInv, TypeOK, TakenInTime,
       NextValid, TakenIn
  <2> QED BY <1>0, <1>4, <2>1, <2>2 DEF TakeRequest, fmuVars, IInv, TypeOK,
          LiveFmuKeepsProcess
<1>5. CASE WatchdogFires
  <2>1. due' = due + Period /\ due >= -MaxAway
    BY <1>5, NextCallInPeriod DEF WatchdogFires, IInv, TypeOK, TimerInTime
  <2>2. TimerInTime'
    BY <1>5, <2>1 DEF WatchdogFires, IInv, TypeOK, TimerInTime, TimeAssumption,
       Timely
  <2>3. registered /\ ~triggered => fmu # "alive"
    BY <1>5 DEF WatchdogFires, IInv, TypeOK, TakenInTime, TakenIn, NextValid,
       TimeAssumption
  <2>4. TakenInTime'
    <3> SUFFICES ASSUME registered', ~triggered', fmu' = "alive"
                 PROVE  /\ thread' = "spin"
                        /\ due' > 0
                        /\ due' > NextValid' + MaxAway
      BY DEF TakenInTime, TakenIn
    <3>1. thread' = "spin"
      BY <1>5, <2>3 DEF WatchdogFires, fmuVars, IInv, TypeOK
    <3>2. due \in Int /\ gap' \in 0 .. Interval
      BY <1>0 DEF IInv, TypeOK
    <3>3. due' > NextValid' + MaxAway
      BY <2>1, <3>2, FitsInPeriod DEF NextValid
    <3>4. due' > 0
      BY <2>1, <3>2, FitsInPeriod
    <3> QED BY <3>1, <3>3, <3>4
  <2>5. LiveFmuKeepsProcess'
    BY <1>5, <2>3 DEF WatchdogFires, fmuVars, LiveFmuKeepsProcess
  <2>6. ~registered' => triggered'
    BY <1>5 DEF WatchdogFires, IInv, TypeOK
  <2>7. (queue' = "valid" /\ fmu' = "alive") => registered' /\ told'
    BY <1>5 DEF WatchdogFires, fmuVars, IInv
  <2>8. thread' # "constructor"
    BY <1>5 DEF WatchdogFires
  <2> QED BY <1>0, <2>2, <2>4, <2>5, <2>6, <2>7, <2>8 DEF IInv
<1>6. CASE Tick
  <2>1. TimerInTime'
    BY <1>6 DEF Tick, Patience, IInv, TypeOK, TimerInTime, TimeAssumption
  <2>2. TakenInTime'
    <3> SUFFICES ASSUME registered', ~triggered', fmu' = "alive"
                 PROVE  /\ thread' \in {"spin", "away"}
                        /\ queue' = "valid" => due' > TakenIn'
                        /\ queue' # "valid" => due' > NextValid' + MaxAway
      BY DEF TakenInTime
    <3>1. /\ registered /\ ~triggered /\ fmu = "alive"
          /\ UNCHANGED <<thread, queue, told>>
          /\ due' = due - 1 /\ gap' = gap + 1
      BY <1>6 DEF Tick, checkVars
    <3>2. NextValid' = NextValid - 1
      BY <3>1 DEF NextValid, IInv, TypeOK, TimeAssumption
    <3>3. queue = "valid" => TakenIn' = TakenIn - 1
      BY <1>6, <3>1 DEF Tick, TakenIn, IInv, TypeOK, TakenInTime, TimeAssumption
    <3>4. NextValid \in Int /\ TakenIn \in Int /\ due \in Int
      BY DEF NextValid, TakenIn, IInv, TypeOK, TimeAssumption
    <3> QED BY <3>1, <3>2, <3>3, <3>4 DEF IInv, TakenInTime, TimeAssumption
  <2> QED BY <1>0, <1>6, <2>1, <2>2 DEF Tick, checkVars, IInv, LiveFmuKeepsProcess
<1>7. ASSUME NEW request \in {"valid", "flagged"}, RequestArrives(request)
      PROVE  IInv'
  <2>1. TimerInTime'
    BY <1>7 DEF RequestArrives, IInv, TimerInTime
  <2>2. TakenInTime'
    <3> SUFFICES ASSUME registered', ~triggered', fmu' = "alive"
                 PROVE  /\ thread' \in {"spin", "away"}
                        /\ queue' = "valid" => due' > TakenIn'
                        /\ queue' # "valid" => due' > NextValid' + MaxAway
      BY DEF TakenInTime
    <3>1. /\ registered /\ ~triggered /\ fmu = "alive"
          /\ UNCHANGED <<thread, away, due>>
          /\ queue' = request /\ told' = TRUE /\ gap' = 0
          /\ told => request = "valid"
      BY <1>7 DEF RequestArrives, checkVars, IInv, TypeOK
    <3>2. thread \in {"spin", "away"} /\ due > TakenIn
      BY <3>1 DEF IInv, TypeOK, TimerInTime, TakenInTime, TakenIn, NextValid,
         TimeAssumption
    <3>3. TakenIn' = TakenIn
      BY <3>1 DEF TakenIn
    <3>4. queue' # "valid" => due > 2 * Interval - gap + MaxAway
      \* the request before was not valid either, since none was sent yet
      <4> SUFFICES ASSUME queue' # "valid"
                   PROVE  due > 2 * Interval - gap + MaxAway
        OBVIOUS
      <4>1. ~told /\ queue # "valid"
        BY <3>1 DEF IInv, TypeOK
      <4> QED BY <3>1, <4>1 DEF IInv, TakenInTime, NextValid
    <3>5. NextValid' = Interval
      BY <3>1 DEF NextValid, TimeAssumption
    <3> QED BY <3>1, <3>2, <3>3, <3>4, <3>5 DEF IInv, TypeOK, TimeAssumption
  <2> QED BY <1>0, <1>7, <2>1, <2>2 DEF RequestArrives, checkVars, IInv,
          LiveFmuKeepsProcess
<1>8. CASE FmuLost
  BY <1>0, <1>8 DEF FmuLost, checkVars, IInv, TimerInTime, TakenInTime,
     LiveFmuKeepsProcess
<1>9. CASE IdReused
  BY <1>0, <1>9 DEF IdReused, checkVars, IInv, TimerInTime, TakenInTime,
     LiveFmuKeepsProcess
<1>10. CASE UNCHANGED vars
  BY <1>0, <1>10 DEF vars, checkVars, fmuVars, IInv, TimerInTime, TakenInTime, TakenIn,
     NextValid, LiveFmuKeepsProcess
<1> QED BY <1>1, <1>2, <1>3, <1>4, <1>5, <1>6, <1>7, <1>8, <1>9, <1>10 DEF Next

-----------------------------------------------------------------------------
\* The types of the watchdog's variables (health_and_arming_checks.cpp).
THEOREM TypeCorrect == Spec => []TypeOK
<1>1. Init => TypeOK
  BY InitTypeOK, TimeAssumption
<1>2. TypeOK /\ [Next]_vars => TypeOK'
  BY TypeStep, TimeAssumption
<1> QED BY <1>1, <1>2, PTL DEF Spec

\* The watchdog ends the process only when the FMU is gone, whatever the length
\* of the period, of the callbacks and of the constructor, as long as two
\* requests and two callbacks fit in a period (watchdogTimerUpdate()).
THEOREM WatchdogSound == Timely /\ Spec => []LiveFmuKeepsProcess
<1> SUFFICES ASSUME Timely PROVE Spec => []LiveFmuKeepsProcess
  OBVIOUS
<1>1. Init => IInv
  BY InitInductive, TimeAssumption
<1>2. IInv /\ [Next]_vars => IInv'
  BY StepInductive, TimeAssumption
<1>3. IInv => LiveFmuKeepsProcess
  BY DEF IInv
<1> QED BY <1>1, <1>2, <1>3, PTL DEF Spec

-----------------------------------------------------------------------------
(* A lost FMU.  The timer ends the process at the next call, unless the     *)
(* flag is set or may still be set by a request that counts as valid: the   *)
(* first one, or one that was sent before the FMU was lost.  Each of these  *)
(* is a reprieve of one period.                                             *)

Reprieve ==
  (IF triggered THEN Period ELSE 0) + (IF first \/ queue = "valid" THEN Period ELSE 0)

\* The timer is late by a callback at most, except after the constructor, before
\* which the loss is not counted.
TimerWatched ==
  /\ due <= Period
  /\ thread = "constructor" => lostFor = 0
  /\ thread = "away" => due > -away /\ away <= MaxAway
  /\ thread = "spin" => due >= -MaxAway \/ lostFor = 0
  /\ thread = "spin" => away = 0

\* What has passed since the loss, the rest of the period and the reprieves.
LossCounted ==
  (registered /\ fmu = "lost" /\ thread # "ended") => lostFor + due + Reprieve <= 3 * Period

LossInv == TypeOK /\ TimerWatched /\ LossCounted

LEMMA LossInit ==
  ASSUME TimeAssumption, Init
  PROVE  LossInv
<1>1. TimerWatched
  BY DEF Init, TimerWatched, TimeAssumption
<1>2. LossCounted
  BY DEF Init, LossCounted
<1> QED  BY <1>1, <1>2, InitTypeOK DEF LossInv

\* One step per action; a call of the timer uses a reprieve up or ends the process.
LEMMA LossStep ==
  ASSUME TimeAssumption, MaxAway <= Period, LossInv, [Next]_vars
  PROVE  LossInv'
<1>0. TypeOK /\ TypeOK'
  BY TypeStep DEF LossInv
<1> USE DEF LossInv, TimeAssumption
<1>1. CASE Register
  BY <1>0, <1>1 DEF Register, TypeOK, TimerWatched, LossCounted
<1>2. CASE Spin
  BY <1>0, <1>2 DEF Spin, checkVars, fmuVars, TypeOK, TimerWatched, LossCounted, Reprieve
<1>3. CASE Leave
  BY <1>0, <1>3 DEF Leave, checkVars, fmuVars, TypeOK, TimerWatched, LossCounted, Reprieve
<1>4. ASSUME NEW failures \in 0 .. MaxEvents + 1, TakeRequest(failures)
      PROVE  LossInv'
  <2>1. /\ UNCHANGED <<thread, away, due, registered, fmu, lostFor>> /\ queue' = "none"
        /\ \/ UNCHANGED <<triggered, first>>
           \/ /\ triggered' = (triggered \/ first \/ queue = "valid")
              /\ first' = FALSE
    BY <1>4 DEF TakeRequest, CountsAsValid, fmuVars
  <2>2. Reprieve' <= Reprieve
    BY <1>0, <2>1 DEF TypeOK, Reprieve
  <2>3. Reprieve \in Nat /\ Reprieve' \in Nat
    BY <1>0 DEF TypeOK, Reprieve
  <2>4. LossCounted'
    <3>1. PICK q \in Nat, r \in Nat : q = Reprieve /\ r = Reprieve'
      BY <2>3
    <3>2. r <= q
      BY <2>2, <3>1
    <3>3. ASSUME registered', fmu' = "lost", thread' # "ended"
          PROVE  lostFor' + due' + Reprieve' <= 3 * Period
      <4>1. lostFor + due + q <= 3 * Period
        BY <2>1, <3>1, <3>3, Zenon DEF LossCounted
      <4>2. lostFor' + due' + r <= 3 * Period
        BY <1>0, <2>1, <3>2, <4>1 DEF TypeOK
      <4> QED  BY <3>1, <4>2, Zenon
    <3> QED  BY <3>3 DEF LossCounted
  <2>5. TimerWatched'
    BY <2>1 DEF TimerWatched
  <2> QED  BY <1>0, <2>4, <2>5
<1>5. CASE WatchdogFires
  <2>1. /\ thread = "spin" /\ due <= 0 /\ due' = NextCall
        /\ UNCHANGED <<away, queue, registered, first, fmu, lostFor>>
        /\ thread' \in {"spin", "ended"}
        /\ registered /\ thread' # "ended" => triggered /\ ~triggered'
    BY <1>5 DEF WatchdogFires, fmuVars
  <2>2. NextCall \in Int /\ NextCall <= Period /\ NextCall >= 0 /\ due \in Int
    BY <1>0, <2>1 DEF NextCall, TypeOK
  <2>3. TimerWatched'
    BY <1>0, <2>1, <2>2 DEF TypeOK, TimerWatched
  <2>4. ASSUME registered', fmu' = "lost", thread' # "ended"
        PROVE  lostFor' + due' + Reprieve' <= 3 * Period
    <3>1. Reprieve' = Reprieve - Period /\ Reprieve <= 2 * Period /\ Reprieve \in Int
      BY <1>0, <2>1, <2>4 DEF Reprieve, TypeOK
    <3>2. CASE due >= -MaxAway
      <4>1. NextCall = due + Period
        BY <2>2, <3>2 DEF NextCall
      <4> QED  BY <1>0, <2>1, <2>4, <3>1, <4>1 DEF LossCounted, TypeOK
    <3>3. CASE lostFor = 0
      BY <1>0, <2>1, <2>2, <3>1, <3>3 DEF TypeOK
    <3> QED  BY <2>1, <3>2, <3>3 DEF TimerWatched
  <2> QED  BY <1>0, <2>3, <2>4 DEF LossCounted
<1>6. CASE Tick
  <2>1. /\ UNCHANGED <<thread, queue, registered, triggered, first, fmu>>
        /\ due' = due - 1 /\ thread # "ended"
        /\ thread = "spin" => due > 0 /\ away' = away
        /\ thread = "constructor" => lostFor' = lostFor
        /\ thread = "away" => away < MaxAway /\ away' = away + 1
        /\ lostFor' = lostFor \/ lostFor' = lostFor + 1
    BY <1>0, <1>6 DEF Tick, Patience, checkVars, TypeOK
  <2>2. TimerWatched'
    <3>1. /\ due \in Int /\ away \in Nat /\ Period \in Nat /\ MaxAway \in Nat
          /\ thread \in {"constructor", "spin", "away"}
      BY <1>0, <2>1 DEF TypeOK
    <3>2. CASE thread = "constructor"
      BY <2>1, <3>1, <3>2 DEF TimerWatched
    <3>3. CASE thread = "spin"
      BY <2>1, <3>1, <3>3 DEF TimerWatched
    <3>4. CASE thread = "away"
      BY <2>1, <3>1, <3>4 DEF TimerWatched
    <3> QED  BY <3>1, <3>2, <3>3, <3>4
  <2>3. Reprieve' = Reprieve /\ Reprieve \in Int
    BY <1>0, <2>1 DEF Reprieve, TypeOK
  <2>4. LossCounted'
    <3> SUFFICES ASSUME registered', fmu' = "lost"
                 PROVE  lostFor' + due' + Reprieve' <= 3 * Period
      BY DEF LossCounted
    <3>1. lostFor + due + Reprieve <= 3 * Period
      BY <2>1 DEF LossCounted
    <3>2. lostFor \in Int /\ due \in Int /\ Period \in Int
      BY <1>0 DEF TypeOK
    <3>3. CASE lostFor' = lostFor
      BY <2>1, <2>3, <3>1, <3>2, <3>3
    <3>4. CASE lostFor' = lostFor + 1
      BY <2>1, <2>3, <3>1, <3>2, <3>4
    <3> QED  BY <2>1, <3>3, <3>4
  <2> QED  BY <1>0, <2>2, <2>4
<1>7. ASSUME NEW request \in {"valid", "flagged"}, RequestArrives(request)
      PROVE  LossInv'
  <2>1. /\ UNCHANGED <<thread, away, due, registered, triggered, first, fmu, lostFor>>
        /\ fmu = "lost" => queue' = "flagged"
    BY <1>7 DEF RequestArrives, checkVars
  <2>2. TimerWatched'
    BY <1>0, <2>1 DEF TimerWatched
  <2>3. ASSUME fmu = "lost"
        PROVE  Reprieve' <= Reprieve /\ Reprieve' \in Int /\ Reprieve \in Int
    BY <1>0, <2>1, <2>3 DEF Reprieve, TypeOK
  <2>4. LossCounted'
    BY <1>0, <2>1, <2>3 DEF LossCounted, TypeOK
  <2> QED  BY <1>0, <2>2, <2>4
<1>8. CASE FmuLost
  <2>1. Reprieve' <= 2 * Period /\ Reprieve' \in Int
    BY <1>0 DEF Reprieve, TypeOK
  <2>2. UNCHANGED <<thread, away, due>> /\ lostFor' = 0
    BY <1>8 DEF FmuLost
  <2>3. TimerWatched'
    BY <2>2 DEF TimerWatched
  <2>4. lostFor' + due' + Reprieve' <= 3 * Period
    <3>1. PICK r \in Int : r = Reprieve'
      BY <2>1
    <3>2. r <= 2 * Period
      BY <2>1, <3>1
    <3>3. lostFor' + due' + r <= 3 * Period
      BY <1>0, <2>2, <3>2 DEF TypeOK, TimerWatched
    <3> QED  BY <3>1, <3>3, Zenon
  <2> QED  BY <1>0, <2>3, <2>4 DEF LossCounted
<1>9. CASE IdReused
  BY <1>0, <1>9 DEF IdReused, checkVars, TypeOK, TimerWatched, LossCounted
<1>10. CASE UNCHANGED vars
  BY <1>0, <1>10 DEF vars, checkVars, fmuVars, TimerWatched, LossCounted, Reprieve
<1> QED BY <1>1, <1>2, <1>3, <1>4, <1>5, <1>6, <1>7, <1>8, <1>9, <1>10 DEF Next

\* A process whose FMU is lost ends within three periods and a callback, unless
\* its registration id is used again, if no callback takes longer than a period
\* (watchdogTimerUpdate()).  How long the constructor takes does not matter.
THEOREM WatchdogEndsProcess == MaxAway <= Period /\ Spec => []LostFmuEndsProcess
<1> SUFFICES ASSUME MaxAway <= Period PROVE Spec => []LostFmuEndsProcess
  OBVIOUS
<1>1. Init => LossInv
  BY LossInit, TimeAssumption
<1>2. LossInv /\ [Next]_vars => LossInv'
  BY LossStep, TimeAssumption
<1>3. LossInv => LostFmuEndsProcess
  <2> SUFFICES ASSUME LossInv, registered, fmu = "lost", thread # "ended"
               PROVE  lostFor <= 3 * Period + MaxAway
    BY DEF LostFmuEndsProcess
  <2>1. TypeOK /\ lostFor + due + Reprieve <= 3 * Period
    BY DEF LossInv, LossCounted
  <2>2. Reprieve \in Nat
    BY <2>1, TimeAssumption DEF Reprieve, TypeOK, TimeAssumption
  <2>3. due >= -MaxAway \/ lostFor = 0
    BY <2>1, TimeAssumption DEF LossInv, TimerWatched, TypeOK, TimeAssumption
  <2> QED  BY <2>1, <2>2, <2>3, TimeAssumption DEF TypeOK, TimeAssumption
<1> QED BY <1>1, <1>2, <1>3, PTL DEF Spec
=============================================================================
