---------------------------- MODULE ModeExecutor ----------------------------
(***************************************************************************)
(* ModeExecutorBase (components/mode_executor.cpp) together with the       *)
(* activation state of the ModeBase it owns (components/mode.cpp).         *)
(*                                                                         *)
(* The library runs in one ROS executor thread: a node callback (a         *)
(* VehicleStatus, a ModeCompleted, a timer) runs to its end before the     *)
(* next one starts.  Within a callback control changes hands between       *)
(* library code and user code: the library calls user hooks and completion *)
(* callbacks, and these call the library again, before the library frame   *)
(* below them has returned.  "turn" says whose code runs; pc[r] is the     *)
(* library frame of request r.  Frames nest in the order of the request    *)
(* numbers, so the running frame is the largest r with pc[r] # "none", and *)
(* below all of them is the node callback, whose progress is "hpc".        *)
(*                                                                         *)
(* The flight controller (FMU) is external: it runs while the library is   *)
(* idle and while sendCommandSync blocks.                                  *)
(***************************************************************************)
EXTENDS Naturals, Sequences

CONSTANTS
  Modes,                  \* nav_state values
  OwnMode,                \* the id of the owned mode
  NoMode,                 \* ModeBase::kModeIDInvalid
  NoMsg,                  \* an empty (depth 1) subscription queue
  Activation,             \* Settings::activation
  ActivateWhileDisarmed,  \* Settings::activate_even_while_disarmed of the mode
  Calls,                  \* the API calls the user's code makes, with parameters
  MaxReqs,                \* bound: API calls in a behaviour
  MaxEvents,              \* bound: changes of the FMU that nobody commanded
  IssueFrom,              \* results and hooks from which user code makes calls
  OneWait,                \* user code has at most one arm/disarm/wait pending
  CompletesAnytime,       \* the mode calls completed() also when it is not active
  LooseAcks,              \* an ACK may belong to an earlier command
  ModeResults,            \* results a ModeCompleted carries
  DeferStates             \* failsafe_defer_state values of the FMU

Reqs     == 1 .. MaxReqs
NoReq    == 0
Results  == {"Success", "Rejected", "Timeout", "Deactivated", "ModeFailureOther"}
AllKinds == {"schedule", "arm", "disarm", "waitReady", "waitDisarmed"}
Request  == [kind : AllKinds, mode : Modes, forced : BOOLEAN]

ASSUME ExecutorAssumption ==
  /\ OwnMode \in Modes
  /\ NoMode \notin Modes
  /\ Activation \in {"OnlyWhenArmed", "Always", "Immediately"}
  /\ ActivateWhileDisarmed \in BOOLEAN
  /\ Calls \subseteq Request
  /\ MaxReqs \in Nat
  /\ MaxEvents \in Nat
  /\ OneWait \in BOOLEAN
  /\ CompletesAnytime \in BOOLEAN
  /\ LooseAcks \in BOOLEAN
  /\ ModeResults \subseteq {"Success", "ModeFailureOther"}
  /\ "disabled" \in DeferStates

\* What a VehicleStatus says: "charge" is executor_in_charge = id().
Status    == [nav : Modes, armed : BOOLEAN, charge : BOOLEAN, ready : BOOLEAN,
              defer : DeferStates]
Completed == [mode : Modes, result : ModeResults]

VARIABLES
  isArmed, inCharge, neverActivated, prevNav, prevDefer,  \* ModeExecutorBase
  scheduled,   \* _current_scheduled_mode: the request holding it, or NoReq
  waiting,     \* _current_wait_vehicle_status, likewise
  req,         \* the parameters of each request
  issued,      \* number of requests made
  pc,          \* the library frame of each request
  turn,        \* whose code runs: "lib" or "user"
  answers,     \* history: the results each completion callback was called with
  hpc,         \* progress of the node callback below all frames
  msg,         \* the VehicleStatus vehicleStatusUpdated works on
  justArmed, gotActivated, again,      \* its local variables
  modeActive, modeDone,                \* ModeBase::_is_active and _completed
  status, completedMsg,                \* subscription queues of depth 1
  fmu,         \* the state of the FMU that its VehicleStatus reports
  events       \* number of changes of the FMU that nobody commanded

execVars    == <<isArmed, inCharge, neverActivated, prevNav, prevDefer>>
slotVars    == <<scheduled, waiting>>
callVars    == <<req, issued, pc, turn, answers>>
handlerVars == <<hpc, msg, justArmed, gotActivated, again>>
modeVars    == <<modeActive, modeDone>>
linkVars    == <<status, completedMsg>>
fmuVars     == <<fmu, events>>
vars == <<execVars, slotVars, callVars, handlerVars, modeVars, linkVars, fmuVars>>

ExecTypeOK ==
  /\ isArmed \in BOOLEAN /\ inCharge \in BOOLEAN /\ neverActivated \in BOOLEAN
  /\ prevNav \in Modes \cup {NoMode}
  /\ prevDefer \in DeferStates

SlotTypeOK ==
  /\ scheduled \in Reqs \cup {NoReq}
  /\ waiting \in Reqs \cup {NoReq}

CallTypeOK ==
  /\ issued \in 0 .. MaxReqs
  /\ req \in [Reqs -> Request \cup {NoMsg}]
  /\ pc \in [Reqs -> {"none", "send", "accepted", "rejected", "ret"}]
  /\ \A r \in Reqs : IF r <= issued THEN req[r] \in Request ELSE pc[r] = "none"
  /\ turn \in {"lib", "user"}
  /\ answers \in [Reqs -> Seq(Results)]

HandlerTypeOK ==
  /\ hpc \in {"idle", "cancelScheduled", "cancelWait", "deactivated",
              "checkReactivate", "activateAgain", "deferred", "mode", "wait",
              "done"}
  /\ msg \in Status \cup {NoMsg}
  /\ hpc \notin {"idle", "done"} => msg \in Status
  /\ justArmed \in BOOLEAN /\ gotActivated \in BOOLEAN /\ again \in BOOLEAN

ModeTypeOK == modeActive \in BOOLEAN /\ modeDone \in BOOLEAN

LinkTypeOK ==
  /\ status \in Status \cup {NoMsg}
  /\ completedMsg \in Completed \cup {NoMsg}

FmuTypeOK == fmu \in Status /\ events \in 0 .. MaxEvents

TypeOK ==
  /\ ExecTypeOK /\ SlotTypeOK /\ CallTypeOK /\ HandlerTypeOK
  /\ ModeTypeOK /\ LinkTypeOK /\ FmuTypeOK

\* Just after a successful registration.  With activate_mode_immediately the
\* FMU has switched to the owned mode and put the executor in charge.
Init ==
  /\ isArmed = FALSE /\ inCharge = FALSE /\ neverActivated = TRUE
  /\ prevNav = NoMode
  /\ prevDefer = "disabled"
  /\ scheduled = NoReq /\ waiting = NoReq
  /\ req = [r \in Reqs |-> NoMsg]
  /\ issued = 0
  /\ pc = [r \in Reqs |-> "none"]
  /\ turn = "lib"
  /\ answers = [r \in Reqs |-> <<>>]
  /\ hpc = "idle" /\ msg = NoMsg
  /\ justArmed = FALSE /\ gotActivated = FALSE /\ again = FALSE
  /\ modeActive = FALSE /\ modeDone = FALSE
  /\ status = NoMsg /\ completedMsg = NoMsg
  /\ fmu \in [nav : Modes, armed : BOOLEAN, charge : {FALSE}, ready : {FALSE},
              defer : {"disabled"}]
             \cup [nav : {OwnMode}, armed : BOOLEAN, charge : {TRUE},
                   ready : {FALSE}, defer : {"disabled"}]
  /\ Activation = "Immediately" => fmu.charge
  /\ events = 0

-----------------------------------------------------------------------------
(* Control: frames and user code.                                          *)

NoFrame   == \A r \in Reqs : pc[r] = "none"
Running(r) == /\ turn = "lib"
              /\ pc[r] # "none"
              /\ \A q \in Reqs : q > r => pc[q] = "none"

\* The node callback itself runs, at the given step.
Handler(step) == turn = "lib" /\ NoFrame /\ hpc = step

\* Calling a user hook: user code that makes no request just returns.
Hook(name) == turn' = IF name \in IssueFrom THEN "user" ELSE "lib"

\* on_completed_callback(result) of request r.
CallBack(r, result) ==
  /\ answers' = [answers EXCEPT ![r] = Append(@, result)]
  /\ Hook(result)

UserReturns ==
  /\ turn = "user"
  /\ turn' = "lib"
  /\ UNCHANGED <<execVars, slotVars, req, issued, pc, answers, handlerVars,
                 modeVars, linkVars, fmuVars>>

\* Other code of the user's node (a timer, another subscription) runs.
TimerFires ==
  /\ Handler("idle")
  /\ "timer" \in IssueFrom
  /\ turn' = "user"
  /\ hpc' = "done"
  /\ UNCHANGED <<execVars, slotVars, req, issued, pc, answers, msg, justArmed,
                 gotActivated, again, modeVars, linkVars, fmuVars>>

-----------------------------------------------------------------------------
(* The API, called by user code.                                           *)

\* Wrong variant of Issue: the parameters go to the request made before.
IssueOffByOne(call) ==
  /\ turn = "user"
  /\ issued < MaxReqs
  /\ issued' = issued + 1
  /\ req' = IF issued = 0 THEN req ELSE [req EXCEPT ![issued] = call]
  /\ UNCHANGED <<execVars, handlerVars, modeVars, linkVars, fmuVars>>

Issue(call) ==
  /\ turn = "user"
  /\ issued < MaxReqs
  /\ issued' = issued + 1
  /\ req' = [req EXCEPT ![issued + 1] = call]
  /\ UNCHANGED <<execVars, handlerVars, modeVars, linkVars, fmuVars>>

\* The call ends in its own callback, called before it returns.
AnswerAtOnce(result) ==
  /\ pc' = [pc EXCEPT ![issued + 1] = "ret"]
  /\ CallBack(issued + 1, result)
  /\ UNCHANGED slotVars

\* Wrong variant of ScheduleMode: the mode scheduled before is not cancelled.
ScheduleWithoutCancel(call) ==
  /\ Issue(call)
  /\ call.kind = "schedule"
  /\ IF isArmed \/ call.forced
     THEN /\ pc' = [pc EXCEPT ![issued + 1] = "send"]
          /\ turn' = "lib"
          /\ UNCHANGED <<slotVars, answers>>
     ELSE AnswerAtOnce("Rejected")

ScheduleMode(call) ==
  /\ Issue(call)
  /\ call.kind = "schedule"
  /\ \/ /\ ~isArmed /\ ~call.forced
        /\ AnswerAtOnce("Rejected")
     \/ /\ isArmed \/ call.forced
        /\ pc' = [pc EXCEPT ![issued + 1] = "send"]
        /\ scheduled' = NoReq
        /\ IF scheduled # NoReq THEN CallBack(scheduled, "Deactivated")
                                ELSE turn' = "lib" /\ UNCHANGED answers
        /\ UNCHANGED waiting

\* arm() and disarm()
SetArmed(call) ==
  /\ Issue(call)
  /\ call.kind \in {"arm", "disarm"}
  /\ OneWait => waiting = NoReq
  /\ \/ /\ isArmed = (call.kind = "arm")
        /\ AnswerAtOnce("Success")
     \/ /\ isArmed # (call.kind = "arm")
        /\ pc' = [pc EXCEPT ![issued + 1] = "send"]
        /\ turn' = "lib"
        /\ UNCHANGED <<slotVars, answers>>

\* waitReadyToArm() and waitUntilDisarmed()
WaitFor(call) ==
  /\ Issue(call)
  /\ call.kind \in {"waitReady", "waitDisarmed"}
  /\ OneWait => waiting = NoReq
  /\ \/ /\ isArmed = (call.kind = "waitReady")
        /\ AnswerAtOnce("Success")
     \/ /\ isArmed # (call.kind = "waitReady")
        /\ waiting' = issued + 1
        /\ UNCHANGED <<scheduled, pc, turn, answers>>

\* sendCommandSync() returns.  A refusal is passed to the callback, a success
\* stores the callback (ScheduledMode::activate, WaitFor...::activate).
SendReturns(r, result) ==
  /\ Running(r)
  /\ \/ pc[r] = "accepted" /\ result \in {"Success", "Timeout"}
     \/ pc[r] = "rejected" /\ result \in {"Rejected", "Timeout"}
     \/ pc[r] = "send" /\ result = "Timeout"
     \/ LooseAcks /\ pc[r] # "ret" /\ result \in {"Success", "Rejected"}
  /\ \/ /\ result # "Success"
        /\ pc' = [pc EXCEPT ![r] = "ret"]
        /\ CallBack(r, result)
        /\ UNCHANGED slotVars
     \/ /\ result = "Success"
        /\ pc' = [pc EXCEPT ![r] = "none"]
        /\ turn' = "user"
        /\ IF req[r].kind = "schedule" THEN scheduled' = r /\ UNCHANGED waiting
                                       ELSE waiting' = r /\ UNCHANGED scheduled
        /\ UNCHANGED answers
  /\ UNCHANGED <<execVars, req, issued, handlerVars, modeVars, linkVars, fmuVars>>

\* The callback has returned, and the API call returns to the code that made it.
CallReturns(r) ==
  /\ Running(r)
  /\ pc[r] = "ret"
  /\ pc' = [pc EXCEPT ![r] = "none"]
  /\ turn' = "user"
  /\ UNCHANGED <<execVars, slotVars, req, issued, answers, handlerVars,
                 modeVars, linkVars, fmuVars>>

-----------------------------------------------------------------------------
(* The ModeCompleted subscription.                                         *)

CompletedDelivered ==
  /\ Handler("idle")
  /\ completedMsg # NoMsg
  /\ completedMsg' = NoMsg
  /\ IF scheduled # NoReq /\ req[scheduled].mode = completedMsg.mode
     THEN /\ scheduled' = NoReq
          /\ CallBack(scheduled, completedMsg.result)
          /\ hpc' = "done"
     ELSE UNCHANGED <<scheduled, answers, turn, hpc>>
  /\ UNCHANGED <<execVars, waiting, req, issued, pc, msg, justArmed,
                 gotActivated, again, modeVars, status, fmuVars>>

-----------------------------------------------------------------------------
(* vehicleStatusUpdated(), one action per piece between two calls of user  *)
(* code.                                                                   *)

StatusDelivered ==
  /\ Handler("idle")
  /\ status # NoMsg
  /\ msg' = status
  /\ status' = NoMsg
  /\ isArmed' = status.armed
  /\ justArmed' = (status.armed /\ ~isArmed)
  /\ LET charge == /\ status.charge
                   /\ \/ status.armed
                      \/ Activation = "Immediately" /\ neverActivated
                      \/ Activation = "Always"
     IN  /\ inCharge' = (inCharge \/ charge)
         /\ gotActivated' = (charge /\ ~inCharge)
         /\ \/ /\ charge /\ ~inCharge
               /\ Hook("onActivate")
               /\ hpc' = "checkReactivate"
            \/ /\ ~charge /\ inCharge
               /\ hpc' = "cancelScheduled"
               /\ UNCHANGED turn
            \/ /\ charge = inCharge
               /\ hpc' = "checkReactivate"
               /\ UNCHANGED turn
  /\ UNCHANGED <<neverActivated, prevNav, prevDefer, slotVars, req, issued, pc,
                 answers, again, modeVars, completedMsg, fmuVars>>

\* Wrong variants of CancelScheduled: the slot keeps its callback, or the
\* cancellation is left out.
CallScheduledOnly ==
  /\ Handler("cancelScheduled")
  /\ hpc' = "cancelWait"
  /\ IF scheduled # NoReq THEN CallBack(scheduled, "Deactivated")
                          ELSE UNCHANGED <<answers, turn>>
  /\ UNCHANGED <<execVars, slotVars, req, issued, pc, msg, justArmed,
                 gotActivated, again, modeVars, linkVars, fmuVars>>

KeepScheduled ==
  /\ Handler("cancelScheduled")
  /\ hpc' = "cancelWait"
  /\ UNCHANGED <<execVars, slotVars, callVars, msg, justArmed, gotActivated,
                 again, modeVars, linkVars, fmuVars>>

\* callOnDeactivate(): _current_scheduled_mode.cancel()
CancelScheduled ==
  /\ Handler("cancelScheduled")
  /\ hpc' = "cancelWait"
  /\ scheduled' = NoReq
  /\ IF scheduled # NoReq THEN CallBack(scheduled, "Deactivated")
                          ELSE UNCHANGED <<answers, turn>>
  /\ UNCHANGED <<execVars, waiting, req, issued, pc, msg, justArmed,
                 gotActivated, again, modeVars, linkVars, fmuVars>>

\* callOnDeactivate(): _current_wait_vehicle_status.cancel()
CancelWait ==
  /\ Handler("cancelWait")
  /\ hpc' = "deactivated"
  /\ waiting' = NoReq
  /\ IF waiting # NoReq THEN CallBack(waiting, "Deactivated")
                        ELSE UNCHANGED <<answers, turn>>
  /\ UNCHANGED <<execVars, scheduled, req, issued, pc, msg, justArmed,
                 gotActivated, again, modeVars, linkVars, fmuVars>>

\* Wrong variant of Deactivated: the executor stays in charge.
DeactivatedInCharge ==
  /\ Handler("deactivated")
  /\ neverActivated' = FALSE
  /\ Hook("onDeactivate")
  /\ hpc' = IF again THEN "activateAgain" ELSE "checkReactivate"
  /\ UNCHANGED <<isArmed, inCharge, prevNav, prevDefer, slotVars, req, issued,
                 pc, answers, msg, justArmed, gotActivated, again, modeVars,
                 linkVars, fmuVars>>

\* callOnDeactivate(): the rest, up to the user's onDeactivate()
Deactivated ==
  /\ Handler("deactivated")
  /\ inCharge' = FALSE
  /\ neverActivated' = FALSE
  /\ Hook("onDeactivate")
  /\ hpc' = IF again THEN "activateAgain" ELSE "checkReactivate"
  /\ UNCHANGED <<isArmed, prevNav, prevDefer, slotVars, req, issued, pc, answers,
                 msg, justArmed, gotActivated, again, modeVars, linkVars, fmuVars>>

\* The user switched from the scheduled mode to the owned one.
SwitchedBack ==
  /\ ~gotActivated /\ inCharge /\ isArmed
  /\ scheduled # NoReq /\ req[scheduled].mode = prevNav
  /\ msg.nav = OwnMode /\ prevNav # msg.nav

CheckReactivate ==
  /\ Handler("checkReactivate")
  /\ again' = SwitchedBack
  /\ hpc' = IF SwitchedBack THEN "cancelScheduled" ELSE "deferred"
  /\ UNCHANGED <<execVars, slotVars, callVars, msg, justArmed, gotActivated,
                 modeVars, linkVars, fmuVars>>

ActivateAgain ==
  /\ Handler("activateAgain")
  /\ inCharge' = TRUE
  /\ Hook("onActivate")
  /\ hpc' = "deferred"
  /\ UNCHANGED <<isArmed, neverActivated, prevNav, prevDefer, slotVars, req,
                 issued, pc, answers, msg, justArmed, gotActivated, again,
                 modeVars, linkVars, fmuVars>>

FailsafeDeferred ==
  /\ Handler("deferred")
  /\ prevDefer' = msg.defer
  /\ IF inCharge /\ prevDefer # msg.defer /\ msg.defer = "would"
     THEN Hook("onFailsafeDeferred")
     ELSE UNCHANGED turn
  /\ hpc' = "mode"
  /\ UNCHANGED <<isArmed, inCharge, neverActivated, prevNav, slotVars, req,
                 issued, pc, answers, msg, justArmed, gotActivated, again,
                 modeVars, linkVars, fmuVars>>

\* Wrong variant of DoNotActivateMode: arming is not considered.
DoNotActivateWhenScheduled ==
  inCharge /\ scheduled # NoReq /\ req[scheduled].mode # OwnMode

DoNotActivateMode ==
  /\ inCharge
  /\ \/ scheduled # NoReq /\ req[scheduled].mode # OwnMode
     \/ justArmed /\ waiting # NoReq

\* Wrong variants of OwnedModeUpdated: a suppressed activation also suppresses
\* the deactivation, or the mode is activated only by a change of nav_state.
OwnedModeSuppressed(nav, armed, doNotActivate) ==
  LET active == nav = OwnMode /\ (armed \/ ActivateWhileDisarmed)
  IN  /\ modeActive' = IF doNotActivate THEN modeActive ELSE active
      /\ modeDone' = (modeDone /\ (modeActive \/ ~modeActive'))

OwnedModeOnChange(nav, armed, doNotActivate) ==
  LET active == nav = OwnMode /\ (armed \/ ActivateWhileDisarmed)
  IN  /\ modeActive' = (active /\ (modeActive \/ (~doNotActivate /\ nav # prevNav)))
      /\ modeDone' = (modeDone /\ (modeActive \/ ~modeActive'))

\* ModeBase::vehicleStatusUpdated(); activating resets _completed.
OwnedModeUpdated(nav, armed, doNotActivate) ==
  LET active == nav = OwnMode /\ (armed \/ ActivateWhileDisarmed)
  IN  /\ modeActive' = (active /\ (modeActive \/ ~doNotActivate))
      /\ modeDone' = (modeDone /\ (modeActive \/ ~modeActive'))

\* An activation calls the mode's onActivate() and updateSetpoint(), a deactivation its
\* onDeactivate(); they may make requests of the executor.
UpdateMode ==
  /\ Handler("mode")
  /\ OwnedModeUpdated(msg.nav, msg.armed, DoNotActivateMode)
  /\ IF modeActive' # modeActive THEN Hook("ownedMode") ELSE UNCHANGED turn
  /\ prevNav' = msg.nav
  /\ hpc' = "wait"
  /\ UNCHANGED <<isArmed, inCharge, neverActivated, prevDefer, slotVars, req, issued,
                 pc, answers, msg, justArmed, gotActivated, again, linkVars, fmuVars>>

\* Wrong variant of WaitConditionHolds: a disarming is taken for done by a status
\* that does not report an arming.
WaitConditionJustArmed ==
  CASE req[waiting].kind = "arm"       -> isArmed
    [] req[waiting].kind = "waitReady" -> msg.ready
    [] OTHER                           -> ~justArmed

\* The run_check_callback of the waiting request.
WaitConditionHolds ==
  CASE req[waiting].kind = "arm"       -> isArmed
    [] req[waiting].kind = "waitReady" -> msg.ready
    [] OTHER                           -> ~isArmed

UpdateWait ==
  /\ Handler("wait")
  /\ IF waiting # NoReq /\ WaitConditionHolds
     THEN CallBack(waiting, "Success") /\ waiting' = NoReq
     ELSE UNCHANGED <<waiting, answers, turn>>
  /\ hpc' = "done"
  /\ UNCHANGED <<execVars, scheduled, req, issued, pc, msg, justArmed,
                 gotActivated, again, modeVars, linkVars, fmuVars>>

CallbackEnds ==
  /\ Handler("done")
  /\ hpc' = "idle"
  /\ msg' = NoMsg
  /\ justArmed' = FALSE /\ gotActivated' = FALSE /\ again' = FALSE
  /\ UNCHANGED <<execVars, slotVars, callVars, modeVars, linkVars, fmuVars>>

\* ModeBase::completed(), which the FMU relays to all subscribers.  It does not look
\* whether the mode is active.
OwnedModeCompletes(result) ==
  /\ Handler("idle")
  /\ modeActive \/ CompletesAnytime
  /\ ~modeDone
  /\ modeDone' = TRUE
  /\ completedMsg' = [mode |-> OwnMode, result |-> result]
  /\ UNCHANGED <<execVars, slotVars, callVars, handlerVars, modeActive, status,
                 fmuVars>>

-----------------------------------------------------------------------------
(* The FMU and the links (external).                                       *)

\* Running library or user code takes no time for the FMU: its steps are
\* observed only when the library waits, idle or for an ACK.
Sending(r) == Running(r) /\ pc[r] # "ret"
FmuTurn    == Handler("idle") \/ \E r \in Reqs : Sending(r)

Environment ==
  /\ FmuTurn
  /\ UNCHANGED <<execVars, slotVars, callVars, handlerVars, modeVars>>

Spontaneous ==
  /\ Environment
  /\ events < MaxEvents
  /\ events' = events + 1

\* The user (RC, ground station) or a failsafe selects a mode.  Selecting the
\* owned mode puts its executor in charge, any other removes it.
FmuSwitches(mode) ==
  /\ Spontaneous
  /\ fmu' = [fmu EXCEPT !.nav = mode, !.charge = (mode = OwnMode)]
  /\ fmu' # fmu
  /\ UNCHANGED linkVars

FmuArms ==
  /\ Spontaneous
  /\ fmu' = [fmu EXCEPT !.armed = ~fmu.armed]
  /\ UNCHANGED linkVars

FmuGetsReady ==
  /\ Spontaneous
  /\ \E call \in Calls : call.kind = "waitReady"
  /\ fmu' = [fmu EXCEPT !.ready = ~fmu.ready]
  /\ UNCHANGED linkVars

FmuDefers(state) ==
  /\ Spontaneous
  /\ fmu' = [fmu EXCEPT !.defer = state]
  /\ fmu' # fmu
  /\ UNCHANGED linkVars

\* An internal mode finishes.
FmuCompletes(result) ==
  /\ Spontaneous
  /\ fmu.nav # OwnMode
  /\ completedMsg' = [mode |-> fmu.nav, result |-> result]
  /\ UNCHANGED <<fmu, status>>

\* A new VehicleStatus replaces the one not yet taken.
FmuPublishes ==
  /\ Environment
  /\ status # fmu
  /\ status' = fmu
  /\ UNCHANGED <<fmuVars, completedMsg>>

CompletedLost ==
  /\ Environment
  /\ completedMsg # NoMsg
  /\ completedMsg' = NoMsg
  /\ UNCHANGED <<fmuVars, status>>

\* The FMU handles the command of request r (or a retry of it).
FmuAccepts(r) ==
  /\ Sending(r)
  /\ pc' = [pc EXCEPT ![r] = "accepted"]
  /\ \/ /\ req[r].kind = "schedule"
        /\ fmu' = [fmu EXCEPT !.nav = req[r].mode]
     \/ /\ req[r].kind # "schedule"
        /\ fmu' = [fmu EXCEPT !.armed = (req[r].kind = "arm")]
  /\ UNCHANGED <<execVars, slotVars, req, issued, turn, answers, handlerVars,
                 modeVars, linkVars, events>>

FmuRejects(r) ==
  /\ Sending(r)
  /\ pc' = [pc EXCEPT ![r] = "rejected"]
  /\ UNCHANGED <<execVars, slotVars, req, issued, turn, answers, handlerVars,
                 modeVars, linkVars, fmuVars>>

-----------------------------------------------------------------------------
ApiCall ==
  \E call \in Calls : ScheduleMode(call) \/ SetArmed(call) \/ WaitFor(call)

StatusHandler ==
  \/ StatusDelivered \/ CancelScheduled \/ CancelWait \/ Deactivated
  \/ CheckReactivate \/ ActivateAgain \/ FailsafeDeferred \/ UpdateMode
  \/ UpdateWait \/ CallbackEnds

Library ==
  \/ StatusHandler
  \/ CompletedDelivered
  \/ \E r \in Reqs : CallReturns(r)
  \/ \E r \in Reqs, result \in Results : SendReturns(r, result)

Fmu ==
  \/ \E m \in Modes : FmuSwitches(m)
  \/ FmuArms
  \/ FmuGetsReady
  \/ \E d \in DeferStates : FmuDefers(d)
  \/ \E result \in ModeResults : FmuCompletes(result)
  \/ FmuPublishes
  \/ CompletedLost
  \/ \E r \in Reqs : FmuAccepts(r) \/ FmuRejects(r)

Next ==
  \/ Library
  \/ ApiCall
  \/ UserReturns
  \/ TimerFires
  \/ \E result \in ModeResults : OwnedModeCompletes(result)
  \/ Fmu

Spec == Init /\ [][Next]_vars

\* ROS serves every ready callback, user code returns, sendCommandSync has a
\* timeout, and the FMU publishes its status periodically.  Nothing makes the
\* FMU or the user do anything else.
Fairness ==
  /\ WF_vars(Library)
  /\ WF_vars(UserReturns)
  /\ WF_vars(FmuPublishes)

FairSpec == Spec /\ Fairness

-----------------------------------------------------------------------------
(* Safety.                                                                 *)

\* A user whose code makes no request from a callback that reports a
\* cancellation, and who waits for one vehicle status condition at a time.
Disciplined == OneWait /\ "Deactivated" \notin IssueFrom

InSend(r) == pc[r] \in {"send", "accepted", "rejected"}

\* A completion callback is called at most once, however user code nests its
\* requests (the callback is moved out of its slot before it is called).
AtMostOneAnswer == \A r \in Reqs : Len(answers[r]) <= 1

\* Every request is still answered or still on its way: no callback is dropped
\* while one slot is reused by the next request.
NoLostRequest ==
  \A r \in 1 .. issued :
    answers[r] = <<>> => r \in {scheduled, waiting} \/ InSend(r)

\* Between node callbacks a request is pending only while the executor is in
\* charge: callOnDeactivate() leaves none behind.
PendingOnlyInCharge ==
  Handler("idle") /\ {scheduled, waiting} # {NoReq} => inCharge

\* The owned mode runs only when the last status put it in control: the
\* executor's hand-over of the status to its mode never leaves it active.
ModeOnlyWhenSelected ==
  Handler("idle") /\ modeActive =>
    prevNav = OwnMode /\ (isArmed \/ ActivateWhileDisarmed)

\* A callback leaves its slot only by being called.
StoredCallbackIsCalled ==
  [][\A r \in Reqs :
       \/ r = scheduled /\ scheduled' # r
       \/ r = waiting /\ waiting' # r
       => answers'[r] # answers[r]]_vars

\* The status that reports the arming the executor asked for does not start the
\* owned mode: the callback of arm() comes first and may schedule another mode.
ArmingKeepsModeOff ==
  [][~modeActive /\ modeActive'
       => ~(inCharge /\ waiting # NoReq /\ req[waiting].kind = "arm")]_vars

-----------------------------------------------------------------------------
(* What the executor promises.                                             *)

\* The state of a request as its maker knows it.
Outcome ==
  [r \in Reqs |-> IF r > issued THEN "unmade"
                 ELSE IF answers[r] = <<>> THEN "open"
                 ELSE IF Len(answers[r]) = 1 THEN answers[r][1]
                 ELSE "again"]

\* callOnDeactivate() runs, up to the user's onDeactivate().
Leaving == hpc \in {"cancelScheduled", "cancelWait", "deactivated"}

Promise == INSTANCE Executor WITH
  call <- req, outcome <- Outcome, armed <- isArmed, leaving <- Leaving, NoCall <- NoMsg

\* To a disciplined user ModeExecutorBase is an Executor: slots, commands on their
\* way, nested callbacks and the steps of a deactivation cannot be told apart from
\* it.
ImplementsExecutor == Promise!Spec

-----------------------------------------------------------------------------
(* Liveness.                                                               *)

Pending == scheduled # NoReq \/ waiting # NoReq

\* When another mode was selected for good, every request is answered.
AnsweredWhenReplaced == <>[](~fmu.charge) => <>[](~Pending)

\* The executor follows the FMU's choice of executor while armed, and an owned
\* mode selected for good runs, unless the executor has another mode scheduled:
\* the suppressed activation is made up for.
FollowsFmu ==
  /\ <>[](fmu.charge /\ fmu.armed) => <>[]inCharge
  /\ <>[](~fmu.charge) => <>[](~inCharge)
  /\ <>[](fmu.nav = OwnMode /\ fmu.armed)
       => <>[](modeActive \/ scheduled # NoReq)
  /\ <>[](fmu.nav # OwnMode) => <>[](~modeActive)

\* When the user has switched back into the owned mode for good, the scheduling
\* of another mode has ended.
AnsweredWhenSwitchedBack ==
  <>[](fmu.nav = OwnMode /\ fmu.charge /\ fmu.armed)
    => []<>(scheduled # NoReq => req[scheduled].mode = OwnMode)
=============================================================================
