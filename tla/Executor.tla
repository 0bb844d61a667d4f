------------------------------- MODULE Executor -------------------------------
(***************************************************************************)
(* What ModeExecutorBase promises to the code that makes requests of it    *)
(* (include/px4_ros2/components/mode_executor.hpp): a callback is called   *)
(* once; "If there's already a mode scheduling active, the previous one is *)
(* cancelled"; arming and disarming are reported done only while they are  *)
(* so; and giving up the charge is atomic for the requests: each is        *)
(* cancelled, and nothing else happens in between.  ModeExecutor implements*)
(* this.                                                                   *)
(***************************************************************************)

CONSTANTS
  Reqs,    \* names of requests
  Calls,   \* what can be asked for: kind, mode and forced
  NoCall

VARIABLES
  call,     \* what each request asks for
  outcome,  \* "unmade", "open", or what its callback was called with
  armed,    \* the vehicle is armed, as far as the executor knows
  inCharge, \* the executor is in charge
  leaving   \* ... and about to give it up

vars == <<call, outcome, armed, inCharge, leaving>>

Commands == {"schedule", "arm", "disarm"}

Init ==
  /\ call = [r \in Reqs |-> NoCall]
  /\ outcome = [r \in Reqs |-> "unmade"]
  /\ armed = FALSE /\ inCharge = FALSE /\ leaving = FALSE

Open == {r \in Reqs : outcome[r] = "open"}

OpenSchedules == {r \in Open : call[r].kind = "schedule"}

Make(r, c) ==
  /\ ~leaving
  /\ outcome[r] = "unmade"
  /\ call' = [call EXCEPT ![r] = c]
  /\ UNCHANGED <<armed, inCharge, leaving>>

\* A disarmed vehicle refuses a mode that is not forced; else the new request
\* takes the place of the one that is open.
Schedule(r, c) ==
  /\ Make(r, c)
  /\ c.kind = "schedule"
  /\ \/ /\ ~armed /\ ~c.forced
        /\ outcome' = [outcome EXCEPT ![r] = "Rejected"]
     \/ /\ armed \/ c.forced
        /\ outcome' = [q \in Reqs |-> IF q = r THEN "open"
                                      ELSE IF q \in OpenSchedules THEN "Deactivated"
                                      ELSE outcome[q]]

\* An armed vehicle needs neither to be armed nor to get ready for it.
Wait(r, c) ==
  /\ Make(r, c)
  /\ c.kind # "schedule"
  /\ \/ /\ armed = (c.kind \in {"arm", "waitReady"})
        /\ outcome' = [outcome EXCEPT ![r] = "Success"]
     \/ /\ armed # (c.kind \in {"arm", "waitReady"})
        /\ Open \subseteq OpenSchedules
        /\ outcome' = [outcome EXCEPT ![r] = "open"]

Answer(r, result) ==
  /\ ~leaving
  /\ r \in Open
  /\ \/ result \in {"Rejected", "Timeout"} /\ call[r].kind \in Commands
     \/ result = "ModeFailureOther" /\ call[r].kind = "schedule"
     \/ /\ result = "Success"
        /\ call[r].kind = "arm" => armed
        /\ call[r].kind \in {"disarm", "waitDisarmed"} => ~armed
  /\ outcome' = [outcome EXCEPT ![r] = result]
  /\ UNCHANGED <<call, armed, inCharge, leaving>>

\* A status arrives; it may give the executor the charge, or take it away.
StatusArrives ==
  /\ ~leaving
  /\ armed' \in BOOLEAN
  /\ \/ inCharge' \in {inCharge, TRUE} /\ leaving' = FALSE
     \/ inCharge /\ inCharge' = inCharge /\ leaving' = TRUE
  /\ UNCHANGED <<call, outcome>>

Cancel(r) ==
  /\ leaving
  /\ r \in Open
  /\ outcome' = [outcome EXCEPT ![r] = "Deactivated"]
  /\ UNCHANGED <<call, armed, inCharge, leaving>>

GiveUpCharge ==
  /\ leaving
  /\ Open = {}
  /\ inCharge' = FALSE /\ leaving' = FALSE
  /\ UNCHANGED <<call, outcome, armed>>

Next ==
  \/ \E r \in Reqs, c \in Calls : Schedule(r, c) \/ Wait(r, c)
  \/ \E r \in Reqs, result \in {"Success", "Rejected", "Timeout", "ModeFailureOther"} :
       Answer(r, result)
  \/ \E r \in Reqs : Cancel(r)
  \/ StatusArrives
  \/ GiveUpCharge

Spec == Init /\ [][Next]_vars
=============================================================================
