------------------------- MODULE ModeExecutorProofs -------------------------
(***************************************************************************)
(* What TLAPS proves of ModeExecutor, for every set of modes, every user   *)
(* and every number of requests and events.                                *)
(***************************************************************************)
EXTENDS ModeExecutor, TLAPS

\* Where the callback of a request can be: at most in one slot, and in none
\* once it has been called.  With this, AtMostOneAnswer is inductive.
OneHolder ==
  /\ scheduled = waiting => scheduled = NoReq
  /\ \A r \in Reqs : r > issued =>
       answers[r] = <<>> /\ pc[r] = "none" /\ r # scheduled /\ r # waiting
  /\ \A r \in Reqs : InSend(r) =>
       answers[r] = <<>> /\ r # scheduled /\ r # waiting
  /\ \A r \in {scheduled, waiting} \cap Reqs : answers[r] = <<>>

Inv1 == TypeOK /\ OneHolder /\ AtMostOneAnswer

\* Of a disciplined user's code only the innermost call can be in
\* sendCommandSync, and the slot it will store its callback in is free.
FreeSlot ==
  \A r \in Reqs : InSend(r) =>
    /\ turn = "lib"
    /\ \A q \in Reqs : q > r => pc[q] = "none"
    /\ IF req[r].kind = "schedule" THEN scheduled = NoReq ELSE waiting = NoReq

Inv2 == Inv1 /\ FreeSlot /\ NoLostRequest

LEMMA InitTypeOK == Init => TypeOK
<1> SUFFICES ASSUME Init PROVE TypeOK
  OBVIOUS
<1>1. fmu \in Status
  BY ExecutorAssumption DEF Init, Status
<1>2. answers \in [Reqs -> Seq(Results)]
  BY DEF Init
<1>3. issued \in 0 .. MaxReqs /\ events \in 0 .. MaxEvents
  BY ExecutorAssumption DEF Init
<1>4. \A r \in Reqs : IF r <= issued THEN req[r] \in Request ELSE pc[r] = "none"
  BY ExecutorAssumption DEF Init, Reqs
<1> QED
  BY <1>1, <1>2, <1>3, <1>4, ExecutorAssumption
  DEF Init, TypeOK, ExecTypeOK, SlotTypeOK, CallTypeOK, HandlerTypeOK,
      ModeTypeOK, LinkTypeOK, FmuTypeOK, NoReq

\* A step that leaves the variables of a component alone keeps their types.
LEMMA Untouched ==
  /\ ExecTypeOK /\ UNCHANGED execVars => ExecTypeOK'
  /\ SlotTypeOK /\ UNCHANGED slotVars => SlotTypeOK'
  /\ CallTypeOK /\ UNCHANGED callVars => CallTypeOK'
  /\ HandlerTypeOK /\ UNCHANGED handlerVars => HandlerTypeOK'
  /\ ModeTypeOK /\ UNCHANGED modeVars => ModeTypeOK'
  /\ LinkTypeOK /\ UNCHANGED linkVars => LinkTypeOK'
  /\ FmuTypeOK /\ UNCHANGED fmuVars => FmuTypeOK'
  BY DEF ExecTypeOK, SlotTypeOK, CallTypeOK, HandlerTypeOK, ModeTypeOK,
         LinkTypeOK, FmuTypeOK, execVars, slotVars, callVars, handlerVars,
         modeVars, linkVars, fmuVars

\* Calling a callback appends one result.
LEMMA CallBackType ==
  ASSUME CallTypeOK, NEW r \in Reqs, NEW result \in Results, CallBack(r, result)
  PROVE  answers' \in [Reqs -> Seq(Results)] /\ turn' \in {"lib", "user"}
<1>1. Append(answers[r], result) \in Seq(Results)
  BY DEF CallTypeOK
<1> QED
  BY <1>1 DEF CallTypeOK, CallBack, Hook

LEMMA IssueType ==
  ASSUME CallTypeOK, NEW call \in Calls, Issue(call)
  PROVE  /\ issued + 1 \in Reqs
         /\ issued' \in 0 .. MaxReqs
         /\ req' \in [Reqs -> Request \cup {NoMsg}]
         /\ \A r \in Reqs : r <= issued' => req'[r] \in Request
         /\ \A r \in Reqs : r > issued' => pc[r] = "none" /\ r # issued + 1
<1> call \in Request /\ MaxReqs \in Nat
  BY ExecutorAssumption
<1>1. issued + 1 \in Reqs /\ issued' = issued + 1
  BY DEF CallTypeOK, Issue, Reqs
<1> QED
  BY <1>1 DEF CallTypeOK, Issue, Reqs

\* An API call changes no frame but its own.
LEMMA IssuedCallType ==
  ASSUME CallTypeOK, NEW call \in Calls, Issue(call),
         \/ pc' = pc
         \/ \E step \in {"send", "ret"} : pc' = [pc EXCEPT ![issued + 1] = step],
         turn' \in {"lib", "user"}, answers' \in [Reqs -> Seq(Results)]
  PROVE  CallTypeOK'
<1>1. pc' \in [Reqs -> {"none", "send", "accepted", "rejected", "ret"}]
  BY DEF CallTypeOK
<1>2. \A r \in Reqs : r # issued + 1 => pc'[r] = pc[r]
  BY DEF CallTypeOK
<1>3. \A r \in Reqs : IF r <= issued' THEN req'[r] \in Request ELSE pc'[r] = "none"
  BY <1>2, IssueType DEF Reqs
<1> QED
  BY <1>1, <1>3, IssueType DEF CallTypeOK

LEMMA AnswerAtOnceType ==
  ASSUME CallTypeOK, SlotTypeOK, NEW call \in Calls, Issue(call),
         NEW result \in Results, AnswerAtOnce(result)
  PROVE  CallTypeOK' /\ SlotTypeOK'
<1>1. answers' \in [Reqs -> Seq(Results)] /\ turn' \in {"lib", "user"}
  BY IssueType, CallBackType DEF AnswerAtOnce
<1> QED
  BY <1>1, IssuedCallType, Untouched DEF AnswerAtOnce

LEMMA ApiCallType == ASSUME TypeOK, ApiCall PROVE TypeOK'
<1> USE DEF TypeOK
<1> PICK call \in Calls : ScheduleMode(call) \/ SetArmed(call) \/ WaitFor(call)
  BY DEF ApiCall
<1>0. Issue(call)
  BY DEF ScheduleMode, SetArmed, WaitFor
<1>1. ExecTypeOK' /\ HandlerTypeOK' /\ ModeTypeOK' /\ LinkTypeOK' /\ FmuTypeOK'
  BY <1>0, Untouched DEF Issue
<1>2. CASE AnswerAtOnce("Rejected") \/ AnswerAtOnce("Success")
  BY <1>0, <1>1, <1>2, AnswerAtOnceType DEF Results
<1>3. CASE ScheduleMode(call) /\ ~AnswerAtOnce("Rejected")
  <2>1. answers' \in [Reqs -> Seq(Results)] /\ turn' \in {"lib", "user"}
    BY <1>3, CallBackType DEF ScheduleMode, CallTypeOK, SlotTypeOK, Results
  <2>2. pc' = [pc EXCEPT ![issued + 1] = "send"]
    BY <1>3 DEF ScheduleMode
  <2>3. CallTypeOK'
    BY <1>0, <2>1, <2>2, IssuedCallType
  <2> QED
    BY <1>1, <1>3, <2>3 DEF ScheduleMode, SlotTypeOK
<1>4. CASE SetArmed(call) /\ ~AnswerAtOnce("Success")
  <2>1. /\ pc' = [pc EXCEPT ![issued + 1] = "send"] /\ turn' = "lib"
        /\ UNCHANGED <<slotVars, answers>>
    BY <1>4 DEF SetArmed
  <2>2. CallTypeOK'
    BY <1>0, <2>1, IssuedCallType DEF CallTypeOK
  <2> QED
    BY <1>1, <2>1, <2>2, Untouched
<1>5. CASE WaitFor(call) /\ ~AnswerAtOnce("Success")
  <2>1. pc' = pc /\ turn' = turn /\ answers' = answers
    BY <1>5 DEF WaitFor
  <2>2. CallTypeOK'
    BY <1>0, <2>1, IssuedCallType DEF CallTypeOK
  <2> QED
    BY <1>0, <1>1, <1>5, <2>2, IssueType DEF WaitFor, SlotTypeOK
<1> QED
  BY <1>2, <1>3, <1>4, <1>5

\* Library steps outside sendCommandSync: at most one callback or hook is called.
LEMMA CalledType ==
  ASSUME CallTypeOK, UNCHANGED <<req, issued, pc>>,
         \/ UNCHANGED <<turn, answers>>
         \/ answers' = answers /\ turn' \in {"lib", "user"}
         \/ \E r \in Reqs, result \in Results : CallBack(r, result)
  PROVE  CallTypeOK'
<1>1. answers' \in [Reqs -> Seq(Results)] /\ turn' \in {"lib", "user"}
  BY CallBackType DEF CallTypeOK
<1> QED
  BY <1>1 DEF CallTypeOK

LEMMA HookType == ASSUME NEW name, Hook(name) PROVE turn' \in {"lib", "user"}
  BY DEF Hook

LEMMA UserType == ASSUME TypeOK, UserReturns \/ TimerFires PROVE TypeOK'
<1> USE DEF TypeOK
<1>1. CASE UserReturns
  <2>1. CallTypeOK'
    BY <1>1, CalledType DEF UserReturns
  <2> QED
    BY <1>1, <2>1, Untouched DEF UserReturns
<1>2. CASE TimerFires
  <2>1. CallTypeOK'
    BY <1>2, CalledType DEF TimerFires
  <2>2. HandlerTypeOK'
    BY <1>2 DEF TimerFires, HandlerTypeOK
  <2> QED
    BY <1>2, <2>1, <2>2, Untouched DEF TimerFires
<1> QED
  BY <1>1, <1>2

\* A frame that changes belongs to a request that was issued.
LEMMA FrameType ==
  ASSUME CallTypeOK, NEW r \in Reqs, pc[r] # "none", UNCHANGED <<req, issued>>,
         NEW step \in {"none", "send", "accepted", "rejected", "ret"},
         pc' = [pc EXCEPT ![r] = step],
         turn' \in {"lib", "user"}, answers' \in [Reqs -> Seq(Results)]
  PROVE  CallTypeOK' /\ req[r] \in Request
  BY DEF CallTypeOK

LEMMA SendReturnsType ==
  ASSUME TypeOK, NEW r \in Reqs, NEW result \in Results, SendReturns(r, result)
  PROVE  TypeOK'
<1> USE DEF TypeOK
<1>1. pc[r] # "none" /\ UNCHANGED <<req, issued>>
  BY DEF SendReturns, Running
<1>2. answers' \in [Reqs -> Seq(Results)] /\ turn' \in {"lib", "user"}
  BY CallBackType DEF SendReturns, CallTypeOK
<1>3. \E step \in {"none", "ret"} : pc' = [pc EXCEPT ![r] = step]
  BY DEF SendReturns
<1>4. CallTypeOK'
  BY <1>1, <1>2, <1>3, FrameType
<1>5. SlotTypeOK'
  BY DEF SendReturns, SlotTypeOK, slotVars
<1> QED
  BY <1>4, <1>5, Untouched DEF SendReturns

LEMMA CallReturnsType ==
  ASSUME TypeOK, NEW r \in Reqs, CallReturns(r)
  PROVE  TypeOK'
<1> USE DEF TypeOK
<1>1. CallTypeOK'
  BY FrameType DEF CallReturns, Running, CallTypeOK
<1> QED
  BY <1>1, Untouched DEF CallReturns

LEMMA CompletedType == ASSUME TypeOK, CompletedDelivered PROVE TypeOK'
<1> USE DEF TypeOK
<1>1. completedMsg.result \in Results
  BY ExecutorAssumption DEF CompletedDelivered, LinkTypeOK, Completed, Results
<1>2. CallTypeOK'
  BY <1>1, CalledType DEF CompletedDelivered, SlotTypeOK
<1>3. SlotTypeOK' /\ LinkTypeOK' /\ HandlerTypeOK'
  BY DEF CompletedDelivered, SlotTypeOK, LinkTypeOK, HandlerTypeOK
<1> QED
  BY <1>2, <1>3, Untouched DEF CompletedDelivered

LEMMA StatusHandlerType == ASSUME TypeOK, StatusHandler PROVE TypeOK'
<1> USE DEF TypeOK, Handler
<1>1. CASE StatusDelivered
  <2>1. CallTypeOK'
    BY <1>1, CalledType, HookType DEF StatusDelivered, CallTypeOK
  <2>2. HandlerTypeOK'
    BY <1>1 DEF StatusDelivered, HandlerTypeOK, LinkTypeOK, ExecTypeOK, Status
  <2>3. ExecTypeOK' /\ LinkTypeOK'
    BY <1>1 DEF StatusDelivered, ExecTypeOK, LinkTypeOK, Status
  <2> QED
    BY <1>1, <2>1, <2>2, <2>3, Untouched DEF StatusDelivered
<1>2. CASE CancelScheduled
  <2>1. CallTypeOK'
    BY <1>2, CalledType DEF CancelScheduled, SlotTypeOK, Results
  <2>2. HandlerTypeOK' /\ SlotTypeOK'
    BY <1>2 DEF CancelScheduled, HandlerTypeOK, SlotTypeOK
  <2> QED
    BY <1>2, <2>1, <2>2, Untouched DEF CancelScheduled
<1>3. CASE CancelWait
  <2>1. CallTypeOK'
    BY <1>3, CalledType DEF CancelWait, SlotTypeOK, Results
  <2>2. HandlerTypeOK' /\ SlotTypeOK'
    BY <1>3 DEF CancelWait, HandlerTypeOK, SlotTypeOK
  <2> QED
    BY <1>3, <2>1, <2>2, Untouched DEF CancelWait
<1>4. CASE Deactivated
  <2>1. CallTypeOK'
    BY <1>4, CalledType, HookType DEF Deactivated
  <2>2. HandlerTypeOK' /\ ExecTypeOK'
    BY <1>4 DEF Deactivated, HandlerTypeOK, ExecTypeOK
  <2> QED
    BY <1>4, <2>1, <2>2, Untouched DEF Deactivated
<1>5. CASE CheckReactivate
  <2>1. HandlerTypeOK'
    BY <1>5 DEF CheckReactivate, SwitchedBack, HandlerTypeOK
  <2> QED
    BY <1>5, <2>1, Untouched DEF CheckReactivate
<1>6. CASE ActivateAgain
  <2>1. CallTypeOK'
    BY <1>6, CalledType, HookType DEF ActivateAgain
  <2>2. HandlerTypeOK' /\ ExecTypeOK'
    BY <1>6 DEF ActivateAgain, HandlerTypeOK, ExecTypeOK
  <2> QED
    BY <1>6, <2>1, <2>2, Untouched DEF ActivateAgain
<1>7. CASE FailsafeDeferred
  <2>1. CallTypeOK'
    BY <1>7, CalledType, HookType DEF FailsafeDeferred, CallTypeOK
  <2>2. HandlerTypeOK' /\ ExecTypeOK'
    BY <1>7 DEF FailsafeDeferred, HandlerTypeOK, ExecTypeOK, Status
  <2> QED
    BY <1>7, <2>1, <2>2, Untouched DEF FailsafeDeferred
<1>8. CASE UpdateMode
  <2>1. HandlerTypeOK' /\ ExecTypeOK'
    BY <1>8 DEF UpdateMode, HandlerTypeOK, ExecTypeOK, Status
  <2>2. ModeTypeOK'
    BY <1>8 DEF UpdateMode, OwnedModeUpdated, DoNotActivateMode, ModeTypeOK
  <2>3. CallTypeOK'
    BY <1>8, CalledType, HookType DEF UpdateMode, CallTypeOK
  <2> QED
    BY <1>8, <2>1, <2>2, <2>3, Untouched DEF UpdateMode
<1>9. CASE UpdateWait
  <2>1. CallTypeOK'
    BY <1>9, CalledType DEF UpdateWait, SlotTypeOK, Results
  <2>2. HandlerTypeOK' /\ SlotTypeOK'
    BY <1>9 DEF UpdateWait, HandlerTypeOK, SlotTypeOK
  <2> QED
    BY <1>9, <2>1, <2>2, Untouched DEF UpdateWait
<1>10. CASE CallbackEnds
  <2>1. HandlerTypeOK'
    BY <1>10 DEF CallbackEnds, HandlerTypeOK
  <2> QED
    BY <1>10, <2>1, Untouched DEF CallbackEnds
<1> QED
  BY <1>1, <1>2, <1>3, <1>4, <1>5, <1>6, <1>7, <1>8, <1>9, <1>10 DEF StatusHandler

LEMMA FmuType == ASSUME TypeOK, Fmu PROVE TypeOK'
<1> USE DEF TypeOK
<1>1. ASSUME Environment
      PROVE  ExecTypeOK' /\ SlotTypeOK' /\ CallTypeOK' /\ HandlerTypeOK' /\ ModeTypeOK'
  BY <1>1, Untouched DEF Environment
<1>2. ASSUME Spontaneous PROVE events' \in 0 .. MaxEvents
  BY <1>2, ExecutorAssumption DEF Spontaneous, FmuTypeOK
<1>3. ASSUME NEW m \in Modes, FmuSwitches(m) PROVE TypeOK'
  BY <1>1, <1>2, <1>3, Untouched DEF FmuSwitches, Spontaneous, FmuTypeOK, Status
<1>4. CASE FmuArms
  BY <1>1, <1>2, <1>4, Untouched DEF FmuArms, Spontaneous, FmuTypeOK, Status
<1>5. CASE FmuGetsReady
  BY <1>1, <1>2, <1>5, Untouched DEF FmuGetsReady, Spontaneous, FmuTypeOK, Status
<1>6. ASSUME NEW d \in DeferStates, FmuDefers(d) PROVE TypeOK'
  BY <1>1, <1>2, <1>6, Untouched DEF FmuDefers, Spontaneous, FmuTypeOK, Status
<1>7. ASSUME NEW result \in ModeResults, FmuCompletes(result) PROVE TypeOK'
  BY <1>1, <1>2, <1>7
  DEF FmuCompletes, Spontaneous, FmuTypeOK, LinkTypeOK, Status, Completed
<1>8. CASE FmuPublishes
  BY <1>1, <1>8, Untouched DEF FmuPublishes, FmuTypeOK, LinkTypeOK
<1>9. CASE CompletedLost
  BY <1>1, <1>9, Untouched DEF CompletedLost, LinkTypeOK
<1>10. ASSUME NEW r \in Reqs, FmuAccepts(r) PROVE TypeOK'
  <2>1. CallTypeOK' /\ req[r] \in Request
    BY <1>10, FrameType DEF FmuAccepts, Sending, Running, CallTypeOK
  <2>2. FmuTypeOK' /\ LinkTypeOK'
    BY <1>10, <2>1 DEF FmuAccepts, FmuTypeOK, LinkTypeOK, linkVars, Status, Request
  <2> QED
    BY <1>10, <2>1, <2>2, Untouched DEF FmuAccepts
<1>11. ASSUME NEW r \in Reqs, FmuRejects(r) PROVE TypeOK'
  <2>1. CallTypeOK'
    BY <1>11, FrameType DEF FmuRejects, Sending, Running, CallTypeOK
  <2> QED
    BY <1>11, <2>1, Untouched DEF FmuRejects
<1> QED
  BY <1>3, <1>4, <1>5, <1>6, <1>7, <1>8, <1>9, <1>10, <1>11 DEF Fmu

LEMMA OwnedModeType ==
  ASSUME TypeOK, NEW result \in ModeResults, OwnedModeCompletes(result)
  PROVE  TypeOK'
<1> USE DEF TypeOK
<1>1. ModeTypeOK' /\ LinkTypeOK'
  BY ExecutorAssumption DEF OwnedModeCompletes, ModeTypeOK, LinkTypeOK, Completed
<1> QED
  BY <1>1, Untouched DEF OwnedModeCompletes

LEMMA NextTypeOK == TypeOK /\ [Next]_vars => TypeOK'
<1>1. ASSUME TypeOK, Next PROVE TypeOK'
  BY <1>1, ApiCallType, UserType, SendReturnsType, CallReturnsType, CompletedType,
     StatusHandlerType, FmuType, OwnedModeType DEF Next, Library
<1>2. ASSUME TypeOK, UNCHANGED vars PROVE TypeOK'
  BY <1>2, Untouched DEF TypeOK, vars
<1> QED
  BY <1>1, <1>2

\* Type correctness: every variable of the executor, its calls, its owned mode
\* and its environment keeps its type, in every behaviour.
THEOREM TypeCorrect == Spec => []TypeOK
  BY InitTypeOK, NextTypeOK, PTL DEF Spec

-----------------------------------------------------------------------------
(* At most one answer, whatever the user's code does.                      *)

LEMMA TypeFacts ==
  ASSUME TypeOK
  PROVE  /\ issued \in Nat /\ issued <= MaxReqs /\ MaxReqs \in Nat
         /\ scheduled \in Reqs \cup {NoReq} /\ waiting \in Reqs \cup {NoReq}
         /\ answers \in [Reqs -> Seq(Results)]
         /\ pc \in [Reqs -> {"none", "send", "accepted", "rejected", "ret"}]
         /\ Reqs \subseteq Nat /\ NoReq \notin Reqs
  BY ExecutorAssumption DEF TypeOK, SlotTypeOK, CallTypeOK, Reqs, NoReq

LEMMA FirstAnswer ==
  ASSUME TypeOK, NEW r \in Reqs, NEW result, CallBack(r, result), answers[r] = <<>>
  PROVE  /\ answers'[r] = <<result>> /\ answers'[r] # <<>> /\ Len(answers'[r]) <= 1
         /\ \A q \in Reqs : q # r => answers'[q] = answers[q]
<1>1. answers'[r] = <<result>> /\ \A q \in Reqs : q # r => answers'[q] = answers[q]
  BY TypeFacts DEF CallBack
<1> QED
  BY <1>1

\* Steps that move no callback.
Quiet ==
  /\ UNCHANGED <<slotVars, req, issued, answers>>
  /\ \A r \in Reqs : (pc'[r] = "none") = (pc[r] = "none")
  /\ \A r \in Reqs : InSend(r)' = InSend(r)

LEMMA QuietInv == ASSUME Inv1, Quiet PROVE OneHolder' /\ AtMostOneAnswer'
  BY DEF Quiet, Inv1, OneHolder, AtMostOneAnswer, slotVars, InSend

\* Steps that empty a slot and call what was stored there.
Emptied(r) ==
  /\ r \in {scheduled, waiting} \cap Reqs
  /\ scheduled' = (IF r = scheduled THEN NoReq ELSE scheduled)
  /\ waiting' = (IF r = waiting THEN NoReq ELSE waiting)
  /\ UNCHANGED <<req, issued, pc>>
  /\ \E result \in Results : CallBack(r, result)

LEMMA EmptiedInv ==
  ASSUME Inv1, NEW r, Emptied(r)
  PROVE  OneHolder' /\ AtMostOneAnswer'
<1> r \in Reqs /\ answers[r] = <<>>
  BY DEF Emptied, Inv1, OneHolder
<1>1. /\ answers'[r] # <<>> /\ Len(answers'[r]) <= 1
      /\ \A q \in Reqs : q # r => answers'[q] = answers[q]
  BY FirstAnswer DEF Emptied, Inv1
<1>2. r <= issued /\ ~InSend(r)
  BY TypeFacts DEF Emptied, Inv1, OneHolder
<1>3. AtMostOneAnswer'
  <2> SUFFICES ASSUME NEW q \in Reqs PROVE Len(answers'[q]) <= 1
    BY DEF AtMostOneAnswer
  <2>1. CASE q = r
    BY <1>1, <2>1
  <2>2. CASE q # r
    BY <1>1, <2>2 DEF Inv1, AtMostOneAnswer
  <2> QED
    BY <2>1, <2>2
<1> QED
  BY <1>1, <1>2, <1>3, TypeFacts DEF Emptied, Inv1, OneHolder, InSend

LEMMA SendReturnsInv1 ==
  ASSUME Inv1, NEW r \in Reqs, NEW result \in Results, SendReturns(r, result)
  PROVE  OneHolder' /\ AtMostOneAnswer'
<1>1. /\ InSend(r) /\ answers[r] = <<>> /\ r # scheduled /\ r # waiting
      /\ r <= issued /\ issued' = issued
  BY TypeFacts DEF SendReturns, Running, InSend, Inv1, OneHolder
<1>2. CASE result # "Success"
  <2>1. /\ answers'[r] # <<>> /\ Len(answers'[r]) <= 1
        /\ \A q \in Reqs : q # r => answers'[q] = answers[q]
    BY <1>1, <1>2, FirstAnswer DEF SendReturns, Inv1
  <2>2. /\ UNCHANGED slotVars /\ pc'[r] = "ret"
        /\ \A q \in Reqs : q # r => pc'[q] = pc[q]
    BY <1>2, TypeFacts DEF SendReturns, Inv1
  <2>3. AtMostOneAnswer'
    <3> SUFFICES ASSUME NEW q \in Reqs PROVE Len(answers'[q]) <= 1
      BY DEF AtMostOneAnswer
    <3>1. CASE q = r
      BY <2>1, <3>1
    <3>2. CASE q # r
      BY <2>1, <3>2 DEF Inv1, AtMostOneAnswer
    <3> QED
      BY <3>1, <3>2
  <2>4. OneHolder'
    BY <1>1, <2>1, <2>2, TypeFacts DEF Inv1, OneHolder, InSend, slotVars
  <2> QED
    BY <2>3, <2>4
<1>3. CASE result = "Success"
  <2>1. /\ answers' = answers /\ pc'[r] = "none"
        /\ \A q \in Reqs : q # r => pc'[q] = pc[q]
        /\ \/ scheduled' = r /\ waiting' = waiting
           \/ waiting' = r /\ scheduled' = scheduled
    BY <1>3, TypeFacts DEF SendReturns, Inv1
  <2> QED
    BY <1>1, <2>1, TypeFacts DEF Inv1, OneHolder, AtMostOneAnswer, InSend
<1> QED
  BY <1>2, <1>3

\* The request an API call makes is new: nothing holds it yet.
LEMMA NewRequest ==
  ASSUME Inv1, NEW call \in Calls, Issue(call)
  PROVE  /\ issued + 1 \in Reqs /\ issued' = issued + 1
         /\ answers[issued + 1] = <<>> /\ pc[issued + 1] = "none"
         /\ issued + 1 # scheduled /\ issued + 1 # waiting
<1>1. issued + 1 \in Reqs /\ issued' = issued + 1
  BY IssueType DEF Inv1, TypeOK, Issue
<1> QED
  BY <1>1, TypeFacts DEF Inv1, OneHolder

LEMMA ApiCallInv1 == ASSUME Inv1, ApiCall PROVE OneHolder' /\ AtMostOneAnswer'
<1> PICK call \in Calls : ScheduleMode(call) \/ SetArmed(call) \/ WaitFor(call)
  BY DEF ApiCall
<1> DEFINE n == issued + 1
<1>0. Issue(call)
  BY DEF ScheduleMode, SetArmed, WaitFor
<1>1. /\ n \in Reqs /\ issued' = n /\ answers[n] = <<>> /\ pc[n] = "none"
      /\ n # scheduled /\ n # waiting
  BY <1>0, NewRequest
<1>2. CASE \E result : AnswerAtOnce(result)
  <2>1. /\ Len(answers'[n]) <= 1
        /\ \A q \in Reqs : q # n => answers'[q] = answers[q]
    BY <1>1, <1>2, FirstAnswer DEF AnswerAtOnce, Inv1
  <2>2. /\ UNCHANGED slotVars /\ pc'[n] = "ret"
        /\ \A q \in Reqs : q # n => pc'[q] = pc[q]
    BY <1>1, <1>2, TypeFacts DEF AnswerAtOnce, Inv1
  <2>3. AtMostOneAnswer'
    BY <2>1 DEF Inv1, AtMostOneAnswer
  <2>4. OneHolder'
    BY <1>1, <2>1, <2>2, TypeFacts DEF Inv1, OneHolder, InSend, slotVars
  <2> QED
    BY <2>3, <2>4
<1>3. CASE ScheduleMode(call) /\ ~AnswerAtOnce("Rejected")
  <2>1. /\ pc'[n] = "send" /\ \A q \in Reqs : q # n => pc'[q] = pc[q]
        /\ scheduled' = NoReq /\ waiting' = waiting
    BY <1>1, <1>3, TypeFacts DEF ScheduleMode, Inv1
  <2>2. CASE scheduled # NoReq
    <3>1. scheduled \in Reqs /\ answers[scheduled] = <<>>
      BY <2>2, TypeFacts DEF Inv1, OneHolder
    <3>2. /\ Len(answers'[scheduled]) <= 1
          /\ \A q \in Reqs : q # scheduled => answers'[q] = answers[q]
      BY <1>3, <2>2, <3>1, FirstAnswer DEF ScheduleMode, Inv1
    <3>3. AtMostOneAnswer'
      BY <3>2 DEF Inv1, AtMostOneAnswer
    <3>4. scheduled <= issued /\ ~InSend(scheduled)
      BY <3>1, TypeFacts DEF Inv1, OneHolder
    <3>5. OneHolder'
      BY <1>1, <2>1, <3>1, <3>2, <3>4, TypeFacts DEF Inv1, OneHolder, InSend
    <3> QED
      BY <3>3, <3>5
  <2>3. CASE scheduled = NoReq
    <3>1. answers' = answers
      BY <1>3, <2>3 DEF ScheduleMode
    <3> QED
      BY <1>1, <2>1, <3>1, TypeFacts DEF Inv1, OneHolder, AtMostOneAnswer, InSend
  <2> QED
    BY <2>2, <2>3
<1>4. CASE SetArmed(call) /\ ~AnswerAtOnce("Success")
  <2>1. /\ pc'[n] = "send" /\ \A q \in Reqs : q # n => pc'[q] = pc[q]
        /\ UNCHANGED <<slotVars, answers>>
    BY <1>1, <1>4, TypeFacts DEF SetArmed, Inv1
  <2> QED
    BY <1>1, <2>1, TypeFacts DEF Inv1, OneHolder, AtMostOneAnswer, InSend, slotVars
<1>5. CASE WaitFor(call) /\ ~AnswerAtOnce("Success")
  <2>1. waiting' = n /\ UNCHANGED <<scheduled, pc, answers>>
    BY <1>5 DEF WaitFor
  <2> QED
    BY <1>1, <2>1, TypeFacts DEF Inv1, OneHolder, AtMostOneAnswer, InSend
<1> QED
  BY <1>2, <1>3, <1>4, <1>5

\* What the other steps do to the callbacks.
LEMMA OtherSteps ==
  ASSUME Inv1,
         \/ StatusHandler \/ CompletedDelivered \/ (\E r \in Reqs : CallReturns(r))
         \/ UserReturns \/ TimerFires \/ Fmu
         \/ \E result \in ModeResults : OwnedModeCompletes(result)
  PROVE  \/ Quiet
         \/ \E r : Emptied(r)
         \/ \E r \in Reqs : CallReturns(r)
<1>0. TypeOK /\ (scheduled = waiting => scheduled = NoReq)
  BY DEF Inv1, OneHolder
<1>1. ASSUME UNCHANGED <<slotVars, req, issued, pc, answers>> PROVE Quiet
  BY <1>1 DEF Quiet, InSend
<1>2. CASE StatusHandler
  <2>1. CASE CancelScheduled
    <3>1. CASE scheduled = NoReq
      BY <1>1, <2>1, <3>1 DEF CancelScheduled, slotVars
    <3>2. CASE scheduled # NoReq
      BY <1>0, <1>1, <2>1, <3>2, TypeFacts DEF CancelScheduled, Emptied, slotVars, Results
    <3> QED
      BY <3>1, <3>2
  <2>2. CASE CancelWait
    <3>1. CASE waiting = NoReq
      BY <1>1, <2>2, <3>1 DEF CancelWait, slotVars
    <3>2. CASE waiting # NoReq
      BY <1>0, <1>1, <2>2, <3>2, TypeFacts DEF CancelWait, Emptied, slotVars, Results
    <3> QED
      BY <3>1, <3>2
  <2>3. CASE UpdateWait
    <3>1. CASE waiting = NoReq
      BY <1>1, <2>3, <3>1 DEF UpdateWait, slotVars
    <3>2. CASE waiting # NoReq
      BY <1>0, <1>1, <2>3, <3>2, TypeFacts DEF UpdateWait, Emptied, slotVars, Results
    <3> QED
      BY <3>1, <3>2
  <2> QED
    BY <1>1, <1>2, <2>1, <2>2, <2>3
    DEF StatusHandler, StatusDelivered, Deactivated, CheckReactivate, ActivateAgain,
        FailsafeDeferred, UpdateMode, CallbackEnds, callVars
<1>3. CASE CompletedDelivered
  <2>1. completedMsg.result \in Results
    BY <1>0, <1>3, ExecutorAssumption
    DEF CompletedDelivered, TypeOK, LinkTypeOK, Completed, Results
  <2> QED
    BY <1>0, <1>1, <1>3, <2>1, TypeFacts DEF CompletedDelivered, Emptied, slotVars
<1>4. CASE UserReturns \/ TimerFires \/ \E result \in ModeResults : OwnedModeCompletes(result)
  BY <1>1, <1>4 DEF UserReturns, TimerFires, OwnedModeCompletes, callVars
<1>5. CASE Fmu
  <2>1. ASSUME NEW r \in Reqs, FmuAccepts(r) \/ FmuRejects(r) PROVE Quiet
    BY <1>0, <2>1, TypeFacts
    DEF FmuAccepts, FmuRejects, Sending, Running, Quiet, InSend
  <2>2. ASSUME Environment PROVE Quiet
    BY <1>1, <2>2 DEF Environment, callVars
  <2> QED
    BY <1>5, <2>1, <2>2
    DEF Fmu, FmuSwitches, FmuArms, FmuGetsReady, FmuDefers, FmuCompletes,
        FmuPublishes, CompletedLost, Spontaneous
<1> QED
  BY <1>2, <1>3, <1>4, <1>5

LEMMA CallReturnsInv1 ==
  ASSUME Inv1, NEW r \in Reqs, CallReturns(r)
  PROVE  OneHolder' /\ AtMostOneAnswer'
<1>1. /\ pc[r] = "ret" /\ pc'[r] = "none" /\ \A q \in Reqs : q # r => pc'[q] = pc[q]
      /\ UNCHANGED <<slotVars, issued, answers>>
  BY TypeFacts DEF CallReturns, Inv1
<1> QED
  BY <1>1, TypeFacts DEF Inv1, OneHolder, AtMostOneAnswer, InSend, slotVars

LEMMA NextInv1 == Inv1 /\ [Next]_vars => Inv1'
<1> SUFFICES ASSUME Inv1, [Next]_vars PROVE OneHolder' /\ AtMostOneAnswer'
  BY NextTypeOK DEF Inv1
<1>1. CASE ApiCall
  BY <1>1, ApiCallInv1
<1>2. ASSUME NEW r \in Reqs, NEW result \in Results, SendReturns(r, result)
      PROVE  OneHolder' /\ AtMostOneAnswer'
  BY <1>2, SendReturnsInv1
<1>3. CASE UNCHANGED vars
  <2>1. Quiet
    BY <1>3 DEF vars, callVars, Quiet, InSend
  <2> QED
    BY <2>1, QuietInv
<1>4. CASE Next /\ ~ApiCall /\ ~(\E r \in Reqs, result \in Results : SendReturns(r, result))
  <2>1. Quiet \/ (\E r : Emptied(r)) \/ (\E r \in Reqs : CallReturns(r))
    BY <1>4, OtherSteps DEF Next, Library
  <2> QED
    BY <2>1, QuietInv, EmptiedInv, CallReturnsInv1
<1> QED
  BY <1>1, <1>2, <1>3, <1>4

LEMMA InitInv1 == Init => Inv1
<1> SUFFICES ASSUME Init PROVE Inv1
  OBVIOUS
<1>1. TypeOK
  BY InitTypeOK
<1>2. OneHolder
  BY <1>1, TypeFacts DEF Init, OneHolder, InSend
<1>3. AtMostOneAnswer
  BY DEF Init, AtMostOneAnswer
<1> QED
  BY <1>1, <1>2, <1>3 DEF Inv1

\* A completion callback is called at most once (mode_executor.cpp moves it out
\* of its slot before calling it), even when user code makes new requests from
\* inside its callbacks and overwrites a slot.
THEOREM AnsweredAtMostOnce == Spec => []AtMostOneAnswer
<1>1. Inv1 => AtMostOneAnswer
  BY DEF Inv1
<1> QED
  BY <1>1, InitInv1, NextInv1, PTL DEF Spec

-----------------------------------------------------------------------------
(* No request is lost, if the user's code is disciplined.                  *)

LEMMA OneSender ==
  ASSUME Inv2, NEW r \in Reqs, InSend(r)
  PROVE  /\ turn = "lib" /\ ~NoFrame /\ \A q \in Reqs : InSend(q) => q = r
         /\ \A q \in Reqs : pc[q] = "ret" => ~Running(q)
<1>1. \A q \in Reqs : (q > r => pc[q] = "none") /\ (r > q \/ q > r \/ q = r)
  BY TypeFacts DEF Inv2, Inv1, FreeSlot
<1> QED
  BY <1>1 DEF Inv2, FreeSlot, InSend, NoFrame, Running

\* While a call blocks in sendCommandSync, only it and the FMU move.
LEMMA OnlyFmuMoves ==
  ASSUME Inv2, NEW r \in Reqs, InSend(r),
         \/ StatusHandler \/ CompletedDelivered \/ (\E q \in Reqs : CallReturns(q))
         \/ UserReturns \/ TimerFires \/ Fmu
         \/ \E result \in ModeResults : OwnedModeCompletes(result)
  PROVE  Fmu
<1> USE OneSender DEF Handler
<1>1. ~StatusHandler
  BY DEF StatusHandler, StatusDelivered, CancelScheduled, CancelWait, Deactivated,
         CheckReactivate, ActivateAgain, FailsafeDeferred, UpdateMode, UpdateWait,
         CallbackEnds
<1>2. ~CompletedDelivered /\ ~UserReturns /\ ~TimerFires
  BY DEF CompletedDelivered, UserReturns, TimerFires
<1>3. \A q \in Reqs : ~CallReturns(q)
  BY DEF CallReturns
<1>4. \A result \in ModeResults : ~OwnedModeCompletes(result)
  BY DEF OwnedModeCompletes
<1> QED
  BY <1>1, <1>2, <1>3, <1>4

LEMMA FmuKeepsTurn == ASSUME Fmu PROVE turn' = turn
  BY DEF Fmu, FmuSwitches, FmuArms, FmuGetsReady, FmuDefers, FmuCompletes,
         FmuPublishes, CompletedLost, FmuAccepts, FmuRejects, Spontaneous,
         Environment, callVars

LEMMA FmuSlots == ASSUME Fmu PROVE UNCHANGED slotVars
  BY DEF Fmu, FmuSwitches, FmuArms, FmuGetsReady, FmuDefers, FmuCompletes,
         FmuPublishes, CompletedLost, FmuAccepts, FmuRejects, Spontaneous,
         Environment

LEMMA OtherStepsInv2 ==
  ASSUME Inv2, Inv1',
         \/ StatusHandler \/ CompletedDelivered \/ (\E r \in Reqs : CallReturns(r))
         \/ UserReturns \/ TimerFires \/ Fmu
         \/ \E result \in ModeResults : OwnedModeCompletes(result)
  PROVE  FreeSlot' /\ NoLostRequest'
<1>0. Inv1 /\ TypeOK
  BY DEF Inv2, Inv1
<1>1. CASE Quiet
  <2>1. ASSUME NEW r \in Reqs, InSend(r) PROVE turn' = turn
    BY <2>1, OnlyFmuMoves, FmuKeepsTurn
  <2>2. FreeSlot'
    BY <1>1, <2>1 DEF Quiet, Inv2, FreeSlot, slotVars
  <2>3. NoLostRequest'
    BY <1>0, <1>1, TypeFacts DEF Quiet, Inv2, NoLostRequest, slotVars, Reqs
  <2> QED
    BY <2>2, <2>3
<1>2. ASSUME NEW r, Emptied(r) PROVE FreeSlot' /\ NoLostRequest'
  <2>1. /\ r \in Reqs /\ answers'[r] # <<>>
        /\ \A q \in Reqs : q # r => answers'[q] = answers[q]
    BY <1>0, <1>2, FirstAnswer DEF Emptied, Inv1, OneHolder
  <2>2. ASSUME NEW q \in Reqs, InSend(q) PROVE FALSE
    BY <1>0, <1>2, <2>2, OnlyFmuMoves, FmuSlots, TypeFacts DEF Emptied, slotVars
  <2> QED
    BY <1>0, <1>2, <2>1, <2>2, TypeFacts
    DEF Emptied, Inv2, FreeSlot, NoLostRequest, InSend, Reqs
<1>3. ASSUME NEW r \in Reqs, CallReturns(r) PROVE FreeSlot' /\ NoLostRequest'
  <2>1. /\ pc[r] = "ret" /\ pc'[r] = "none" /\ \A q \in Reqs : q # r => pc'[q] = pc[q]
        /\ UNCHANGED <<slotVars, issued, answers>>
    BY <1>0, <1>3, TypeFacts DEF CallReturns
  <2>2. ASSUME NEW q \in Reqs, InSend(q) PROVE FALSE
    BY <1>3, <2>2, OneSender DEF CallReturns
  <2>3. FreeSlot'
    BY <2>1, <2>2 DEF FreeSlot, InSend
  <2>4. NoLostRequest'
    <3> SUFFICES ASSUME NEW q \in 1 .. issued, answers[q] = <<>>
                 PROVE  (q \in {scheduled, waiting} \/ InSend(q))'
      BY <2>1 DEF NoLostRequest
    <3>1. q \in Reqs
      BY <1>0, TypeFacts DEF Reqs
    <3> QED
      BY <2>1, <3>1 DEF Inv2, NoLostRequest, InSend, slotVars
  <2> QED
    BY <2>3, <2>4
<1> QED
  BY <1>0, <1>1, <1>2, <1>3, OtherSteps

LEMMA SendReturnsInv2 ==
  ASSUME Inv2, Inv1', NEW r \in Reqs, NEW result \in Results, SendReturns(r, result)
  PROVE  FreeSlot' /\ NoLostRequest'
<1>0. Inv1 /\ TypeOK
  BY DEF Inv2, Inv1
<1>1. InSend(r) /\ \A q \in Reqs : InSend(q) => q = r
  BY <1>0, OneSender, TypeFacts DEF SendReturns, Running, InSend
<1>2. /\ pc'[r] \in {"none", "ret"} /\ \A q \in Reqs : q # r => pc'[q] = pc[q]
      /\ issued' = issued
  BY <1>0, TypeFacts DEF SendReturns
<1>3. FreeSlot'
  BY <1>1, <1>2 DEF FreeSlot, InSend
<1>4. NoLostRequest'
  <2> SUFFICES ASSUME NEW q \in 1 .. issued, answers'[q] = <<>>
               PROVE  q \in {scheduled', waiting'}
    BY <1>2 DEF NoLostRequest
  <2>1. q \in Reqs
    BY <1>0, TypeFacts DEF Reqs
  <2>2. CASE result # "Success"
    <3>1. /\ answers'[r] # <<>> /\ UNCHANGED slotVars
          /\ \A x \in Reqs : x # r => answers'[x] = answers[x]
      BY <1>0, <1>1, <2>2, FirstAnswer DEF SendReturns, Inv1, OneHolder
    <3> QED
      BY <1>1, <2>1, <3>1 DEF Inv2, NoLostRequest, slotVars
  <2>3. CASE result = "Success"
    <3>1. /\ answers' = answers
          /\ IF req[r].kind = "schedule" THEN scheduled' = r /\ waiting' = waiting
                                         ELSE waiting' = r /\ scheduled' = scheduled
      BY <2>3 DEF SendReturns
    <3>2. IF req[r].kind = "schedule" THEN scheduled = NoReq ELSE waiting = NoReq
      BY <1>1 DEF Inv2, FreeSlot
    <3>3. q # NoReq
      BY <1>0, <2>1, TypeFacts
    <3> QED
      BY <1>1, <2>1, <3>1, <3>2, <3>3 DEF Inv2, NoLostRequest
  <2> QED
    BY <2>2, <2>3
<1> QED
  BY <1>3, <1>4

LEMMA ApiCallInv2 ==
  ASSUME Disciplined, Inv2, Inv1', ApiCall
  PROVE  FreeSlot' /\ NoLostRequest'
<1> PICK call \in Calls : ScheduleMode(call) \/ SetArmed(call) \/ WaitFor(call)
  BY DEF ApiCall
<1> DEFINE n == issued + 1
<1>0. Inv1 /\ TypeOK /\ Issue(call)
  BY DEF Inv2, Inv1, ScheduleMode, SetArmed, WaitFor
<1>1. /\ n \in Reqs /\ issued' = n /\ answers[n] = <<>> /\ pc[n] = "none"
      /\ n # scheduled /\ n # waiting
  BY <1>0, NewRequest
<1>2. /\ \A q \in Reqs : ~InSend(q)
      /\ \A q \in Reqs : q > n => pc[q] = "none"
      /\ req'[n] = call
  <2>1. \A q \in Reqs : ~InSend(q)
    BY <1>0, OneSender DEF Issue
  <2>2. \A q \in Reqs : q > n => pc[q] = "none"
    BY <1>0, <1>1, TypeFacts DEF Inv1, OneHolder
  <2>3. req' = [req EXCEPT ![n] = call] /\ n \in DOMAIN req
    BY <1>0, <1>1 DEF Issue, TypeOK, CallTypeOK
  <2>4. req'[n] = call
    BY <2>3
  <2> QED
    BY <2>1, <2>2, <2>4
<1>range. \A q \in 1 .. issued' : q \in Reqs /\ q <= n
  <2>1. issued' \in 1 .. MaxReqs /\ MaxReqs \in Nat /\ issued' = n
    BY <1>0, <1>1, TypeFacts DEF Reqs
  <2> HIDE DEF n
  <2> QED
    BY ONLY <2>1 DEF Reqs
<1>3. SUFFICES ASSUME TRUE
      PROVE  /\ FreeSlot'
             /\ \A q \in Reqs : q <= n /\ answers'[q] = <<>> =>
                  q \in {scheduled', waiting'} \/ InSend(q)'
  BY <1>range, Zenon DEF NoLostRequest
<1>4. \A q \in Reqs : q <= n => q = n \/ (q <= issued /\ q \in 1 .. issued /\ q # n)
  BY <1>0, TypeFacts DEF Reqs
<1>5. \A q \in Reqs : q <= n /\ q # n /\ answers[q] = <<>> => q \in {scheduled, waiting}
  BY <1>2, <1>4 DEF Inv2, NoLostRequest
<1>6. CASE \E result : AnswerAtOnce(result)
  <2>1. /\ answers'[n] # <<>>
        /\ \A q \in Reqs : q # n => answers'[q] = answers[q]
    BY <1>0, <1>1, <1>6, FirstAnswer DEF AnswerAtOnce
  <2>2. /\ UNCHANGED slotVars /\ pc'[n] = "ret"
        /\ \A q \in Reqs : q # n => pc'[q] = pc[q]
    BY <1>0, <1>1, <1>6, TypeFacts DEF AnswerAtOnce
  <2> QED
    BY <1>2, <1>5, <2>1, <2>2 DEF FreeSlot, InSend, slotVars
<1>7. CASE ScheduleMode(call) /\ ~AnswerAtOnce("Rejected")
  <2>1. /\ pc'[n] = "send" /\ \A q \in Reqs : q # n => pc'[q] = pc[q]
        /\ scheduled' = NoReq /\ waiting' = waiting
    BY <1>0, <1>1, <1>7, TypeFacts DEF ScheduleMode
  <2>2. turn' = "lib"
    BY <1>7 DEF ScheduleMode, CallBack, Hook, Disciplined
  <2>3. FreeSlot'
    <3>1. req'[n].kind = "schedule"
      BY <1>2, <1>7 DEF ScheduleMode
    <3>2. \A q \in Reqs : InSend(q)' => q = n
      BY <1>2, <2>1 DEF InSend
    <3>3. \A q \in Reqs : q > n => pc'[q] = "none"
      BY <1>1, <1>2, <2>1, TypeFacts, <1>0
    <3> QED
      BY <1>1, <2>1, <2>2, <3>1, <3>2, <3>3 DEF FreeSlot
  <2>4. \A q \in Reqs : answers'[q] = <<>> => q # scheduled
    <3>1. CASE scheduled \in Reqs
      BY <1>0, <1>7, <3>1, FirstAnswer, TypeFacts DEF ScheduleMode, Inv1, OneHolder
    <3> QED
      BY <3>1
  <2>5. \A q \in Reqs : answers'[q] = <<>> => answers[q] = <<>>
    <3>1. CASE scheduled \in Reqs
      BY <1>0, <1>7, <3>1, FirstAnswer, TypeFacts DEF ScheduleMode, Inv1, OneHolder
    <3>2. CASE scheduled = NoReq
      BY <1>7, <3>2 DEF ScheduleMode
    <3> QED
      BY <1>0, <3>1, <3>2, TypeFacts
  <2> QED
    BY <1>5, <2>1, <2>3, <2>4, <2>5 DEF InSend
<1>8. CASE SetArmed(call) /\ ~AnswerAtOnce("Success")
  <2>1. /\ pc'[n] = "send" /\ \A q \in Reqs : q # n => pc'[q] = pc[q]
        /\ UNCHANGED <<slotVars, answers>> /\ turn' = "lib"
        /\ waiting = NoReq /\ call.kind # "schedule"
    BY <1>0, <1>1, <1>8, TypeFacts DEF SetArmed, Disciplined
  <2> QED
    BY <1>1, <1>2, <1>5, <2>1 DEF FreeSlot, InSend, slotVars
<1>9. CASE WaitFor(call) /\ ~AnswerAtOnce("Success")
  <2>1. waiting' = n /\ UNCHANGED <<scheduled, pc, answers>> /\ waiting = NoReq
    BY <1>9 DEF WaitFor, Disciplined
  <2>2. NoReq \notin Reqs
    BY <1>0, TypeFacts
  <2> QED
    BY <1>1, <1>2, <1>5, <2>1, <2>2 DEF FreeSlot, InSend
<1> QED
  BY <1>6, <1>7, <1>8, <1>9

LEMMA NextInv2 == Disciplined => (Inv2 /\ [Next]_vars => Inv2')
<1> SUFFICES ASSUME Disciplined, Inv2, [Next]_vars PROVE Inv2'
  OBVIOUS
<1>0. Inv1'
  BY NextInv1 DEF Inv2
<1>1. CASE ApiCall
  BY <1>0, <1>1, ApiCallInv2 DEF Inv2
<1>2. ASSUME NEW r \in Reqs, NEW result \in Results, SendReturns(r, result)
      PROVE  Inv2'
  BY <1>0, <1>2, SendReturnsInv2 DEF Inv2
<1>3. CASE UNCHANGED vars
  BY <1>0, <1>3
  DEF vars, callVars, slotVars, Inv2, FreeSlot, NoLostRequest, InSend
<1>4. CASE Next /\ ~ApiCall /\ ~(\E r \in Reqs, result \in Results : SendReturns(r, result))
  BY <1>0, <1>4, OtherStepsInv2 DEF Next, Library, Inv2
<1> QED
  BY <1>1, <1>2, <1>3, <1>4

LEMMA InitInv2 == Init => Inv2
<1> SUFFICES ASSUME Init PROVE Inv2
  OBVIOUS
<1>1. Inv1
  BY InitInv1
<1> QED
  BY <1>1 DEF Init, Inv2, FreeSlot, NoLostRequest, InSend

\* Every request of a disciplined user stays held by a slot or by the call that
\* is sending its command until its callback is called: scheduleMode(), arm(),
\* disarm() and the waits never drop a callback.
THEOREM RequestsAreNotLost == Disciplined => (Spec => []NoLostRequest)
<1> SUFFICES ASSUME Disciplined PROVE Spec => []NoLostRequest
  OBVIOUS
<1>1. Inv2 => NoLostRequest
  BY DEF Inv2
<1>2. Inv2 /\ [Next]_vars => Inv2'
  BY NextInv2
<1> QED
  BY <1>1, <1>2, InitInv2, PTL DEF Spec

\* A slot is never reused while it holds a callback that was not called, which
\* is what the assertions in ScheduledMode::activate and
\* WaitForVehicleStatusCondition::activate demand.
THEOREM SlotsAreEmptiedByCalling == Disciplined => (Spec => StoredCallbackIsCalled)
<1> SUFFICES ASSUME Disciplined PROVE Spec => StoredCallbackIsCalled
  OBVIOUS
<1> DEFINE Called == \A r \in Reqs :
             \/ r = scheduled /\ scheduled' # r
             \/ r = waiting /\ waiting' # r
             => answers'[r] # answers[r]
<1>1. Inv2 /\ [Next]_vars => Inv2'
  BY NextInv2
<1>2. ASSUME Inv2, [Next]_vars PROVE Called
  <2>0. /\ Inv1 /\ TypeOK /\ NoReq \notin Reqs
        /\ \A r \in Reqs : r \in {scheduled, waiting} => answers[r] = <<>>
    BY <1>2, TypeFacts DEF Inv2, Inv1, OneHolder
  <2>1. CASE UNCHANGED slotVars
    BY <2>1 DEF slotVars
  <2>2. ASSUME NEW r, Emptied(r) PROVE Called
    <3>1. r \in Reqs /\ answers[r] = <<>> /\ answers'[r] # <<>>
      BY <2>0, <2>2, FirstAnswer DEF Emptied
    <3> QED
      BY <2>2, <3>1 DEF Emptied
  <2>3. ASSUME NEW r \in Reqs, NEW result \in Results, SendReturns(r, result)
        PROVE  Called
    <3>1. IF req[r].kind = "schedule" THEN scheduled = NoReq ELSE waiting = NoReq
      BY <1>2, <2>0, <2>3, TypeFacts DEF SendReturns, Running, InSend, Inv2, FreeSlot
    <3> QED
      BY <2>0, <2>3, <3>1 DEF SendReturns, slotVars
  <2>4. CASE ApiCall
    <3> PICK call \in Calls : ScheduleMode(call) \/ SetArmed(call) \/ WaitFor(call)
      BY <2>4 DEF ApiCall
    <3>1. CASE ScheduleMode(call) /\ scheduled \in Reqs /\ scheduled' # scheduled
      <4>1. CallBack(scheduled, "Deactivated") /\ waiting' = waiting
        BY <2>0, <3>1 DEF ScheduleMode, AnswerAtOnce, slotVars
      <4>2. answers[scheduled] = <<>> /\ answers'[scheduled] # <<>>
        BY <2>0, <3>1, <4>1, FirstAnswer
      <4> QED
        BY <4>1, <4>2
    <3>2. CASE ScheduleMode(call) /\ ~(scheduled \in Reqs /\ scheduled' # scheduled)
      BY <2>0, <3>2 DEF ScheduleMode, AnswerAtOnce, slotVars
    <3>3. CASE SetArmed(call)
      BY <3>3 DEF SetArmed, AnswerAtOnce, slotVars
    <3>4. CASE WaitFor(call)
      BY <2>0, <3>4 DEF WaitFor, AnswerAtOnce, slotVars, Disciplined
    <3> QED
      BY <3>1, <3>2, <3>3, <3>4
  <2>5. CASE UNCHANGED vars
    BY <2>1, <2>5 DEF vars
  <2>6. CASE Next /\ ~ApiCall /\ ~(\E r \in Reqs, result \in Results : SendReturns(r, result))
    <3>1. Quiet \/ (\E r : Emptied(r)) \/ (\E r \in Reqs : CallReturns(r))
      BY <2>0, <2>6, OtherSteps DEF Next, Library
    <3> QED
      BY <2>1, <2>2, <3>1 DEF Quiet, CallReturns
  <2> QED
    BY <1>2, <2>3, <2>4, <2>5, <2>6
<1>3. Inv2 /\ [Next]_vars => [Called]_vars
  BY <1>2
<1> QED
  BY <1>1, <1>3, InitInv2, PTL DEF Spec, StoredCallbackIsCalled

-----------------------------------------------------------------------------
(* The executor's charge and its pending requests.                         *)

\* A user whose code makes requests only while the executor is in charge: not
\* from a timer, from onDeactivate(), from the methods of the owned mode or from a
\* callback that reports a cancellation.
RequestsInCharge == {"Deactivated", "onDeactivate", "ownedMode", "timer"} \cap IssueFrom = {}

\* A step of the FMU leaves the library alone, and a blocked call blocked.
LEMMA FmuLeaves ==
  ASSUME Fmu
  PROVE  /\ UNCHANGED <<execVars, slotVars, req, issued, turn, answers, handlerVars,
                        modeVars>>
         /\ pc' = pc \/ ~NoFrame
         /\ TypeOK => \A r \in Reqs : InSend(r)' = InSend(r)
<1>1. CASE Environment
  BY <1>1 DEF Environment, callVars, InSend
<1>2. ASSUME NEW r \in Reqs, FmuAccepts(r) \/ FmuRejects(r)
      PROVE  /\ UNCHANGED <<execVars, slotVars, req, issued, turn, answers, handlerVars,
                            modeVars>>
             /\ ~NoFrame
             /\ TypeOK => \A q \in Reqs : InSend(q)' = InSend(q)
  BY <1>2, TypeFacts DEF FmuAccepts, FmuRejects, Sending, Running, NoFrame, InSend
<1> QED
  BY <1>1, <1>2 DEF Fmu, FmuSwitches, FmuArms, FmuGetsReady, FmuDefers, FmuCompletes,
                    FmuPublishes, CompletedLost, Spontaneous

\* Whoever may make a request, and whatever is pending, finds the executor in
\* charge; while callOnDeactivate() runs nobody makes one, and it empties one
\* slot after the other.
ChargeInv ==
  /\ turn = "user" \/ ~NoFrame \/ scheduled # NoReq \/ waiting # NoReq => inCharge
  /\ hpc \in {"cancelScheduled", "cancelWait", "deactivated"} => turn = "lib" /\ NoFrame
  /\ hpc \in {"cancelWait", "deactivated"} => scheduled = NoReq
  /\ hpc = "deactivated" => waiting = NoReq

LEMMA StatusHandlerCharge ==
  ASSUME RequestsInCharge, ChargeInv, StatusHandler
  PROVE  ChargeInv'
<1> USE DEF ChargeInv, NoFrame, Handler, Hook
<1>1. CASE StatusDelivered
  BY <1>1 DEF StatusDelivered, slotVars
<1>2. CASE CancelScheduled
  BY <1>2 DEF CancelScheduled, CallBack, RequestsInCharge, execVars
<1>3. CASE CancelWait
  BY <1>3 DEF CancelWait, CallBack, RequestsInCharge, execVars
<1>4. CASE Deactivated
  BY <1>4 DEF Deactivated, RequestsInCharge, slotVars
<1>5. CASE CheckReactivate
  BY <1>5 DEF CheckReactivate, execVars, slotVars, callVars
<1>6. CASE ActivateAgain
  BY <1>6 DEF ActivateAgain, slotVars
<1>7. CASE FailsafeDeferred
  BY <1>7 DEF FailsafeDeferred, slotVars
<1>8. CASE UpdateMode
  BY <1>8 DEF UpdateMode, RequestsInCharge, slotVars
<1>9. CASE UpdateWait
  BY <1>9 DEF UpdateWait, CallBack, execVars
<1>10. CASE CallbackEnds
  BY <1>10 DEF CallbackEnds, execVars, slotVars, callVars
<1> QED
  BY <1>1, <1>2, <1>3, <1>4, <1>5, <1>6, <1>7, <1>8, <1>9, <1>10 DEF StatusHandler

LEMMA NextCharge == RequestsInCharge => (ChargeInv /\ [Next]_vars => ChargeInv')
<1> SUFFICES ASSUME RequestsInCharge, ChargeInv, [Next]_vars PROVE ChargeInv'
  OBVIOUS
<1>1. CASE StatusHandler
  BY <1>1, StatusHandlerCharge
<1>2. CASE CompletedDelivered
  BY <1>2 DEF CompletedDelivered, CallBack, Hook, ChargeInv, NoFrame, Handler, execVars
<1>3. ASSUME NEW r \in Reqs, CallReturns(r) \/ \E result \in Results : SendReturns(r, result)
      PROVE  ChargeInv'
  <2>1. ~NoFrame /\ inCharge' = inCharge /\ hpc' = hpc
    BY <1>3 DEF CallReturns, SendReturns, Running, NoFrame, execVars, handlerVars
  <2> QED
    BY <2>1 DEF ChargeInv
<1>4. CASE ApiCall
  <2>1. turn = "user" /\ inCharge' = inCharge /\ hpc' = hpc
    BY <1>4 DEF ApiCall, ScheduleMode, SetArmed, WaitFor, Issue, execVars, handlerVars
  <2> QED
    BY <2>1 DEF ChargeInv
<1>5. CASE UserReturns
  BY <1>5 DEF UserReturns, ChargeInv, NoFrame, execVars, slotVars, handlerVars
<1>6. CASE TimerFires
  BY <1>6 DEF TimerFires, RequestsInCharge
<1>7. ASSUME NEW result \in ModeResults, OwnedModeCompletes(result) PROVE ChargeInv'
  BY <1>7 DEF OwnedModeCompletes, ChargeInv, NoFrame, execVars, slotVars, callVars, handlerVars
<1>8. CASE Fmu
  <2>1. UNCHANGED <<inCharge, scheduled, waiting, turn, hpc>> /\ (pc' = pc \/ ~NoFrame)
    BY <1>8, FmuLeaves DEF execVars, slotVars, handlerVars
  <2> QED
    BY <2>1 DEF ChargeInv, NoFrame
<1>9. CASE UNCHANGED vars
  BY <1>9 DEF vars, ChargeInv, NoFrame, execVars, slotVars, callVars, handlerVars
<1> QED
  BY <1>1, <1>2, <1>3, <1>4, <1>5, <1>6, <1>7, <1>8, <1>9 DEF Next, Library

\* For a user whose code makes requests only while the executor is in charge,
\* none is left pending when it is not: callOnDeactivate() cancels both slots
\* before it gives up the charge.
THEOREM NothingPendingOutOfCharge == RequestsInCharge => (Spec => []PendingOnlyInCharge)
<1> SUFFICES ASSUME RequestsInCharge PROVE Spec => []PendingOnlyInCharge
  OBVIOUS
<1>1. Init => ChargeInv
  BY DEF Init, ChargeInv, NoFrame
<1>2. ChargeInv /\ [Next]_vars => ChargeInv'
  BY NextCharge
<1>3. ChargeInv => PendingOnlyInCharge
  BY DEF ChargeInv, PendingOnlyInCharge
<1> QED
  BY <1>1, <1>2, <1>3, PTL DEF Spec

-----------------------------------------------------------------------------
(* The owned mode follows the last status.                                 *)

\* Until the status being handled reaches the owned mode, the mode may still run
\* on the one before; from then on it agrees with it.
ModeInv ==
  /\ hpc \notin {"idle", "done"} => msg.armed = isArmed
  /\ hpc \in {"idle", "done", "wait"} /\ modeActive =>
       prevNav = OwnMode /\ (isArmed \/ ActivateWhileDisarmed)

LEMMA StatusHandlerMode ==
  ASSUME TypeOK, ModeInv, StatusHandler
  PROVE  ModeInv'
<1> USE DEF ModeInv, Handler
<1>1. CASE StatusDelivered
  BY <1>1 DEF StatusDelivered
<1>2. CASE CancelScheduled \/ CancelWait
  BY <1>2 DEF CancelScheduled, CancelWait, execVars
<1>3. CASE Deactivated \/ ActivateAgain \/ FailsafeDeferred
  BY <1>3 DEF Deactivated, ActivateAgain, FailsafeDeferred
<1>4. CASE CheckReactivate
  BY <1>4 DEF CheckReactivate, execVars
<1>5. CASE UpdateMode
  <2>1. /\ isArmed' = isArmed /\ msg' = msg /\ hpc' = "wait" /\ prevNav' = msg.nav
        /\ msg.armed = isArmed
    BY <1>5 DEF UpdateMode
  <2>2. modeActive' => msg.nav = OwnMode /\ (msg.armed \/ ActivateWhileDisarmed)
    BY <1>5, ExecutorAssumption DEF UpdateMode, OwnedModeUpdated, TypeOK, ModeTypeOK
  <2> QED
    BY <2>1, <2>2
<1>6. CASE UpdateWait
  BY <1>6 DEF UpdateWait, execVars, modeVars
<1>7. CASE CallbackEnds
  BY <1>7 DEF CallbackEnds, execVars, modeVars
<1> QED
  BY <1>1, <1>2, <1>3, <1>4, <1>5, <1>6, <1>7 DEF StatusHandler

LEMMA NextMode == TypeOK /\ ModeInv /\ [Next]_vars => ModeInv'
<1> SUFFICES ASSUME TypeOK, ModeInv, [Next]_vars PROVE ModeInv'
  OBVIOUS
<1>1. CASE StatusHandler
  BY <1>1, StatusHandlerMode
<1>2. CASE CompletedDelivered \/ TimerFires
  BY <1>2 DEF CompletedDelivered, TimerFires, Handler, ModeInv, execVars, modeVars
<1>3. ASSUME NEW result \in ModeResults, OwnedModeCompletes(result) PROVE ModeInv'
  BY <1>3 DEF OwnedModeCompletes, ModeInv, execVars, handlerVars
<1>4. ASSUME UNCHANGED <<execVars, handlerVars, modeVars>> PROVE ModeInv'
  BY <1>4 DEF ModeInv, execVars, handlerVars, modeVars
<1>5. CASE ApiCall
  BY <1>4, <1>5 DEF ApiCall, ScheduleMode, SetArmed, WaitFor, Issue
<1>6. CASE UserReturns \/ Fmu \/ (\E r \in Reqs : CallReturns(r))
           \/ (\E r \in Reqs, result \in Results : SendReturns(r, result))
  BY <1>4, <1>6, FmuLeaves DEF UserReturns, CallReturns, SendReturns
<1>7. CASE UNCHANGED vars
  BY <1>4, <1>7 DEF vars
<1> QED
  BY <1>1, <1>2, <1>3, <1>5, <1>6, <1>7 DEF Next, Library

\* Between node callbacks the owned mode runs only if the last status selected it
\* and allowed it to run, whatever the user's code does
\* (ModeBase::vehicleStatusUpdated(), called for every status).
THEOREM ModeRunsOnlySelected == Spec => []ModeOnlyWhenSelected
<1>1. Init => ModeInv
  BY DEF Init, ModeInv
<1>2. ModeInv => ModeOnlyWhenSelected
  BY DEF ModeInv, ModeOnlyWhenSelected, Handler
<1> QED
  BY <1>1, <1>2, InitTypeOK, NextTypeOK, NextMode, PTL DEF Spec

-----------------------------------------------------------------------------
(* Arming for a request does not start the owned mode.                     *)

Arming(r) == r # NoReq /\ req[r].kind = "arm"

\* A request to arm is on its way or waits only while the vehicle is disarmed, or
\* in the callback for the status that has just reported it armed.
ArmingInv ==
  /\ \A r \in Reqs : InSend(r) /\ Arming(r) => ~isArmed
  /\ Arming(waiting) /\ isArmed => justArmed /\ hpc \notin {"idle", "done"}
  /\ hpc \notin {"idle", "done"} => msg.armed = isArmed

LEMMA StatusHandlerArming ==
  ASSUME TypeOK, ArmingInv, StatusHandler
  PROVE  ArmingInv'
<1> USE DEF ArmingInv, Handler, Arming
<1>0. UNCHANGED <<req, pc>>
  BY DEF StatusHandler, StatusDelivered, CancelScheduled, CancelWait, Deactivated,
         CheckReactivate, ActivateAgain, FailsafeDeferred, UpdateMode, UpdateWait,
         CallbackEnds, callVars
<1>1. CASE StatusDelivered
  <2>1. \A r \in Reqs : ~InSend(r)'
    BY <1>0, <1>1 DEF StatusDelivered, NoFrame, InSend
  <2>2. hpc' \notin {"idle", "done"} /\ waiting' = waiting /\ hpc = "idle"
        /\ msg' = status /\ isArmed' = status.armed
        /\ justArmed' = (status.armed /\ ~isArmed)
    BY <1>1 DEF StatusDelivered, slotVars
  <2> QED
    BY <1>0, <2>1, <2>2
<1>2. CASE CancelScheduled \/ CancelWait
  BY <1>0, <1>2 DEF CancelScheduled, CancelWait, execVars, InSend
<1>3. CASE Deactivated \/ ActivateAgain \/ FailsafeDeferred
  BY <1>0, <1>3 DEF Deactivated, ActivateAgain, FailsafeDeferred, slotVars, InSend
<1>4. CASE CheckReactivate
  BY <1>0, <1>4 DEF CheckReactivate, execVars, slotVars, InSend
<1>5. CASE UpdateMode
  BY <1>0, <1>5 DEF UpdateMode, slotVars, InSend
<1>6. CASE UpdateWait
  BY <1>0, <1>6 DEF UpdateWait, WaitConditionHolds, execVars, InSend
<1>7. CASE CallbackEnds
  BY <1>0, <1>7 DEF CallbackEnds, execVars, slotVars, InSend
<1> QED
  BY <1>1, <1>2, <1>3, <1>4, <1>5, <1>6, <1>7 DEF StatusHandler

LEMMA ApiCallArming ==
  ASSUME Inv1, ArmingInv, ApiCall
  PROVE  ArmingInv'
<1> PICK call \in Calls : ScheduleMode(call) \/ SetArmed(call) \/ WaitFor(call)
  BY DEF ApiCall
<1> DEFINE n == issued + 1
<1>0. Issue(call)
  BY DEF ScheduleMode, SetArmed, WaitFor
<1>1. n \in Reqs /\ n # waiting /\ ~InSend(n) /\ n # NoReq
  BY <1>0, NewRequest, TypeFacts DEF InSend, Inv1
<1>2. /\ UNCHANGED <<isArmed, justArmed, hpc, msg>>
      /\ req'[n] = call /\ \A r \in Reqs : r # n => req'[r] = req[r]
  BY <1>0, <1>1 DEF Issue, execVars, handlerVars, Inv1, TypeOK, CallTypeOK
<1>3. \A r \in Reqs : r # n => pc'[r] = pc[r]
  BY TypeFacts DEF Inv1, ScheduleMode, SetArmed, WaitFor, AnswerAtOnce
<1>4. waiting' # waiting => waiting' = n /\ call.kind # "arm"
  BY DEF ScheduleMode, SetArmed, WaitFor, AnswerAtOnce, slotVars
<1>5. pc'[n] # "ret" /\ call.kind = "arm" => ~isArmed
  <2>1. CASE AnswerAtOnce("Success")
    BY <1>1, <2>1, TypeFacts DEF Inv1, AnswerAtOnce
  <2>2. CASE ~AnswerAtOnce("Success")
    BY <2>2 DEF ScheduleMode, SetArmed, WaitFor
  <2> QED
    BY <2>1, <2>2
<1>6. waiting' \in Reqs \cup {NoReq}
  BY <1>1, <1>4, TypeFacts DEF Inv1
<1> HIDE DEF n
<1>7. \A r \in Reqs : InSend(r)' /\ Arming(r)' => ~isArmed'
  <2> SUFFICES ASSUME NEW r \in Reqs, InSend(r)', Arming(r)' PROVE ~isArmed'
    OBVIOUS
  <2>1. CASE r = n
    BY <1>2, <1>5, <2>1 DEF Arming, InSend
  <2>2. CASE r # n
    <3>1. InSend(r)
      BY <1>3, <2>2 DEF InSend
    <3>2. Arming(r)
      BY <1>2, <2>2 DEF Arming
    <3> QED
      BY <1>2, <3>1, <3>2 DEF ArmingInv
  <2> QED
    BY <2>1, <2>2
<1>8. Arming(waiting)' => Arming(waiting)
  BY <1>1, <1>2, <1>4, <1>6 DEF Arming
<1> QED
  BY <1>2, <1>7, <1>8 DEF ArmingInv

LEMMA NextArming == Inv1 /\ ArmingInv /\ [Next]_vars => ArmingInv'
<1> SUFFICES ASSUME Inv1, ArmingInv, [Next]_vars PROVE ArmingInv'
  OBVIOUS
<1>0. TypeOK
  BY DEF Inv1
<1>1. CASE StatusHandler
  BY <1>0, <1>1, StatusHandlerArming
<1>2. CASE ApiCall
  BY <1>2, ApiCallArming
<1>3. ASSUME NEW r \in Reqs, NEW result \in Results, SendReturns(r, result)
      PROVE  ArmingInv'
  <2>1. /\ UNCHANGED <<isArmed, justArmed, hpc, msg, req>>
        /\ \A q \in Reqs : InSend(q)' => InSend(q)
        /\ waiting' # waiting => waiting' = r /\ InSend(r)
    BY <1>0, <1>3, TypeFacts
    DEF SendReturns, Running, InSend, execVars, handlerVars, slotVars
  <2> QED
    BY <2>1 DEF ArmingInv, Arming
<1>4. CASE CompletedDelivered \/ TimerFires
  BY <1>4 DEF CompletedDelivered, TimerFires, Handler, ArmingInv, Arming, InSend, execVars,
              slotVars
<1>5. ASSUME UNCHANGED <<execVars, waiting, req, handlerVars>>,
             \A r \in Reqs : InSend(r)' => InSend(r)
      PROVE  ArmingInv'
  BY <1>5 DEF ArmingInv, Arming, execVars, handlerVars
<1>6. CASE UserReturns \/ \E result \in ModeResults : OwnedModeCompletes(result)
  BY <1>5, <1>6 DEF UserReturns, OwnedModeCompletes, InSend, slotVars, callVars
<1>7. ASSUME NEW r \in Reqs, CallReturns(r) PROVE ArmingInv'
  <2>1. \A q \in Reqs : InSend(q)' => InSend(q)
    BY <1>0, <1>7, TypeFacts DEF CallReturns, Running, InSend
  <2> QED
    BY <1>5, <1>7, <2>1 DEF CallReturns, slotVars
<1>8. CASE Fmu
  BY <1>0, <1>5, <1>8, FmuLeaves DEF slotVars
<1>9. CASE UNCHANGED vars
  BY <1>5, <1>9 DEF InSend, vars, slotVars, callVars
<1> QED
  BY <1>1, <1>2, <1>3, <1>4, <1>6, <1>7, <1>8, <1>9 DEF Next, Library

\* If the owned mode runs only while armed, a status that reports the arming the
\* executor asked for never starts it: the callback of arm() comes first
\* (do_not_activate_mode in vehicleStatusUpdated()).
THEOREM ArmingDoesNotStartMode == ~ActivateWhileDisarmed => (Spec => ArmingKeepsModeOff)
<1> SUFFICES ASSUME ~ActivateWhileDisarmed PROVE Spec => ArmingKeepsModeOff
  OBVIOUS
<1> DEFINE KeptOff == ~modeActive /\ modeActive'
                        => ~(inCharge /\ waiting # NoReq /\ req[waiting].kind = "arm")
<1>1. Init => ArmingInv
  BY InitTypeOK, TypeFacts DEF Init, ArmingInv, Arming, InSend
<1>2. ASSUME Inv1, ArmingInv, [Next]_vars PROVE KeptOff
  <2>1. CASE UpdateMode
    <3>1. /\ hpc = "mode"
          /\ ~modeActive /\ modeActive' => msg.armed /\ ~DoNotActivateMode
      BY <1>2, <2>1, ExecutorAssumption
      DEF UpdateMode, OwnedModeUpdated, Handler, Inv1, TypeOK, ModeTypeOK
    <3> QED
      BY <1>2, <3>1 DEF ArmingInv, Arming, DoNotActivateMode
  <2>2. ASSUME modeActive' = modeActive PROVE KeptOff
    BY <2>2
  <2>3. CASE StatusHandler /\ ~UpdateMode
    BY <2>2, <2>3
    DEF StatusHandler, StatusDelivered, CancelScheduled, CancelWait, Deactivated,
        CheckReactivate, ActivateAgain, FailsafeDeferred, UpdateWait, CallbackEnds, modeVars
  <2>4. CASE ApiCall
    BY <2>2, <2>4 DEF ApiCall, ScheduleMode, SetArmed, WaitFor, Issue, modeVars
  <2>5. CASE ~StatusHandler /\ ~ApiCall
    BY <1>2, <2>2, <2>5, FmuLeaves
    DEF Next, Library, CompletedDelivered, UserReturns, TimerFires, OwnedModeCompletes,
        CallReturns, SendReturns, modeVars, vars
  <2> QED
    BY <2>1, <2>3, <2>4, <2>5
<1>3. Inv1 /\ ArmingInv /\ [Next]_vars => [KeptOff]_vars
  BY <1>2
<1> QED
  BY <1>1, <1>3, InitInv1, NextInv1, NextArming, PTL DEF Spec, ArmingKeepsModeOff

-----------------------------------------------------------------------------
(* To a disciplined user ModeExecutorBase is an Executor.                  *)

\* While callOnDeactivate() runs no other code does, and it empties one slot
\* after the other.
LeaveInv ==
  /\ Leaving => turn = "lib" /\ NoFrame /\ inCharge
  /\ hpc \in {"cancelWait", "deactivated"} => scheduled = NoReq
  /\ hpc = "deactivated" => waiting = NoReq

\* Each slot holds requests of its kinds, and only commands are sent.
KindInv ==
  /\ \A r \in Reqs : InSend(r) => req[r].kind \in {"schedule", "arm", "disarm"}
  /\ scheduled # NoReq => req[scheduled].kind = "schedule"
  /\ waiting # NoReq => req[waiting].kind # "schedule"

Inv3 == Inv2 /\ LeaveInv /\ KindInv

LEMMA StatusHandlerLeave ==
  ASSUME Disciplined, LeaveInv, StatusHandler
  PROVE  LeaveInv'
<1> USE DEF LeaveInv, Leaving, NoFrame, Handler, Hook
<1>1. CASE StatusDelivered
  BY <1>1 DEF StatusDelivered, slotVars
<1>2. CASE CancelScheduled
  BY <1>2 DEF CancelScheduled, CallBack, Disciplined, execVars
<1>3. CASE CancelWait
  BY <1>3 DEF CancelWait, CallBack, Disciplined, execVars
<1>4. CASE Deactivated
  BY <1>4 DEF Deactivated, slotVars
<1>5. CASE CheckReactivate
  BY <1>5 DEF CheckReactivate, SwitchedBack, execVars, slotVars, callVars
<1>6. CASE ActivateAgain
  BY <1>6 DEF ActivateAgain, slotVars
<1>7. CASE FailsafeDeferred
  BY <1>7 DEF FailsafeDeferred, slotVars
<1>8. CASE UpdateMode
  BY <1>8 DEF UpdateMode, slotVars
<1>9. CASE UpdateWait
  BY <1>9 DEF UpdateWait, CallBack, execVars
<1>10. CASE CallbackEnds
  BY <1>10 DEF CallbackEnds, execVars, slotVars, callVars
<1> QED
  BY <1>1, <1>2, <1>3, <1>4, <1>5, <1>6, <1>7, <1>8, <1>9, <1>10 DEF StatusHandler

LEMMA NextLeave == Disciplined => (LeaveInv /\ [Next]_vars => LeaveInv')
<1> SUFFICES ASSUME Disciplined, LeaveInv, [Next]_vars PROVE LeaveInv'
  OBVIOUS
<1>1. CASE StatusHandler
  BY <1>1, StatusHandlerLeave
<1>2. CASE CompletedDelivered
  BY <1>2 DEF CompletedDelivered, LeaveInv, Leaving, NoFrame, Handler, execVars
<1>3. ASSUME NEW r \in Reqs, CallReturns(r) \/ \E result \in Results : SendReturns(r, result)
      PROVE  LeaveInv'
  <2>1. ~NoFrame /\ hpc' = hpc
    BY <1>3 DEF CallReturns, SendReturns, Running, NoFrame, handlerVars
  <2> QED
    BY <2>1 DEF LeaveInv, Leaving
<1>4. CASE ApiCall
  <2>1. turn = "user" /\ hpc' = hpc
    BY <1>4 DEF ApiCall, ScheduleMode, SetArmed, WaitFor, Issue, handlerVars
  <2> QED
    BY <2>1 DEF LeaveInv, Leaving
<1>5. CASE UserReturns
  BY <1>5 DEF UserReturns, LeaveInv, Leaving, NoFrame, execVars, slotVars, handlerVars
<1>6. CASE TimerFires
  BY <1>6 DEF TimerFires, LeaveInv, Leaving
<1>7. ASSUME NEW result \in ModeResults, OwnedModeCompletes(result) PROVE LeaveInv'
  BY <1>7 DEF OwnedModeCompletes, LeaveInv, Leaving, NoFrame, execVars, slotVars, callVars,
              handlerVars
<1>8. CASE Fmu
  <2>1. UNCHANGED <<inCharge, scheduled, waiting, turn, hpc>> /\ (pc' = pc \/ ~NoFrame)
    BY <1>8, FmuLeaves DEF execVars, slotVars, handlerVars
  <2> QED
    BY <2>1 DEF LeaveInv, Leaving, NoFrame
<1>9. CASE UNCHANGED vars
  BY <1>9 DEF vars, LeaveInv, Leaving, NoFrame, execVars, slotVars, callVars, handlerVars
<1> QED
  BY <1>1, <1>2, <1>3, <1>4, <1>5, <1>6, <1>7, <1>8, <1>9 DEF Next, Library

LEMMA ApiCallKind ==
  ASSUME Inv1, KindInv, ApiCall
  PROVE  KindInv'
<1> PICK call \in Calls : ScheduleMode(call) \/ SetArmed(call) \/ WaitFor(call)
  BY DEF ApiCall
<1> PICK n \in Nat : n = issued + 1
  BY TypeFacts DEF Inv1
<1>0. Issue(call)
  BY DEF ScheduleMode, SetArmed, WaitFor
<1>1. n \in Reqs /\ n # scheduled /\ n # waiting /\ ~InSend(n) /\ n # NoReq
  BY <1>0, NewRequest, TypeFacts DEF InSend, Inv1
<1>2. req'[n] = call /\ \A r \in Reqs : r # n => req'[r] = req[r]
  BY <1>0, <1>1 DEF Issue, Inv1, TypeOK, CallTypeOK
<1>3. \A r \in Reqs : r # n => pc'[r] = pc[r]
  BY TypeFacts DEF Inv1, ScheduleMode, SetArmed, WaitFor, AnswerAtOnce
<1>4. /\ scheduled' \in {NoReq, scheduled}
      /\ waiting' # waiting => waiting' = n /\ call.kind # "schedule"
  BY DEF ScheduleMode, SetArmed, WaitFor, AnswerAtOnce, slotVars
<1>5. InSend(n)' => call.kind \in {"schedule", "arm", "disarm"}
  <2>1. CASE pc'[n] = pc[n]
    BY <1>1, <2>1 DEF InSend
  <2>2. CASE pc'[n] # pc[n]
    <3>1. ~WaitFor(call) \/ pc'[n] = "ret"
      BY <1>1, <2>2, TypeFacts DEF WaitFor, AnswerAtOnce, Inv1
    <3> QED
      BY <3>1 DEF ScheduleMode, SetArmed, InSend
  <2> QED
    BY <2>1, <2>2
<1>6. scheduled \in Reqs \cup {NoReq} /\ waiting \in Reqs \cup {NoReq}
  BY TypeFacts DEF Inv1
<1>7. \A r \in Reqs : InSend(r)' => req'[r].kind \in {"schedule", "arm", "disarm"}
  BY <1>2, <1>3, <1>5 DEF KindInv, InSend
<1>8. scheduled' # NoReq => req'[scheduled'].kind = "schedule"
  BY <1>1, <1>2, <1>4, <1>6 DEF KindInv
<1>9. waiting' # NoReq => req'[waiting'].kind # "schedule"
  BY <1>1, <1>2, <1>4, <1>6 DEF KindInv
<1> QED
  BY <1>7, <1>8, <1>9 DEF KindInv

LEMMA NextKind == Inv1 /\ KindInv /\ [Next]_vars => KindInv'
<1> SUFFICES ASSUME Inv1, KindInv, [Next]_vars PROVE KindInv'
  OBVIOUS
<1>0. TypeOK
  BY DEF Inv1
<1>1. CASE ApiCall
  BY <1>1, ApiCallKind
<1>2. ASSUME NEW r \in Reqs, NEW result \in Results, SendReturns(r, result)
      PROVE  KindInv'
  <2>1. /\ req' = req /\ InSend(r)
        /\ \A q \in Reqs : InSend(q)' => InSend(q)
        /\ \/ UNCHANGED <<scheduled, waiting>>
           \/ req[r].kind = "schedule" /\ scheduled' = r /\ waiting' = waiting
           \/ req[r].kind # "schedule" /\ waiting' = r /\ scheduled' = scheduled
    BY <1>0, <1>2, TypeFacts DEF SendReturns, Running, InSend, slotVars
  <2> QED
    BY <2>1 DEF KindInv
<1>3. ASSUME req' = req, scheduled' \in {scheduled, NoReq}, waiting' \in {waiting, NoReq},
             \A r \in Reqs : InSend(r)' => InSend(r)
      PROVE  KindInv'
  BY <1>3 DEF KindInv
<1>4. CASE UNCHANGED vars
  BY <1>3, <1>4 DEF vars, callVars, slotVars, InSend
<1>5. CASE Next /\ ~ApiCall /\ ~(\E r \in Reqs, result \in Results : SendReturns(r, result))
  <2>1. Quiet \/ (\E r : Emptied(r)) \/ (\E r \in Reqs : CallReturns(r))
    BY <1>5, OtherSteps DEF Next, Library
  <2>2. ASSUME NEW r \in Reqs, CallReturns(r) PROVE \A q \in Reqs : InSend(q)' => InSend(q)
    BY <1>0, <2>2, TypeFacts DEF CallReturns, Running, InSend
  <2> QED
    BY <1>3, <2>1, <2>2 DEF Quiet, Emptied, CallReturns, slotVars, InSend
<1> QED
  BY <1>1, <1>2, <1>4, <1>5

LEMMA NextInv3 == Disciplined => (Inv3 /\ [Next]_vars => Inv3')
  BY NextInv2, NextLeave, NextKind DEF Inv3, Inv2

LEMMA InitInv3 == Init => Inv3
<1> SUFFICES ASSUME Init PROVE Inv3
  OBVIOUS
<1>1. Inv2
  BY InitInv2
<1> QED
  BY <1>1 DEF Init, Inv3, LeaveInv, Leaving, KindInv, InSend

\* The requests that are open.
LEMMA OpenIs ==
  ASSUME Inv1
  PROVE  \A r \in Reqs : (Outcome[r] = "open") = (r <= issued /\ answers[r] = <<>>)
<1> SUFFICES ASSUME NEW r \in Reqs, Len(answers[r]) = 1 PROVE answers[r][1] # "open"
  BY TypeFacts DEF Outcome, Inv1
<1>1. answers[r] \in Seq(Results)
  BY TypeFacts DEF Inv1
<1>2. answers[r][1] \in Results
  BY <1>1
<1> QED
  BY <1>2 DEF Results

LEMMA HeldIsOpen ==
  ASSUME Inv1, NEW r \in Reqs, r \in {scheduled, waiting} \/ InSend(r)
  PROVE  r \in Promise!Open /\ r <= issued /\ answers[r] = <<>>
<1>1. r <= issued /\ answers[r] = <<>>
  BY TypeFacts DEF Inv1, OneHolder, InSend
<1> QED
  BY <1>1, OpenIs DEF Promise!Open

LEMMA OpenIsHeld ==
  ASSUME Inv3, \A r \in Reqs : ~InSend(r)
  PROVE  /\ Promise!Open = {scheduled, waiting} \cap Reqs
         /\ Promise!OpenSchedules = {scheduled} \cap Reqs
<1>1. Inv1 /\ TypeOK
  BY DEF Inv3, Inv2, Inv1
<1>2. ASSUME NEW r \in Reqs, Outcome[r] = "open" PROVE r \in {scheduled, waiting}
  <2>1. r <= issued /\ answers[r] = <<>>
    BY <1>1, <1>2, OpenIs
  <2>2. r \in 1 .. issued
    BY <1>1, <2>1, TypeFacts DEF Reqs
  <2> QED
    BY <2>1, <2>2 DEF Inv3, Inv2, NoLostRequest
<1>3. Promise!Open = {scheduled, waiting} \cap Reqs
  BY <1>1, <1>2, HeldIsOpen DEF Promise!Open
<1>4. Promise!OpenSchedules = {scheduled} \cap Reqs
  BY <1>1, <1>3, TypeFacts DEF Promise!OpenSchedules, Inv3, KindInv
<1> QED
  BY <1>3, <1>4

LEMMA OutcomeKept == UNCHANGED <<issued, answers>> => Outcome' = Outcome
  BY DEF Outcome

\* Calling an open request's callback gives it its outcome.
LEMMA OutcomeAnswered ==
  ASSUME Inv1, NEW r \in Reqs, NEW result, CallBack(r, result),
         answers[r] = <<>>, r <= issued, issued' = issued
  PROVE  Outcome' = [Outcome EXCEPT ![r] = result]
<1>1. answers'[r] = <<result>> /\ \A q \in Reqs : q # r => answers'[q] = answers[q]
  BY FirstAnswer, TypeFacts DEF Inv1, CallBack
<1>2. Len(answers'[r]) = 1 /\ answers'[r] # <<>> /\ answers'[r][1] = result
  BY <1>1
<1>3. r > issued <=> FALSE
  BY TypeFacts DEF Inv1
<1>4. ASSUME NEW q \in Reqs PROVE Outcome'[q] = IF q = r THEN result ELSE Outcome[q]
  <2>1. CASE q = r
    BY <1>2, <1>3, <2>1 DEF Outcome
  <2>2. CASE q # r
    BY <1>1, <2>2 DEF Outcome
  <2> QED
    BY <2>1, <2>2
<1> QED
  BY <1>4 DEF Outcome

\* The outcome of the requests when one more has been made.
LEMMA OutcomeMade ==
  ASSUME Inv1, NEW n \in Reqs, n = issued + 1, issued' = n,
         \A q \in Reqs : answers'[q] = answers[q] \/ answers'[q] # <<>>
  PROVE  /\ Outcome[n] = "unmade"
         /\ answers'[n] = <<>> => Outcome'[n] = "open"
         /\ \A result : answers'[n] = <<result>> => Outcome'[n] = result
         /\ \A q \in Reqs : q # n /\ answers'[q] = answers[q] => Outcome'[q] = Outcome[q]
         /\ \A q \in Reqs : \A result :
              q <= issued /\ answers'[q] = <<result>> => Outcome'[q] = result
<1>1. /\ n > issued /\ ~(n > issued')
      /\ \A q \in Reqs : q # n => (q > issued) = (q > issued')
      /\ \A q \in Reqs : q <= issued => ~(q > issued')
  BY TypeFacts DEF Inv1
<1>2. \A result : Len(<<result>>) = 1 /\ <<result>> # <<>> /\ <<result>>[1] = result
  OBVIOUS
<1> QED
  BY <1>1, <1>2 DEF Outcome

LEMMA ApiCallPromised == ASSUME Disciplined, Inv3, ApiCall PROVE Promise!Next
<1> PICK call \in Calls : ScheduleMode(call) \/ SetArmed(call) \/ WaitFor(call)
  BY DEF ApiCall
<1>0. Inv1 /\ TypeOK /\ Issue(call)
  BY DEF Inv3, Inv2, Inv1, ScheduleMode, SetArmed, WaitFor
<1> PICK n \in Nat : n = issued + 1
  BY <1>0, TypeFacts
<1>1. n \in Reqs /\ issued' = n /\ answers[n] = <<>> /\ n # scheduled /\ n # waiting
  BY <1>0, NewRequest
<1>2. \A q \in Reqs : ~InSend(q)
  BY <1>0, OneSender DEF Inv3, Issue
<1>3. ~Leaving /\ UNCHANGED <<isArmed, inCharge, Leaving>>
  BY <1>0 DEF Issue, Inv3, LeaveInv, Leaving, handlerVars, execVars
<1>4. Promise!Make(n, call)
  BY <1>0, <1>1, <1>3, OutcomeMade, TypeFacts DEF Promise!Make, Issue, Outcome
<1>5. Promise!OpenSchedules = {scheduled} \cap Reqs /\ Promise!Open = {scheduled, waiting} \cap Reqs
  BY <1>2, OpenIsHeld
<1>6. ASSUME NEW result, AnswerAtOnce(result) PROVE Outcome' = [Outcome EXCEPT ![n] = result]
  <2>1. answers'[n] = <<result>> /\ \A q \in Reqs : q # n => answers'[q] = answers[q]
    BY <1>0, <1>1, <1>6, FirstAnswer DEF AnswerAtOnce
  <2>2. Outcome'[n] = result /\ \A q \in Reqs : q # n => Outcome'[q] = Outcome[q]
    BY <1>0, <1>1, <2>1, OutcomeMade
  <2> QED
    BY <2>2 DEF Outcome
<1>7. ASSUME answers' = answers PROVE Outcome' = [Outcome EXCEPT ![n] = "open"]
  <2>1. Outcome'[n] = "open" /\ \A q \in Reqs : q # n => Outcome'[q] = Outcome[q]
    BY <1>0, <1>1, <1>7, OutcomeMade
  <2> QED
    BY <2>1 DEF Outcome
<1>8. CASE ScheduleMode(call)
  <2>1. CASE ~isArmed /\ ~call.forced
    <3>1. AnswerAtOnce("Rejected")
      BY <1>8, <2>1 DEF ScheduleMode
    <3> QED
      BY <1>1, <1>4, <1>6, <1>8, <2>1, <3>1 DEF ScheduleMode, Promise!Schedule, Promise!Next
  <2>2. CASE isArmed \/ call.forced
    <3>1. Outcome' = [q \in Reqs |-> IF q = n THEN "open"
                                     ELSE IF q \in {scheduled} \cap Reqs THEN "Deactivated"
                                     ELSE Outcome[q]]
      <4>1. CASE scheduled = NoReq
        <5>1. answers' = answers /\ NoReq \notin Reqs
          BY <1>0, <1>8, <2>2, <4>1, TypeFacts DEF ScheduleMode, AnswerAtOnce
        <5> QED
          BY <1>1, <1>7, <4>1, <5>1 DEF Outcome
      <4>2. CASE scheduled # NoReq
        <5>1. scheduled \in Reqs /\ CallBack(scheduled, "Deactivated")
          BY <1>0, <1>8, <2>2, <4>2, TypeFacts DEF ScheduleMode, AnswerAtOnce
        <5>2. scheduled <= issued /\ answers[scheduled] = <<>>
          BY <1>0, <5>1, HeldIsOpen
        <5>3. /\ answers'[scheduled] = <<"Deactivated">> /\ answers'[scheduled] # <<>>
              /\ \A q \in Reqs : q # scheduled => answers'[q] = answers[q]
          BY <1>0, <5>1, <5>2, FirstAnswer
        <5>4. \A q \in Reqs : answers'[q] = answers[q] \/ answers'[q] # <<>>
          <6> TAKE q \in Reqs
          <6>1. CASE q = scheduled
            BY <5>3, <6>1
          <6>2. CASE q # scheduled
            BY <5>3, <6>2
          <6> QED
            BY <6>1, <6>2
        <5>5. /\ Outcome'[n] = "open" /\ Outcome'[scheduled] = "Deactivated"
              /\ \A q \in Reqs : q # n /\ q # scheduled => Outcome'[q] = Outcome[q]
          BY <1>0, <1>1, <5>1, <5>2, <5>3, <5>4, OutcomeMade
        <5> QED
          BY <1>1, <5>1, <5>5 DEF Outcome
      <4> QED
        BY <4>1, <4>2
    <3> QED
      BY <1>1, <1>4, <1>5, <1>8, <2>2, <3>1 DEF ScheduleMode, Promise!Schedule, Promise!Next
  <2> QED
    BY <2>1, <2>2
<1>9. CASE SetArmed(call) \/ WaitFor(call)
  <2>1. call.kind \in {"arm", "disarm", "waitReady", "waitDisarmed"} /\ waiting = NoReq
    BY <1>9 DEF Disciplined, SetArmed, WaitFor
  <2>2. Promise!Open \subseteq Promise!OpenSchedules
    BY <1>0, <1>5, <2>1, TypeFacts
  <2>3. \/ /\ isArmed = (call.kind \in {"arm", "waitReady"})
           /\ AnswerAtOnce("Success")
        \/ /\ isArmed # (call.kind \in {"arm", "waitReady"})
           /\ answers' = answers
    BY <1>0, <1>9 DEF SetArmed, WaitFor, TypeOK, ExecTypeOK
  <2> QED
    BY <1>1, <1>4, <1>6, <1>7, <2>1, <2>2, <2>3 DEF Promise!Wait, Promise!Next
<1> QED
  BY <1>8, <1>9

LEMMA UnseenStep ==
  ASSUME UNCHANGED <<req, issued, answers, isArmed, inCharge>>, Leaving' <=> Leaving
  PROVE  [Promise!Next]_Promise!vars
<1>1. Leaving' = Leaving
  BY DEF Leaving
<1> QED
  BY <1>1, OutcomeKept DEF Promise!vars

LEMMA AnswerPromised ==
  ASSUME Inv3, NEW r \in Reqs, r \in {scheduled, waiting} \/ InSend(r),
         NEW result, CallBack(r, result),
         ~Leaving, ~Leaving', UNCHANGED <<req, issued, isArmed, inCharge>>,
         result \in {"Success", "Rejected", "Timeout", "ModeFailureOther"},
         \/ result \in {"Rejected", "Timeout"} /\ InSend(r)
         \/ result \in {"Success", "ModeFailureOther"} /\ r = scheduled
         \/ result = "Success" /\ r = waiting /\ WaitConditionHolds
  PROVE  Promise!Next
<1>1. Inv1
  BY DEF Inv3, Inv2
<1>2. r \in Promise!Open /\ Outcome' = [Outcome EXCEPT ![r] = result]
  BY <1>1, HeldIsOpen, OutcomeAnswered
<1>3. r \in Nat /\ r # NoReq /\ (r = scheduled \/ r = waiting \/ InSend(r))
  BY <1>1, TypeFacts DEF Inv1
<1>4. \/ result \in {"Rejected", "Timeout"} /\ req[r].kind \in Promise!Commands
      \/ result = "ModeFailureOther" /\ req[r].kind = "schedule"
      \/ /\ result = "Success"
         /\ req[r].kind = "arm" => isArmed
         /\ req[r].kind \in {"disarm", "waitDisarmed"} => ~isArmed
  BY <1>3 DEF Inv3, KindInv, WaitConditionHolds, Promise!Commands
<1>5. Promise!Answer(r, result)
  BY <1>2, <1>4 DEF Promise!Answer, Leaving
<1> QED
  BY <1>5 DEF Promise!Next

LEMMA CancelPromised ==
  ASSUME Inv3, NEW r \in {scheduled, waiting}, r # NoReq, CallBack(r, "Deactivated"),
         Leaving, Leaving', UNCHANGED <<req, issued, isArmed, inCharge>>
  PROVE  Promise!Next
<1>1. Inv1 /\ r \in Reqs
  BY TypeFacts DEF Inv3, Inv2, Inv1
<1>2. r \in Promise!Open /\ Outcome' = [Outcome EXCEPT ![r] = "Deactivated"]
  BY <1>1, HeldIsOpen, OutcomeAnswered
<1>3. Promise!Cancel(r)
  BY <1>2 DEF Promise!Cancel, Leaving
<1> QED
  BY <1>1, <1>3 DEF Promise!Next

LEMMA SendReturnsPromised ==
  ASSUME Inv3, NEW r \in Reqs, NEW result \in Results, SendReturns(r, result)
  PROVE  [Promise!Next]_Promise!vars
<1>1. InSend(r) /\ ~Leaving /\ ~Leaving' /\ UNCHANGED <<req, issued, isArmed, inCharge>>
  BY TypeFacts
  DEF SendReturns, Running, InSend, Inv3, Inv2, Inv1, LeaveInv, NoFrame, Leaving,
      execVars, handlerVars
<1>2. CASE result # "Success"
  <2>1. CallBack(r, result) /\ result \in {"Rejected", "Timeout"}
    BY <1>2 DEF SendReturns
  <2> QED
    BY <1>1, <2>1, AnswerPromised
<1>3. CASE result = "Success"
  <2>1. answers' = answers
    BY <1>3 DEF SendReturns
  <2> QED
    BY <1>1, <2>1, UnseenStep
<1> QED
  BY <1>2, <1>3

LEMMA CompletedPromised ==
  ASSUME Inv3, CompletedDelivered
  PROVE  [Promise!Next]_Promise!vars
<1>1. ~Leaving /\ ~Leaving' /\ UNCHANGED <<req, issued, isArmed, inCharge>>
  BY DEF CompletedDelivered, Handler, Leaving, execVars
<1>2. CASE scheduled # NoReq /\ req[scheduled].mode = completedMsg.mode
  <2>1. scheduled \in Reqs /\ CallBack(scheduled, completedMsg.result)
    BY <1>2, TypeFacts DEF CompletedDelivered, Inv3, Inv2, Inv1
  <2>2. completedMsg.result \in {"Success", "ModeFailureOther"}
    BY ExecutorAssumption
    DEF CompletedDelivered, Inv3, Inv2, Inv1, TypeOK, LinkTypeOK, Completed
  <2> QED
    BY <1>1, <2>1, <2>2, AnswerPromised
<1>3. CASE ~(scheduled # NoReq /\ req[scheduled].mode = completedMsg.mode)
  <2>1. answers' = answers
    BY <1>3 DEF CompletedDelivered
  <2> QED
    BY <1>1, <2>1, UnseenStep
<1> QED
  BY <1>2, <1>3

LEMMA StatusHandlerPromised ==
  ASSUME Inv3, StatusHandler
  PROVE  [Promise!Next]_Promise!vars
<1>0. Inv1 /\ TypeOK /\ isArmed \in BOOLEAN /\ inCharge \in BOOLEAN
  BY DEF Inv3, Inv2, Inv1, TypeOK, ExecTypeOK
<1>1. ASSUME Promise!StatusArrives PROVE Promise!Next
  BY <1>1 DEF Promise!Next
<1>2. CASE StatusDelivered
  <2>1. status.armed \in BOOLEAN /\ status.charge \in BOOLEAN
    BY <1>0, <1>2 DEF StatusDelivered, TypeOK, LinkTypeOK, Status
  <2>2. Outcome' = Outcome /\ req' = req /\ ~Leaving
    BY <1>2, OutcomeKept DEF StatusDelivered, Handler, Leaving
  <2>3. \/ inCharge' \in {inCharge, TRUE} /\ Leaving' = FALSE
        \/ inCharge /\ inCharge' = inCharge /\ Leaving' = TRUE
    <3>1. \/ inCharge' \in {inCharge, TRUE} /\ hpc' = "checkReactivate"
          \/ inCharge /\ inCharge' = inCharge /\ hpc' = "cancelScheduled"
      BY <1>0, <1>2, <2>1 DEF StatusDelivered
    <3>2. hpc' = "checkReactivate" => Leaving' = FALSE
      BY DEF Leaving
    <3>3. hpc' = "cancelScheduled" => Leaving' = TRUE
      BY DEF Leaving
    <3> QED
      BY <3>1, <3>2, <3>3, Zenon
  <2>4. isArmed' \in BOOLEAN
    BY <1>2, <2>1 DEF StatusDelivered
  <2> QED
    BY <1>1, <2>2, <2>3, <2>4 DEF Promise!StatusArrives
<1>3. CASE CancelScheduled
  <2>1. Leaving /\ Leaving' /\ UNCHANGED <<req, issued, isArmed, inCharge>>
    BY <1>3 DEF CancelScheduled, Handler, Leaving, execVars
  <2>2. CASE scheduled = NoReq
    BY <1>3, <2>1, <2>2, UnseenStep DEF CancelScheduled
  <2>3. CASE scheduled # NoReq
    BY <1>3, <2>1, <2>3, CancelPromised DEF CancelScheduled
  <2> QED
    BY <2>2, <2>3
<1>4. CASE CancelWait
  <2>1. Leaving /\ Leaving' /\ UNCHANGED <<req, issued, isArmed, inCharge>>
    BY <1>4 DEF CancelWait, Handler, Leaving, execVars
  <2>2. CASE waiting = NoReq
    BY <1>4, <2>1, <2>2, UnseenStep DEF CancelWait
  <2>3. CASE waiting # NoReq
    BY <1>4, <2>1, <2>3, CancelPromised DEF CancelWait
  <2> QED
    BY <2>2, <2>3
<1>5. CASE Deactivated
  <2>1. /\ Leaving /\ ~Leaving' /\ ~inCharge' /\ UNCHANGED <<req, issued, answers, isArmed>>
        /\ scheduled = NoReq /\ waiting = NoReq
    BY <1>5 DEF Deactivated, Handler, Leaving, Inv3, LeaveInv
  <2>2. \A r \in Reqs : ~InSend(r)
    BY <1>5 DEF Deactivated, Handler, NoFrame, InSend
  <2>3. Promise!Open = {}
    BY <1>0, <2>1, <2>2, OpenIsHeld, TypeFacts
  <2>4. Promise!GiveUpCharge
    BY <2>1, <2>3, OutcomeKept DEF Promise!GiveUpCharge, Leaving
  <2> QED
    BY <2>4 DEF Promise!Next
<1>6. CASE CheckReactivate
  <2>1. ~Leaving /\ UNCHANGED <<req, issued, answers, isArmed, inCharge>>
    BY <1>6 DEF CheckReactivate, Handler, Leaving, execVars, callVars
  <2>2. CASE SwitchedBack
    <3>1. Leaving' = TRUE /\ inCharge
      BY <1>6, <2>2 DEF CheckReactivate, SwitchedBack, Leaving
    <3> QED
      BY <1>0, <1>1, <2>1, <3>1, OutcomeKept DEF Promise!StatusArrives
  <2>3. CASE ~SwitchedBack
    <3>1. ~Leaving'
      BY <1>6, <2>3 DEF CheckReactivate, Leaving
    <3> QED
      BY <2>1, <3>1, UnseenStep
  <2> QED
    BY <2>2, <2>3
<1>7. CASE ActivateAgain
  <2>1. /\ ~Leaving /\ Leaving' = FALSE /\ inCharge' = TRUE
        /\ UNCHANGED <<req, isArmed>> /\ Outcome' = Outcome
    BY <1>7, OutcomeKept DEF ActivateAgain, Handler, Leaving
  <2> QED
    BY <1>0, <1>1, <2>1 DEF Promise!StatusArrives
<1>8. CASE UpdateWait
  <2>1. ~Leaving /\ ~Leaving' /\ UNCHANGED <<req, issued, isArmed, inCharge>>
    BY <1>8 DEF UpdateWait, Handler, Leaving, execVars
  <2>2. CASE waiting # NoReq /\ WaitConditionHolds
    <3>1. waiting \in Reqs /\ CallBack(waiting, "Success")
      BY <1>0, <1>8, <2>2, TypeFacts DEF UpdateWait
    <3> QED
      BY <2>1, <2>2, <3>1, AnswerPromised
  <2>3. CASE ~(waiting # NoReq /\ WaitConditionHolds)
    BY <1>8, <2>1, <2>3, UnseenStep DEF UpdateWait
  <2> QED
    BY <2>2, <2>3
<1>9. CASE FailsafeDeferred \/ UpdateMode \/ CallbackEnds
  <2>1. ~Leaving /\ ~Leaving' /\ UNCHANGED <<req, issued, answers, isArmed, inCharge>>
    BY <1>9
    DEF FailsafeDeferred, UpdateMode, CallbackEnds, Handler, Leaving, execVars, callVars
  <2> QED
    BY <2>1, UnseenStep
<1> QED
  BY <1>2, <1>3, <1>4, <1>5, <1>6, <1>7, <1>8, <1>9 DEF StatusHandler

LEMMA NextPromised ==
  ASSUME Disciplined, Inv3, [Next]_vars
  PROVE  [Promise!Next]_Promise!vars
<1>1. CASE UserReturns \/ TimerFires \/ \E r \in Reqs : CallReturns(r)
  BY <1>1, UnseenStep
  DEF UserReturns, TimerFires, CallReturns, Handler, Leaving, execVars, handlerVars
<1>2. CASE Fmu \/ \E result \in ModeResults : OwnedModeCompletes(result)
  BY <1>2, FmuLeaves, UnseenStep
  DEF OwnedModeCompletes, Leaving, execVars, callVars, handlerVars
<1>3. CASE UNCHANGED vars
  BY <1>3, UnseenStep DEF vars, Leaving, execVars, callVars, handlerVars
<1>4. CASE ApiCall
  BY <1>4, ApiCallPromised
<1> QED
  BY <1>1, <1>2, <1>3, <1>4, StatusHandlerPromised, CompletedPromised, SendReturnsPromised
  DEF Next, Library

\* To a user who makes no request from a cancellation and waits for one thing at a
\* time, ModeExecutorBase is an Executor: its slots, the commands on their way, the
\* callbacks nested in each other and the steps of callOnDeactivate() cannot be told
\* apart from requests that are open until they are answered once, and a charge that
\* is given up with nothing open.
THEOREM ExecutorKeepsPromise == Disciplined => (Spec => ImplementsExecutor)
<1> SUFFICES ASSUME Disciplined PROVE Spec => ImplementsExecutor
  OBVIOUS
<1>1. Init => Promise!Init
  BY ExecutorAssumption DEF Init, Promise!Init, Outcome, Leaving, Reqs
<1>2. Inv3 /\ [Next]_vars => Inv3'
  BY NextInv3
<1>3. Inv3 /\ [Next]_vars => [Promise!Next]_Promise!vars
  BY NextPromised
<1> QED
  BY <1>1, <1>2, <1>3, InitInv3, PTL DEF Spec, ImplementsExecutor, Promise!Spec
=============================================================================
