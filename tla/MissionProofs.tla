----------------------------- MODULE MissionProofs -----------------------------
(***************************************************************************)
(* MissionExecutor implements Mission: under the condition of AbortHolds,   *)
(* its items come in order, and an interruption, a crash, an abort or an    *)
(* answer after an abort never moves it to another place.  The proof        *)
(* rests on CoreInv, CalmInv, AbortInv and KeepInv, and on PlaceInv, which  *)
(* says that what runs or is flown is the item at the index.                *)
(* From the same invariants, and GroundInv, which says that the mission     *)
(* goes on in the air or with a takeoff ahead of it: a mission that takes   *)
(* off after each of its landings does not fly on from the ground.          *)
(***************************************************************************)
EXTENDS MissionExecutorStatesProofs

PlaceInv ==
  /\ valid <=> mission \in RunnableMissions
  /\ ~Persistence => file = NoFile
  /\ TrajC /\ OnSegment => traj.at = index
  /\ HeadIs("action") /\ todo[1].arg # "onFailure" /\ todo[1].done.k = "next"
       => IndexValid(index) /\ Item(index) = todo[1].arg

\* A step of the mission, and what is known before it and of the state after.
MissionStep == Promise!Next \/ UNCHANGED Promise!vars
Known == CoreInv /\ CalmInv /\ AbortInv

-----------------------------------------------------------------------------
(* The phases of a mission.                                                *)

\* The phase in words of the proofs.
LEMMA StageIs ==
  ASSUME CoreInv
  PROVE  /\ ~active => Stage = "idle"
         /\ active /\ (aborted \/ HeadIs("abort")) => Stage = "aborted"
         /\ active /\ ~aborted /\ ~HeadIs("abort") /\ Resuming => Stage = "resuming"
         /\ active /\ ~aborted /\ ~HeadIs("abort") /\ ~Resuming => Stage = "running"
<1>1. active => (Top("abort") <=> HeadIs("abort"))
  <2>1. todo \in Seq(Frames)
    BY DEF CoreInv, TypeOK
  <2> QED  BY <2>1 DEF Top, HeadIs, Idle
<1> QED  BY <1>1 DEF Stage

LEMMA NextStageIs ==
  ASSUME CoreInv'
  PROVE  /\ ~active' => Stage' = "idle"
         /\ active' /\ (aborted' \/ HeadIs("abort")') => Stage' = "aborted"
         /\ active' /\ ~aborted' /\ ~HeadIs("abort")' /\ Resuming' => Stage' = "resuming"
         /\ active' /\ ~aborted' /\ ~HeadIs("abort")' /\ ~Resuming' => Stage' = "running"
<1>1. active' => (Top("abort")' <=> HeadIs("abort")')
  <2>1. todo' \in Seq(Frames)
    BY DEF CoreInv, TypeOK
  <2> QED  BY <2>1 DEF Top, HeadIs, Idle
<1> QED  BY <1>1 DEF Stage

\* The place stays, and the phase does, or the mission goes on or is aborted.
LEMMA StagePasses ==
  ASSUME UNCHANGED <<mission, index, file>>,
         \/ Stage' = Stage
         \/ Stage = "resuming" /\ Stage' = "running"
         \/ Stage \in {"resuming", "running"} /\ Stage' = "aborted"
  PROVE  MissionStep
<1>1. CASE Stage' = Stage
  BY <1>1 DEF MissionStep, Promise!vars
<1>2. CASE Stage = "resuming" /\ Stage' = "running"
  BY <1>2 DEF MissionStep, Promise!Next, Promise!Go
<1>3. CASE Stage \in {"resuming", "running"} /\ Stage' = "aborted"
  BY <1>3 DEF MissionStep, Promise!Next, Promise!Abort
<1> QED  BY <1>1, <1>2, <1>3

\* A step that leaves the place alone may abort the mission or let it go on,
\* but it does not let it resume again.
LEMMA StageMoves ==
  ASSUME CoreInv, CoreInv', active, ~HeadIs("abort"),
         UNCHANGED <<mission, index, file, active>>, aborted' = aborted,
         HeadIs("abort")' \/ aborted \/ (Resuming' => Resuming)
  PROVE  MissionStep
<1>1. CASE aborted
  <2>1. Stage = "aborted" /\ Stage' = "aborted"
    BY <1>1, StageIs, NextStageIs
  <2> QED  BY <2>1, StagePasses
<1>2. CASE ~aborted
  <2>1. Stage = "resuming" \/ Stage = "running"
    BY <1>2, StageIs
  <2>2. CASE HeadIs("abort")'
    <3>1. Stage' = "aborted"
      BY <2>2, NextStageIs
    <3> QED  BY <2>1, <3>1, StagePasses
  <2>3. CASE ~HeadIs("abort")' /\ Resuming'
    <3>1. Resuming
      BY <1>2, <2>3
    <3>2. Stage = "resuming" /\ Stage' = "resuming"
      BY <1>2, <2>3, <3>1, StageIs, NextStageIs
    <3> QED  BY <3>2, StagePasses
  <2>4. CASE ~HeadIs("abort")' /\ ~Resuming'
    <3>1. Stage' = "running"
      BY <1>2, <2>4, NextStageIs
    <3> QED  BY <2>1, <3>1, StagePasses
  <2> QED  BY <2>2, <2>3, <2>4
<1> QED  BY <1>1, <1>2

\* The three ways in which the index of a running mission changes.
LEMMA IndexMoves ==
  ASSUME UNCHANGED <<mission, file>>, Stage' = Stage, index \in Int, Len0 \in Nat,
         IndexValid(index),
         \/ Stage = "running" /\ index' = index + 1
         \/ Stage = "running" /\ Item(index) = "custom" /\ index' \in 0 .. Len0 - 1
         \/ Stage = "resuming" /\ Item(index) \in {"rtl", "land"} /\ index' = (index + 1) % Len0
  PROVE  MissionStep
<1>1. index \in Promise!Items /\ Item(index) = Promise!Item /\ Len0 = Len(mission)
      /\ 0 .. Len0 - 1 = Promise!Items
  BY DEF IndexValid, Len0, Item, Promise!Items, Promise!Item
<1>2. CASE Stage = "running" /\ index' = index + 1
  BY <1>1, <1>2 DEF MissionStep, Promise!Next, Promise!Advance
<1>3. CASE Stage = "running" /\ Item(index) = "custom" /\ index' \in 0 .. Len0 - 1
  BY <1>1, <1>3 DEF MissionStep, Promise!Next, Promise!Jump
<1>4. CASE Stage = "resuming" /\ Item(index) \in {"rtl", "land"} /\ index' = (index + 1) % Len0
  BY <1>1, <1>4 DEF MissionStep, Promise!Next, Promise!Skip
<1> QED  BY <1>2, <1>3, <1>4

\* A closure that precedes the items carries the mission on.
LEMMA Preceding ==
  /\ \A c : Precedes(c) => Continues(c) /\ c.k \in {"begin", "resumed", "navigate"}
  /\ ~Precedes(Nothing)
  /\ \A c : c.k \in {"next", "segment", "failure", "nothing"} => ~Precedes(c)
<1>1. \A c : Precedes(c) => Continues(c) /\ c.k \in {"begin", "resumed", "navigate"}
  BY DEF Precedes
<1> QED  BY <1>1, CompletionTypes

\* The phase of a callback whose first frame has the token.
LEMMA TokenStage ==
  ASSUME CoreInv, ~Idle, Carry(todo[1])
  PROVE  Resuming <=> Precedes(todo[1].done)
<1>1. /\ Len(todo) = 1 /\ ~SchedC /\ ~TimerC /\ ~LaterC /\ ~TrajC
  BY TokenPush DEF CoreInv
<1>2. DOMAIN todo = {1}
  BY <1>1, TopFrame DEF CoreInv
<1> QED  BY <1>1, <1>2, Preceding DEF Resuming, SchedC, TimerC, LaterC, TrajC

\* The phase after a step that leaves no frame, one or two.
LEMMA NewStage ==
  ASSUME ~SchedC', ~TimerC', ~LaterC', ~TrajC'
  PROVE  /\ todo' = <<>> => ~Resuming'
         /\ \A f : todo' = <<f>> => (Resuming' <=> Precedes(f.done))
         /\ \A f, g : todo' = <<f, g>> => (Resuming' <=> Precedes(f.done) \/ Precedes(g.done))
<1>1. /\ DOMAIN <<>> = {} /\ \A f : DOMAIN <<f>> = {1} /\ <<f>>[1] = f
      /\ \A f, g : DOMAIN <<f, g>> = {1, 2} /\ <<f, g>>[1] = f /\ <<f, g>>[2] = g
  OBVIOUS
<1>2. Resuming' <=> \E i \in DOMAIN todo' : Precedes(todo'[i].done)
  BY Preceding DEF Resuming, SchedC, TimerC, LaterC, TrajC
<1>3. todo' = <<>> => ~Resuming'
  BY <1>1, <1>2
<1>4. ASSUME NEW f, todo' = <<f>> PROVE Resuming' <=> Precedes(f.done)
  BY <1>1, <1>2, <1>4
<1>5. ASSUME NEW f, NEW g, todo' = <<f, g>>
      PROVE  Resuming' <=> Precedes(f.done) \/ Precedes(g.done)
  <2>1. DOMAIN todo' = {1, 2} /\ todo'[1] = f /\ todo'[2] = g
    BY <1>1, <1>5
  <2> QED  BY <1>2, <2>1
<1> QED  BY <1>3, <1>4, <1>5

-----------------------------------------------------------------------------
(* The steps of a callback.                                                *)

\* The rest of PlaceInv, when neither the mission nor the index moves and no
\* item begins.
LEMMA PlaceStays ==
  ASSUME PlaceInv, UNCHANGED <<mission, valid, file, index>>,
         TrajC' /\ OnSegment' => TrajC /\ OnSegment /\ traj'.at = traj.at,
         ~(HeadIs("action") /\ todo[1].arg # "onFailure" /\ todo[1].done.k = "next")'
  PROVE  PlaceInv'
<1>1. valid' <=> mission' \in RunnableMissions
  BY DEF PlaceInv
<1>2. (TrajC /\ OnSegment => traj.at = index)'
  BY DEF PlaceInv
<1> QED  BY <1>1, <1>2 DEF PlaceInv

\* A step without the token leaves the stage, except by an abort.
LEMMA QuietStages ==
  ASSUME CoreInv, CalmRun, ~Idle, ~Carry(todo[1]), QuietResult,
         todo[1].op \notin {"abort", "aborted"}
  PROVE  Resuming' => Resuming
<1>1. todo \in Seq(Frames) /\ todo # <<>> /\ 1 \in DOMAIN todo /\ active
  BY TopFrame DEF CoreInv
<1>2. PICK fr : Pushes(fr)
  BY DEF QuietResult
<1>3. /\ todo' = fr \o Tail(todo) /\ fr \in Seq(Frames) /\ ~Carries(fr)
  BY <1>2 DEF Pushes, QuietFrames
<1>4. ASSUME NEW i \in DOMAIN todo', Precedes(todo'[i].done)
      PROVE  \E j \in DOMAIN todo : Precedes(todo[j].done)
  <2>1. \/ \E j \in DOMAIN fr : todo'[i] = fr[j]
        \/ \E j \in DOMAIN todo : j # 1 /\ todo'[i] = todo[j]
    BY <1>3, PushedFrames, Zenon DEF CoreInv
  <2>2. \A j \in DOMAIN fr : ~Precedes(fr[j].done)
    BY <1>3, Preceding DEF Carries, Carry
  <2> QED  BY <1>4, <2>1, <2>2
<1>5. Precedes(sched'.done) => Precedes(sched.done)
  BY Preceding DEF QuietResult, SchedC
<1>6. Precedes(timer') => Precedes(timer)
  BY Preceding DEF QuietResult, TimerC
<1>7. later' = later /\ traj' = traj
  BY DEF QuietResult
<1> QED  BY <1>4, <1>5, <1>6, <1>7 DEF Resuming

LEMMA PlaceQuiet ==
  ASSUME CoreInv, CoreInv', CalmInv, PlaceInv, ~Idle, active, ~Carry(todo[1]), QuietResult,
         todo[1].op \notin {"abort", "aborted"}
  PROVE  PlaceInv' /\ MissionStep
<1>1. UNCHANGED <<mission, valid, active, index, aborted, traj, file>>
  BY DEF QuietResult
<1>2. ~HeadIs("abort")
  BY DEF HeadIs
<1>3. aborted \/ (Resuming' => Resuming)
  BY QuietStages DEF CalmInv
<1>4. MissionStep
  BY <1>1, <1>2, <1>3, StageMoves
<1>5. PICK fr : Pushes(fr)
  BY DEF QuietResult
<1>6. QuietFrames(fr) /\ todo' = fr \o Tail(todo)
  BY <1>5 DEF Pushes
<1>7. (HeadIs("action") /\ todo[1].arg # "onFailure" => Carry(todo[1]))'
  BY <1>6, QuietPush DEF CoreInv
<1>8. Carries(todo') => Carries(todo)
  BY <1>6, QuietPush DEF CoreInv
<1>9. ~(HeadIs("action") /\ todo[1].arg # "onFailure")'
  <2>1. todo \in Seq(Frames) /\ todo # <<>> /\ Shape(todo) /\ fr \in Seq(Frames)
    BY <1>6, TopFrame DEF CoreInv, StackInv, QuietFrames
  <2>2. \A i \in DOMAIN todo' : \/ \E j \in DOMAIN fr : todo'[i] = fr[j]
                                \/ \E j \in DOMAIN todo : j # 1 /\ todo'[i] = todo[j]
    BY <1>6, <2>1, PushedFrames, Zenon DEF CoreInv
  <2>3. \A j \in DOMAIN todo : j # 1 => todo[j].op # "action"
    <3>1. DOMAIN todo = 1 .. Len(todo) /\ Len(todo) \in Nat
      BY <2>1
    <3> QED  BY <2>1, <3>1 DEF Shape, Parked
  <2>4. \A j \in DOMAIN fr : fr[j].op = "action" => fr[j].arg = "onFailure"
    BY <1>6 DEF QuietFrames
  <2>5. todo' # <<>> => 1 \in DOMAIN todo'
    <3>1. todo' \in Seq(Frames)
      BY DEF CoreInv, TypeOK
    <3> QED  BY <3>1
  <2> QED  BY <2>2, <2>3, <2>4, <2>5 DEF HeadIs
<1>10. PlaceInv'
  <2>1. TrajC' /\ OnSegment' => TrajC /\ OnSegment /\ traj'.at = traj.at
    BY <1>1 DEF TrajC, OnSegment
  <2> QED  BY <1>1, <1>9, <2>1, PlaceStays
<1> QED  BY <1>4, <1>10

\* abort() and its end leave the mission where it is.
LEMMA PlaceAborts ==
  ASSUME CoreInv, CoreInv', PlaceInv, Aborts
  PROVE  PlaceInv' /\ MissionStep
<1> USE DEF missionVars, stateVars, runVars, pendingVars, worldVars, historyVars
<1>1. active /\ todo[1].op = "abort" /\ ~Idle
  BY AbortResult
<1>2. UNCHANGED <<mission, valid, index, active, file>> /\ aborted'
  BY DEF Aborts
<1>3. Stage = "aborted" /\ Stage' = "aborted"
  BY <1>1, <1>2, StageIs, NextStageIs DEF HeadIs, Idle
<1>4. MissionStep
  BY <1>2, <1>3, StagePasses
<1>5. ~TrajC'
  BY AbortResult DEF TrajC
<1>6. ~(HeadIs("action") /\ todo[1].arg # "onFailure")'
  <2>1. todo' # <<>> => 1 \in DOMAIN todo'
    <3>1. todo' \in Seq(Frames)
      BY DEF CoreInv, TypeOK
    <3> QED  BY <3>1
  <2>2. \A i \in DOMAIN todo' : ~Continues(todo'[i].done)
    BY AbortResult
  <2>3. HeadIs("action")' /\ todo'[1].arg # "onFailure" => Carry(todo'[1])
    BY DEF CoreInv, StackInv
  <2> QED  BY <2>1, <2>2, <2>3 DEF HeadIs, Carry
<1>7. PlaceInv'
  BY <1>2, <1>5, <1>6, PlaceStays
<1> QED  BY <1>4, <1>7

LEMMA PlaceAbortReturns ==
  ASSUME CoreInv, CoreInv', CalmInv, PlaceInv, AbortReturns
  PROVE  PlaceInv' /\ MissionStep
<1> USE DEF missionVars, stateVars, runVars, pendingVars, worldVars, historyVars
<1>1. /\ todo \in Seq(Frames) /\ todo # <<>> /\ 1 \in DOMAIN todo /\ todo[1].op = "aborted"
      /\ Shape(todo) /\ active /\ ~Idle
  BY TopFrame DEF CoreInv, StackInv, AbortReturns, Top
<1>2. UNCHANGED <<mission, valid, index, active, file, aborted, traj>>
  BY DEF AbortReturns
<1>3. aborted
  BY <1>1 DEF CalmInv, CalmRun
<1>4. Stage = "aborted" /\ Stage' = "aborted"
  BY <1>1, <1>2, <1>3, StageIs, NextStageIs
<1>5. MissionStep
  BY <1>2, <1>4, StagePasses
<1>6. ~HeadIs("action")'
  <2>1. todo' = <<>> \o Tail(todo) /\ <<>> \in Seq(Frames) /\ DOMAIN <<>> = {}
    BY DEF AbortReturns, Then
  <2>2. \A i \in DOMAIN todo' : \E j \in DOMAIN todo : j # 1 /\ todo'[i] = todo[j]
    BY <1>1, <2>1, PushedFrames DEF CoreInv
  <2>3. \A j \in DOMAIN todo : j # 1 => todo[j].op # "action"
    <3>1. DOMAIN todo = 1 .. Len(todo) /\ Len(todo) \in Nat
      BY <1>1
    <3> QED  BY <1>1, <3>1 DEF Shape, Parked
  <2>4. todo' # <<>> => 1 \in DOMAIN todo'
    <3>1. todo' \in Seq(Frames)
      BY DEF CoreInv, TypeOK
    <3> QED  BY <3>1
  <2> QED  BY <2>2, <2>3, <2>4 DEF HeadIs
<1>7. PlaceInv'
  <2>1. TrajC' /\ OnSegment' => TrajC /\ OnSegment /\ traj'.at = traj.at
    BY <1>2 DEF TrajC, OnSegment
  <2> QED  BY <1>2, <1>6, <2>1, PlaceStays
<1> QED  BY <1>5, <1>7

-----------------------------------------------------------------------------
(* The steps of a frame that has the token.                                *)

\* What is known of such a step.
LEMMA TokenFacts ==
  ASSUME Known, Step, Carry(todo[1])
  PROVE  /\ ~Idle /\ active /\ ~aborted /\ ~HeadIs("abort")
         /\ todo[1] \in Frames /\ Head(todo) = todo[1] /\ Done = todo[1].done
         /\ todo[1].arg # "onFailure"
         /\ UNCHANGED <<mission, valid, active, aborted, file>>
         /\ todo[1].op # "item" => Continues(Done) /\ Done.k # "failure" /\ IndexValid(index)
         /\ index \in Int /\ Len0 \in Nat
         /\ Resuming <=> Precedes(Done)
         /\ Precedes(Done) => Stage = "resuming"
         /\ ~Precedes(Done) => Stage = "running"
         /\ ~SchedC /\ ~TimerC /\ ~LaterC /\ ~TrajC
         /\ Then(<<>>) => todo' = <<>>
         /\ \A f \in Frames : Then(<<f>>) => todo' = <<f>>
         /\ \A f, g \in Frames : Then(<<f, g>>) => todo' = <<f, g>>
<1> USE DEF missionVars, stateVars, runVars, pendingVars, worldVars, historyVars
<1>1. ~Idle /\ active /\ 1 \in DOMAIN todo /\ todo[1] \in Frames
  BY StepRuns DEF Known
<1>2. Head(todo) = todo[1] /\ Done = todo[1].done
  BY <1>1, TopFrame DEF Known, CoreInv, Done
<1>3. ~aborted
  BY <1>1 DEF Known, AbortInv, Token, Carries
<1>4. todo[1].arg # "onFailure" /\ todo[1].done.k # "failure"
  BY <1>1, <1>3 DEF Known, CalmInv, CalmRun
<1>5. ~HeadIs("abort")
  BY <1>1, FrameTypes, CompletionTypes DEF HeadIs, Carry
<1>6. file' = file
  BY DEF Step, Begin, ItemRuns, Flying, ModeRuns, ModeActionRuns, HoldRuns, HoldStarts,
         ChangeSettingsRuns, CameraRuns, CustomRuns, OnResumeRuns, OnFailureRuns, StoredRun,
         Aborts, AbortReturns, CallRuns, Unmoved
<1>7. UNCHANGED <<mission, valid, active, aborted>>
  BY <1>4, TokenSteps DEF TokenResult, Known
<1>8. /\ \A fr \in Seq(Frames) : fr \o Tail(todo) = fr
      /\ ~SchedC /\ ~TimerC /\ ~LaterC /\ ~TrajC
      /\ index >= 0 /\ (Continues(todo[1].done) => index < Len0)
      /\ index \in Int /\ Len0 \in Nat
  BY <1>1, TokenPush, MissionTypes DEF CoreInv, Known
<1>9. todo[1].op # "item" => Continues(Done) /\ IndexValid(index)
  BY <1>2, <1>8 DEF Carry, IndexValid
<1>10. Resuming <=> Precedes(Done)
  BY <1>1, <1>2, TokenStage DEF Known
<1>11. /\ Precedes(Done) => Stage = "resuming"
       /\ ~Precedes(Done) => Stage = "running"
  BY <1>1, <1>3, <1>5, <1>10, StageIs DEF Known
<1>12. /\ Then(<<>>) => todo' = <<>>
       /\ \A f \in Frames : Then(<<f>>) => todo' = <<f>>
       /\ \A f, g \in Frames : Then(<<f, g>>) => todo' = <<f, g>>
  <2>1. /\ <<>> \in Seq(Frames) /\ \A f \in Frames : <<f>> \in Seq(Frames)
        /\ \A f, g \in Frames : <<f, g>> \in Seq(Frames)
    BY Stacks
  <2> QED  BY <1>8, <2>1 DEF Then
<1> QED  BY <1>1, <1>2, <1>3, <1>4, <1>5, <1>6, <1>7, <1>8, <1>9, <1>10, <1>11, <1>12

\* A step that hands the token on without moving the index, to no action and
\* no segment.
LEMMA TokenPlace ==
  ASSUME Known, CoreInv', PlaceInv, Step, Carry(todo[1]), UNCHANGED index,
         ~(TrajC' /\ OnSegment'),
         ~(HeadIs("action") /\ todo[1].arg # "onFailure" /\ todo[1].done.k = "next")',
         HeadIs("abort")' \/ (Resuming' => Precedes(Done))
  PROVE  PlaceInv' /\ MissionStep
<1>1. /\ active /\ ~aborted /\ ~HeadIs("abort")
      /\ UNCHANGED <<mission, valid, active, aborted, file>>
      /\ Resuming <=> Precedes(Done)
  BY TokenFacts
<1>2. PlaceInv'
  BY <1>1, PlaceStays
<1>3. MissionStep
  BY <1>1, StageMoves DEF Known
<1> QED  BY <1>2, <1>3

\* The heads of the stacks that such steps leave.
LEMMA HeadsNow ==
  /\ todo' = <<>> => \A op : ~HeadIs(op)'
  /\ \A f : todo' = <<f>> => todo'[1] = f /\ \A op : HeadIs(op)' <=> f.op = op
  /\ \A f, g : todo' = <<f, g>> => todo'[1] = f /\ \A op : HeadIs(op)' <=> f.op = op
BY DEF HeadIs

\* One frame or two without a segment: the frames that get the token.
LEMMA TokenFrame ==
  ASSUME Known, CoreInv', PlaceInv, Step, Carry(todo[1]), UNCHANGED <<index>>,
         UNCHANGED <<sched, timer, later, traj>>,
         NEW f \in Frames, Then(<<f>>),
         f.op = "action" => f.done.k # "next",
         f.op = "abort" \/ (Precedes(f.done) => Precedes(Done))
  PROVE  PlaceInv' /\ MissionStep
<1>1. todo' = <<f>> /\ ~SchedC' /\ ~TimerC' /\ ~LaterC' /\ ~TrajC'
  BY TokenFacts DEF SchedC, TimerC, LaterC, TrajC
<1>2. Resuming' <=> Precedes(f.done)
  BY <1>1, NewStage
<1>3. todo'[1] = f /\ \A op : HeadIs(op)' <=> f.op = op
  BY <1>1, HeadsNow
<1> QED  BY <1>1, <1>2, <1>3, TokenPlace

LEMMA TokenFrames ==
  ASSUME Known, CoreInv', PlaceInv, Step, Carry(todo[1]), UNCHANGED <<index>>,
         UNCHANGED <<sched, timer, later, traj>>,
         NEW f \in Frames, NEW g \in Frames, Then(<<f, g>>),
         f.op # "action", ~Precedes(f.done),
         f.op = "abort" \/ (Precedes(g.done) => Precedes(Done))
  PROVE  PlaceInv' /\ MissionStep
<1>1. todo' = <<f, g>> /\ ~SchedC' /\ ~TimerC' /\ ~LaterC' /\ ~TrajC'
  BY TokenFacts DEF SchedC, TimerC, LaterC, TrajC
<1>2. Resuming' <=> Precedes(f.done) \/ Precedes(g.done)
  BY <1>1, NewStage
<1>3. todo'[1] = f /\ \A op : HeadIs(op)' <=> f.op = op
  BY <1>1, HeadsNow
<1> QED  BY <1>1, <1>2, <1>3, TokenPlace

LEMMA PlaceBegin ==
  ASSUME Known, CoreInv', PlaceInv, Step, Begin, Carry(todo[1])
  PROVE  PlaceInv' /\ MissionStep
<1> USE DEF missionVars, stateVars, runVars, pendingVars, worldVars, historyVars
<1>1. todo[1].op = "begin" /\ todo[1] \in Frames /\ Done = todo[1].done
  BY TokenFacts DEF Begin, Top
<1>2. Done.valid /\ Precedes(Done)
  BY <1>1, TokenFacts, FrameTypes, CompletionTypes DEF Continues, Precedes
<1>3. UNCHANGED <<index, sched, timer, later, traj>> /\ index \in Int
  BY TokenFacts DEF Begin
<1> DEFINE c == [Closure("resumed") EXCEPT !.prev = index]
<1>4. Then(<<RunStored, RunItem>>) \/ Then(<<RunAction("onResume", c)>>)
  BY <1>2 DEF Begin
<1>5. CASE Then(<<RunStored, RunItem>>)
  BY <1>2, <1>3, <1>5, SimpleFrames, Preceding, TokenFrames
<1>6. CASE Then(<<RunAction("onResume", c)>>)
  <2> DEFINE f == RunAction("onResume", c)
  <2>1. c \in Completions /\ c.k = "resumed"
    BY <1>3, ResumedClosure
  <2> HIDE DEF c
  <2>2. f \in Frames /\ f.op = "action" /\ f.done.k # "next"
    BY <2>1, NewAction
  <2> HIDE DEF f
  <2>3. Then(<<f>>)
    BY <1>6 DEF f
  <2> QED  BY <1>2, <1>3, <2>2, <2>3, TokenFrame
<1> QED  BY <1>4, <1>5, <1>6

\* A trajectory that begins without a stage that precedes the items.
LEMMA FliesOn ==
  ASSUME Known, Step, Carry(todo[1]), NEW from, NEW to, NEW c, Fly(from, to, c),
         UNCHANGED <<sched, timer, later>>
  PROVE  /\ traj'.at = from /\ traj'.done = c
         /\ ~HeadIs("action")'
         /\ Resuming' => Precedes(c)
<1> DEFINE f == Frame("flying", "", Nothing)
           m == RunMode("own", Nothing)
<1>1. /\ f \in Frames /\ f.op = "flying" /\ f.done = Nothing
      /\ m \in Frames /\ m.op = "mode" /\ m.done = Nothing
  BY SimpleFrames
<1>2. traj' = [at |-> from, end |-> to, options |-> options, done |-> c]
  BY DEF Fly
<1>3. traj'.at = from /\ traj'.done = c
  BY <1>2
<1>4. todo' = <<f>> \/ todo' = <<m, f>>
  <2>1. Then(<<f>>) \/ Then(<<m, f>>)
    <3>1. /\ <<>> \o <<f>> = <<f>> /\ <<m>> \o <<f>> = <<m, f>>
      BY Single, Pair
    <3>2. Then((IF activeMode = "own" THEN <<>> ELSE <<m>>) \o <<f>>)
      BY DEF Fly
    <3> QED  BY <3>1, <3>2
  <2> HIDE DEF f, m
  <2> QED  BY <1>1, <2>1, TokenFacts
<1> HIDE DEF f, m
<1>5. ~HeadIs("action")'
  BY <1>1, <1>4, HeadsNow
<1>6. \A i \in DOMAIN todo' : ~Precedes(todo'[i].done)
  <2>1. /\ DOMAIN <<f>> = {1} /\ <<f>>[1] = f
        /\ DOMAIN <<m, f>> = {1, 2} /\ <<m, f>>[1] = m /\ <<m, f>>[2] = f
    OBVIOUS
  <2>2. \A i \in DOMAIN todo' : todo'[i] = f \/ todo'[i] = m
    BY <1>4, <2>1
  <2> QED  BY <1>1, <2>2, Preceding
<1>7. ~Precedes(sched'.done) /\ ~Precedes(timer') /\ ~Precedes(later')
  BY TokenFacts, Preceding DEF SchedC, TimerC, LaterC
<1>8. Resuming' => Precedes(c)
  BY <1>3, <1>6, <1>7 DEF Resuming
<1> QED  BY <1>3, <1>5, <1>8

LEMMA PlaceItemRuns ==
  ASSUME Known, CoreInv', PlaceInv, Step, ItemRuns, Carry(todo[1])
  PROVE  PlaceInv' /\ MissionStep
<1> USE DEF missionVars, stateVars, runVars, pendingVars, worldVars, historyVars
<1>1. todo[1].op = "item" /\ Done = Nothing /\ ~Precedes(Done)
  BY TokenFacts, FrameTypes, Preceding DEF ItemRuns, Top
<1>2. /\ UNCHANGED <<mission, valid, index, sched, timer, later, active, file>>
      /\ aborted' = aborted
  BY DEF ItemRuns
<1>3. CASE /\ ~IndexValid(index)
           /\ Then(IF activeMode = "own" \/ index = NoIndex
                   THEN <<RunMode("Loiter", Nothing)>> ELSE <<>>)
           /\ UNCHANGED traj
  <2> DEFINE f == RunMode("Loiter", Nothing)
  <2>1. f \in Frames /\ f.op = "mode" /\ f.done = Nothing
    BY SimpleFrames
  <2>2. Then(<<f>>) \/ Then(<<>>)
    BY <1>3
  <2> HIDE DEF f
  <2>3. CASE Then(<<f>>)
    BY <1>2, <1>3, <2>1, <2>3, TokenFrame, Preceding
  <2>4. CASE Then(<<>>)
    <3>1. todo' = <<>> /\ ~SchedC' /\ ~TimerC' /\ ~LaterC' /\ ~TrajC'
      BY <1>2, <1>3, <2>4, TokenFacts DEF SchedC, TimerC, LaterC, TrajC
    <3> QED  BY <1>2, <3>1, NewStage, HeadsNow, TokenPlace
  <2> QED  BY <2>2, <2>3, <2>4
<1>4. CASE /\ index \in Waypoints
           /\ Fly(index, SegmentEnd(index), Closure("segment"))
  <2>1. /\ traj'.at = index /\ ~HeadIs("action")' /\ ~Resuming'
    <3>1. ~Precedes(Closure("segment"))
      BY NewClosures, Preceding
    <3> QED  BY <1>2, <1>4, <3>1, FliesOn
  <2>2. PlaceInv'
    BY <1>2, <2>1 DEF PlaceInv
  <2>3. MissionStep
    BY <1>2, <2>1, TokenFacts, StageMoves DEF Known
  <2> QED  BY <2>2, <2>3
<1>5. CASE /\ IndexValid(index) /\ index \notin Waypoints
           /\ Then(<<RunAction(Item(index), Closure("next"))>>)
           /\ UNCHANGED traj
  <2> DEFINE c == Closure("next")
             f == RunAction(Item(index), c)
  <2>1. c \in Completions /\ c.k = "next"
    BY NewClosures
  <2> HIDE DEF c
  <2>2. Item(index) \in Actions
    <3>1. valid /\ mission \in Seq(Items)
      BY TokenPush, TokenFacts, MissionTypes DEF Known, CoreInv
    <3>2. index + 1 \in DOMAIN mission /\ index \in 0 .. Len0 - 1
      BY <1>5, <3>1, TokenFacts DEF IndexValid, Len0
    <3>3. Item(index) # "undefined" /\ Item(index) # "waypoint" /\ Item(index) \in Items
      BY <1>5, <3>1, <3>2 DEF Known, CoreInv, TokenInv, Item, Waypoints
    <3> QED  BY <3>3 DEF Items
  <2>3. f \in Frames /\ f.op = "action" /\ f.done = c /\ f.arg = Item(index)
    BY <2>1, <2>2, NewAction
  <2> HIDE DEF f
  <2>4. todo' = <<f>> /\ ~SchedC' /\ ~TimerC' /\ ~LaterC' /\ ~TrajC'
    <3>1. Then(<<f>>)
      BY <1>5 DEF f, c
    <3> QED  BY <1>2, <1>5, <2>3, <3>1, TokenFacts DEF SchedC, TimerC, LaterC, TrajC
  <2>5. ~Resuming'
    BY <2>1, <2>3, <2>4, NewStage, Preceding
  <2>6. todo'[1].arg = Item(index)
    BY <2>3, <2>4, HeadsNow
  <2>7. IndexValid(index)' /\ Item(index)' = Item(index)
    BY <1>2, <1>5 DEF IndexValid, Item, Len0
  <2>8. PlaceInv'
    BY <1>2, <2>4, <2>6, <2>7 DEF PlaceInv
  <2>9. MissionStep
    BY <1>2, <2>5, TokenFacts, StageMoves DEF Known
  <2> QED  BY <2>8, <2>9
<1> QED  BY <1>3, <1>4, <1>5 DEF ItemRuns

LEMMA PlaceModeRuns ==
  ASSUME Known, CoreInv', PlaceInv, Step, ModeRuns, Carry(todo[1])
  PROVE  PlaceInv' /\ MissionStep
<1> USE DEF missionVars, stateVars, runVars, pendingVars, worldVars, historyVars
<1>1. /\ todo[1].op = "mode" /\ todo[1] \in Frames /\ Done = todo[1].done
      /\ Done \in Closures /\ Done.k # "failure"
  BY TokenFacts, FrameTypes DEF ModeRuns, Top
<1>2. UNCHANGED <<mission, valid, index, timer, later, traj, active, file>>
  BY DEF ModeRuns
<1>3. CASE sched' = [mode |-> Arg, done |-> Done] /\ Then(<<>>)
  <2>1. todo' = <<>> /\ sched'.done = Done
    BY <1>3, TokenFacts
  <2>2. Resuming' => Precedes(Done)
    <3>1. DOMAIN <<>> = {}
      OBVIOUS
    <3>2. ~Precedes(timer) /\ ~Precedes(later) /\ ~(traj.at # NoIndex /\ Precedes(traj.done))
      BY TokenFacts, Preceding DEF TimerC, LaterC, TrajC
    <3> QED  BY <1>2, <2>1, <3>1, <3>2 DEF Resuming
  <2>3. ~TrajC'
    BY <1>2, TokenFacts DEF TrajC
  <2> QED  BY <1>2, <2>1, <2>2, <2>3, HeadsNow, TokenPlace
<1>4. CASE sched' = NoSched /\ Then(ModeFailed(Done))
  <2>1. Done.fail = "abort"
    BY <1>1, CompletionTypes
  <2>2. Then(<<Abort>>)
    BY <1>4, <2>1 DEF ModeFailed
  <2>3. todo' = <<Abort>> /\ Abort.op = "abort"
    BY <2>2, TokenFacts, SimpleFrames
  <2>4. HeadIs("abort")' /\ ~HeadIs("action")'
    BY <2>3, HeadsNow
  <2>5. ~TrajC'
    BY <1>2, TokenFacts DEF TrajC
  <2> QED  BY <1>2, <2>4, <2>5, TokenPlace
<1> QED  BY <1>3, <1>4 DEF ModeRuns

\* An action that has the token runs for an item, or while the mission resumes.
LEMMA TokenAction ==
  ASSUME Known, Step, Carry(todo[1]), NEW name, Action(name)
  PROVE  /\ todo[1].op = "action" /\ todo[1].arg = name /\ ~Top("restore")
         /\ Done \in Completions /\ Done \in Closures /\ Done.k # "failure"
<1>1. Done \in Completions /\ Done \in Closures /\ Nothing \in Completions
  BY ActionTop, CompletionTypes DEF Known
<1>2. todo[1].op = "action" /\ ~Top("restore")
  <2>1. ~(/\ todo[1].op = "restore" /\ ~Carry(todo[1]))
    OBVIOUS
  <2> QED  BY <2>1, ActionTop DEF Known
<1>3. todo[1].arg = name
  BY TokenFacts DEF Action, Arg
<1> QED  BY <1>1, <1>2, <1>3, CompletionTypes

\* An action that hands its closure to a mode, to a call or to the timer.
LEMMA PlacePasses ==
  ASSUME Known, CoreInv', PlaceInv, Step, Carry(todo[1]),
         ModeActionRuns \/ HoldRuns \/ ChangeSettingsRuns \/ CameraRuns
  PROVE  PlaceInv' /\ MissionStep
<1> USE DEF missionVars, stateVars, runVars, pendingVars, worldVars, historyVars
<1>1. UNCHANGED <<index, sched, timer, later, traj>>
  BY DEF ModeActionRuns, HoldRuns, ChangeSettingsRuns, CameraRuns, Unmoved
<1>2. CASE ModeActionRuns
  <2>1. PICK name \in DOMAIN ModeOf : Action(name) /\ Then(<<RunMode(ModeOf[name], Done)>>)
    BY <1>2 DEF ModeActionRuns
  <2>2. Done \in Closures
    BY <2>1, TokenAction
  <2>3. ModeOf[name] \in Modes \ {"own"}
    BY DEF ModeOf, Modes
  <2> DEFINE f == RunMode(ModeOf[name], Done)
  <2>4. f \in Frames /\ f.op = "mode" /\ f.done = Done
    BY <2>2, <2>3, NewMode
  <2>5. Then(<<f>>)
    BY <2>1
  <2> HIDE DEF f
  <2> QED  BY <1>1, <2>4, <2>5, TokenFrame
<1>3. CASE HoldRuns
  <2> DEFINE f == RunMode("Loiter", Nothing)
             g == Frame("hold", "", Done)
  <2>1. Done \in Completions
    BY <1>3, TokenAction DEF HoldRuns
  <2>2. f \in Frames /\ f.op = "mode" /\ f.done = Nothing
    BY SimpleFrames
  <2>3. g \in Frames /\ g.done = Done
    BY <2>1, NewHold
  <2>4. Then(<<f, g>>)
    BY <1>3 DEF HoldRuns
  <2> HIDE DEF f, g
  <2> QED  BY <1>1, <2>2, <2>3, <2>4, TokenFrames, Preceding
<1>4. CASE ChangeSettingsRuns \/ CameraRuns
  <2>1. PICK name : Action(name)
    BY <1>4 DEF ChangeSettingsRuns, CameraRuns
  <2>2. Done \in Closures /\ ~Top("restore")
    BY <2>1, TokenAction
  <2>3. Then(<<Call(Done)>>)
    BY <1>4, <2>2 DEF ChangeSettingsRuns, CameraRuns
  <2> DEFINE f == Call(Done)
  <2>4. f \in Frames /\ f.op = "call" /\ f.done = Done
    BY <2>2, NewCall
  <2>5. Then(<<f>>)
    BY <2>3
  <2> HIDE DEF f
  <2> QED  BY <1>1, <2>4, <2>5, TokenFrame
<1> QED  BY <1>2, <1>3, <1>4

LEMMA PlaceHoldStarts ==
  ASSUME Known, CoreInv', PlaceInv, Step, HoldStarts, Carry(todo[1])
  PROVE  PlaceInv' /\ MissionStep
<1> USE DEF missionVars, stateVars, runVars, pendingVars, worldVars, historyVars
<1>1. UNCHANGED <<index, sched, later, traj>> /\ timer' = Done /\ todo' = <<>>
  BY TokenFacts DEF HoldStarts
<1>2. Resuming' => Precedes(Done)
  <2>1. DOMAIN <<>> = {}
    OBVIOUS
  <2>2. ~Precedes(sched.done) /\ ~Precedes(later) /\ ~(traj.at # NoIndex /\ Precedes(traj.done))
    BY TokenFacts, Preceding DEF SchedC, LaterC, TrajC
  <2> QED  BY <1>1, <2>1, <2>2 DEF Resuming
<1>3. ~TrajC'
  BY <1>1, TokenFacts DEF TrajC
<1> QED  BY <1>1, <1>2, <1>3, HeadsNow, TokenPlace

\* A custom action completes, aborts the mission or sets another index.
LEMMA PlaceCustomRuns ==
  ASSUME Known, CoreInv', PlaceInv, KeepInv, Step, NEW outcome \in CustomOutcomes,
         CustomRuns(outcome), Carry(todo[1])
  PROVE  PlaceInv' /\ MissionStep
<1> USE DEF missionVars, stateVars, runVars, pendingVars, worldVars, historyVars
<1>1. /\ todo[1].op = "action" /\ todo[1].arg = "custom" /\ Done \in Closures
      /\ Done = todo[1].done
  BY TokenAction, TokenFacts DEF CustomRuns
<1>2. HeadIs("action") /\ todo[1].arg # "onFailure" /\ todo[1].done.k = "next"
  <2>1. HeadIs("action")
    BY <1>1, TokenFacts DEF HeadIs, Idle
  <2> QED  BY <1>1, <2>1 DEF KeepInv, FramesKept
<1>3. IndexValid(index) /\ Item(index) = "custom"
  BY <1>1, <1>2 DEF PlaceInv
<1>4. ~Precedes(Done)
  BY <1>1, <1>2, Preceding
<1>5. UNCHANGED <<sched, timer, traj, active>> /\ aborted' = aborted
  BY DEF CustomRuns, Unmoved
<1> DEFINE f == Call(Done)
<1>6. f \in Frames /\ f.op = "call" /\ f.done = Done
  BY <1>1, NewCall
<1>7. CASE outcome = "later"
  <2>1. todo' = <<>> /\ later' = Done /\ UNCHANGED index
    BY <1>7, TokenFacts DEF CustomRuns
  <2>2. Resuming' => Precedes(Done)
    <3>1. DOMAIN <<>> = {}
      OBVIOUS
    <3>2. ~Precedes(sched.done) /\ ~Precedes(timer) /\ ~(traj.at # NoIndex /\ Precedes(traj.done))
      BY TokenFacts, Preceding DEF SchedC, TimerC, TrajC
    <3> QED  BY <1>5, <2>1, <3>1, <3>2 DEF Resuming
  <2>3. ~TrajC'
    BY <1>5, TokenFacts DEF TrajC
  <2> QED  BY <2>1, <2>2, <2>3, HeadsNow, TokenPlace
<1>8. CASE outcome = "abort"
  <2>1. Then(<<Abort, f>>) /\ UNCHANGED <<index, later>>
    BY <1>8 DEF CustomRuns
  <2> HIDE DEF f
  <2> QED  BY <1>5, <1>6, <2>1, SimpleFrames, Preceding, TokenFrames
<1>9. CASE outcome \notin {"later", "abort", "jump"}
  <2>1. Then(<<f>>) /\ UNCHANGED <<index, later>>
    BY <1>9 DEF CustomRuns
  <2> HIDE DEF f
  <2> QED  BY <1>5, <1>6, <2>1, TokenFrame
<1>10. CASE outcome = "jump"
  <2>1. Then(<<f>>) /\ UNCHANGED later /\ index' \in 0 .. Len0 - 1
    BY <1>10 DEF CustomRuns
  <2> HIDE DEF f
  <2>2. todo' = <<f>> /\ ~SchedC' /\ ~TimerC' /\ ~LaterC' /\ ~TrajC'
    BY <1>5, <1>6, <2>1, TokenFacts DEF SchedC, TimerC, LaterC, TrajC
  <2>3. ~Resuming' /\ ~HeadIs("action")' /\ ~HeadIs("abort")'
    BY <1>4, <1>6, <2>2, NewStage, HeadsNow
  <2>4. Stage = "running" /\ Stage' = "running"
    BY <1>4, <1>5, <2>3, TokenFacts, NextStageIs
  <2>5. MissionStep
    BY <1>3, <2>1, <2>4, TokenFacts, IndexMoves
  <2>6. PlaceInv'
    BY <2>2, <2>3, TokenFacts DEF PlaceInv
  <2> QED  BY <2>5, <2>6
<1> QED  BY <1>7, <1>8, <1>9, <1>10

\* onResume calls back, skips a landing or takes off first.
LEMMA PlaceOnResume ==
  ASSUME Known, CoreInv', PlaceInv, KeepInv, Step, NEW known \in LandedKnown,
         OnResumeRuns(known), Carry(todo[1])
  PROVE  PlaceInv' /\ MissionStep
<1> USE DEF missionVars, stateVars, runVars, pendingVars, worldVars, historyVars
<1>1. /\ todo[1].op = "action" /\ todo[1].arg = "onResume" /\ Done \in Closures
      /\ Done \in Completions /\ Done = todo[1].done
  BY TokenAction, TokenFacts DEF OnResumeRuns
<1>2. Done.k = "resumed"
  <2>1. HeadIs("action")
    BY <1>1, TokenFacts DEF HeadIs, Idle
  <2> QED  BY <1>1, <2>1 DEF KeepInv, FramesKept
<1>3. Precedes(Done) /\ IndexValid(index)
  BY <1>1, <1>2, TokenFacts DEF Precedes
<1>4. UNCHANGED <<sched, timer, later, traj, active>> /\ aborted' = aborted
  BY DEF OnResumeRuns, Unmoved
<1> DEFINE f == Call(Done)
           d == [Done EXCEPT !.k = "navigate"]
           t == RunAction("takeoff", d)
<1>5. f \in Frames /\ f.op = "call" /\ f.done = Done
  BY <1>1, NewCall
<1>6. t \in Frames /\ t.op = "action" /\ t.done.k = "navigate"
  <2>1. d \in Completions /\ d.k = "navigate"
    BY <1>1, RenamedClosure
  <2> HIDE DEF d
  <2> QED  BY <2>1, NewAction DEF Actions
<1>7. CASE Then(<<f>>) /\ UNCHANGED index
  <2> HIDE DEF f
  <2> QED  BY <1>3, <1>4, <1>5, <1>7, TokenFrame
<1>8. CASE Then(<<t>>) /\ UNCHANGED index
  <2> HIDE DEF t
  <2> QED  BY <1>3, <1>4, <1>6, <1>8, TokenFrame
<1>9. CASE /\ Item(index) \in {"rtl", "land"}
           /\ index' = (index + 1) % Len0
           /\ Then(<<f>>)
  <2> HIDE DEF f
  <2>1. todo' = <<f>> /\ ~SchedC' /\ ~TimerC' /\ ~LaterC' /\ ~TrajC'
    BY <1>4, <1>5, <1>9, TokenFacts DEF SchedC, TimerC, LaterC, TrajC
  <2>2. Resuming' /\ ~HeadIs("action")' /\ ~HeadIs("abort")'
    BY <1>3, <1>5, <2>1, NewStage, HeadsNow
  <2>3. Stage = "resuming" /\ Stage' = "resuming"
    BY <1>3, <1>4, <2>2, TokenFacts, NextStageIs
  <2>4. MissionStep
    BY <1>3, <1>9, <2>3, TokenFacts, IndexMoves
  <2>5. PlaceInv'
    BY <2>1, <2>2, TokenFacts DEF PlaceInv
  <2> QED  BY <2>4, <2>5
<1> QED  BY <1>7, <1>8, <1>9 DEF OnResumeRuns

\* The completion of an item moves the index to the next one; the completion of
\* a resumption lets the mission go on.
LEMMA PlaceCallRuns ==
  ASSUME Known, CoreInv', PlaceInv, Step, CallRuns, Carry(todo[1])
  PROVE  PlaceInv' /\ MissionStep
<1> USE DEF missionVars, stateVars, runVars, pendingVars, worldVars, historyVars
<1>1. /\ todo[1].op = "call" /\ todo[1] \in Frames /\ Done = todo[1].done
      /\ Done \in Closures /\ Continues(Done) /\ Done.valid
      /\ Done.k \in {"next", "resumed", "navigate"} /\ Done \in Completions
  <2>1. todo[1].op = "call" /\ todo[1] \in Frames /\ Done = todo[1].done
    BY TokenFacts DEF CallRuns, Top
  <2>2. Done \in Closures /\ Continues(Done) /\ Done.k # "failure"
    BY <2>1, TokenFacts, FrameTypes
  <2>3. Done \in Completions /\ Done.k \in {"nothing", "next", "resumed", "navigate", "failure"}
    BY <2>2, CompletionTypes
  <2> QED  BY <2>1, <2>2, <2>3 DEF Continues
<1>2. UNCHANGED <<sched, timer, later, active, file>> /\ aborted' = aborted
  BY DEF CallRuns
<1>3. CASE Done.k = "next"
  <2>1. index' = index + 1 /\ Then(<<RunItem>>) /\ traj' = traj
    BY <1>1, <1>3 DEF CallRuns
  <2>2. ~Precedes(Done) /\ IndexValid(index)
    BY <1>1, <1>3, TokenFacts, Preceding
  <2>3. todo' = <<RunItem>> /\ ~SchedC' /\ ~TimerC' /\ ~LaterC' /\ ~TrajC'
    BY <1>2, <2>1, TokenFacts, SimpleFrames DEF SchedC, TimerC, LaterC, TrajC
  <2>4. ~Resuming' /\ ~HeadIs("action")' /\ ~HeadIs("abort")'
    <3> DEFINE f == RunItem
    <3>1. f.op = "item" /\ f.done = Nothing /\ todo' = <<f>>
      BY <2>3, SimpleFrames
    <3> HIDE DEF f
    <3>2. ~Resuming'
      BY <2>3, <3>1, NewStage, Preceding
    <3>3. \A op : HeadIs(op)' <=> f.op = op
      BY <3>1, HeadsNow
    <3> QED  BY <3>1, <3>2, <3>3
  <2>5. Stage = "running" /\ Stage' = "running"
    BY <1>2, <2>2, <2>4, TokenFacts, NextStageIs
  <2>6. MissionStep
    BY <1>2, <2>1, <2>2, <2>5, TokenFacts, IndexMoves
  <2>7. PlaceInv'
    BY <2>3, <2>4, TokenFacts DEF PlaceInv
  <2> QED  BY <2>6, <2>7
<1>4. CASE Done.k = "resumed"
  <2>1. Resumed /\ UNCHANGED <<index, traj>> /\ Precedes(Done)
    BY <1>1, <1>4 DEF CallRuns, Precedes
  <2>2. CASE Then(<<RunStored, RunItem>>)
    BY <1>2, <2>1, <2>2, SimpleFrames, Preceding, TokenFrames
  <2>3. CASE Then(<<RunItem>>)
    BY <1>2, <2>1, <2>3, SimpleFrames, Preceding, TokenFrame
  <2> QED  BY <2>1, <2>2, <2>3 DEF Resumed
<1>5. CASE Done.k = "navigate"
  <2>1. Navigates /\ UNCHANGED index /\ Precedes(Done)
    BY <1>1, <1>5 DEF CallRuns, Precedes
  <2> DEFINE d == [Done EXCEPT !.k = "resumed"]
             f == Call(d)
  <2>2. d \in Completions /\ d \in Closures /\ d.k = "resumed"
    BY <1>1, RenamedClosure, CompletionTypes
  <2> HIDE DEF d
  <2>3. CASE Fly(0, 0, d)
    <3>1. ~HeadIs("action")' /\ traj'.done = d
      BY <1>2, <2>3, FliesOn
    <3>2. ~(TrajC' /\ OnSegment')
      BY <2>2, <3>1 DEF OnSegment
    <3> QED  BY <2>1, <3>1, <3>2, TokenPlace
  <2>4. CASE Then(<<f>>) /\ UNCHANGED traj
    <3>1. f \in Frames /\ f.op = "call"
      BY <2>2, NewCall
    <3> HIDE DEF f
    <3> QED  BY <1>2, <2>1, <2>4, <3>1, TokenFrame
  <2> QED  BY <2>1, <2>3, <2>4 DEF Navigates, d
<1> QED  BY <1>1, <1>3, <1>4, <1>5

\* Every step of a callback is one of the mission.
LEMMA PlaceStep ==
  ASSUME Known, CoreInv', KeepInv, PlaceInv, Step
  PROVE  PlaceInv' /\ MissionStep
<1>1. /\ ~Idle /\ active /\ 1 \in DOMAIN todo /\ todo[1] \in Frames
      /\ todo[1].op = "abort" => Aborts
      /\ todo[1].op = "aborted" => AbortReturns
  BY StepRuns DEF Known
<1>2. CASE todo[1].op \in {"abort", "aborted"}
  BY <1>1, <1>2, PlaceAborts, PlaceAbortReturns DEF Known
<1>3. CASE ~Carry(todo[1]) /\ todo[1].op \notin {"abort", "aborted"}
  BY <1>1, <1>3, QuietSteps, PlaceQuiet DEF Known
<1>4. CASE Carry(todo[1])
  <2>1. todo[1].arg # "onFailure" /\ todo[1].op \notin {"abort", "aborted"}
    BY <1>1, <1>4, TokenFacts, FrameTypes, CompletionTypes DEF Carry
  <2>2. ~Flying /\ ~StoredRun /\ ~Aborts /\ ~AbortReturns /\ ~OnFailureRuns
    <3>1. todo[1].op \notin {"flying", "stored"}
      BY <1>1, <1>4, FrameTypes, CompletionTypes DEF Carry
    <3>2. Head(todo) = todo[1] /\ Arg = todo[1].arg
      BY <1>4, TokenFacts DEF Arg
    <3> QED  BY <2>1, <3>1, <3>2 DEF Flying, StoredRun, Aborts, AbortReturns, OnFailureRuns,
                                     Action, Top
  <2>3. CASE \E outcome \in CustomOutcomes : CustomRuns(outcome)
    BY <1>4, <2>3, PlaceCustomRuns
  <2>4. CASE \E known \in LandedKnown : OnResumeRuns(known)
    BY <1>4, <2>4, PlaceOnResume
  <2> QED  BY <1>4, <2>2, <2>3, <2>4, PlaceBegin, PlaceItemRuns, PlaceModeRuns, PlacePasses,
              PlaceHoldStarts, PlaceCallRuns DEF Step
<1> QED  BY <1>2, <1>3, <1>4

-----------------------------------------------------------------------------
(* What comes between callbacks.                                           *)

\* Between callbacks a mission waits, and no step of it is about to run.
LEMMA IdleFacts ==
  ASSUME CoreInv, Idle
  PROVE  /\ \A op : ~HeadIs(op)
         /\ Resuming <=> \/ Precedes(sched.done) \/ Precedes(timer) \/ Precedes(later)
                         \/ TrajC /\ Precedes(traj.done)
<1>1. todo = <<>> /\ DOMAIN todo = {} /\ \A op : ~HeadIs(op)
  BY IdleStack
<1> QED  BY <1>1, Preceding DEF Resuming, TrajC

\* A callback that comes has none of the frames of an action.
LEMMA PlaceComes ==
  ASSUME CoreInv, CoreInv', PlaceInv, Idle, active,
         UNCHANGED <<mission, valid, index, file, active>>, aborted' = aborted,
         TrajC' /\ OnSegment' => TrajC /\ OnSegment /\ traj'.at = traj.at,
         ~HeadIs("action")',
         HeadIs("abort")' \/ aborted \/ (Resuming' => Resuming)
  PROVE  PlaceInv' /\ MissionStep
<1>1. PlaceInv'
  BY PlaceStays
<1>2. ~HeadIs("abort")
  BY IdleFacts
<1> QED  BY <1>1, <1>2, StageMoves

LEMMA PlaceWaypointReached ==
  ASSUME Known, CoreInv', PlaceInv, WaypointReached
  PROVE  PlaceInv' /\ MissionStep
<1> USE DEF missionVars, stateVars, runVars, pendingVars, worldVars, historyVars
<1>1. /\ Idle /\ active /\ traj.at # NoIndex
      /\ UNCHANGED <<mission, valid, sched, timer, later, active, file>> /\ aborted' = aborted
      /\ index' = IF OnSegment /\ traj.done.valid THEN traj.at + 1 ELSE index
      /\ traj'.at = (IF LastReached THEN NoIndex ELSE traj.at + 1)
      /\ traj'.done = traj.done
      /\ index \in Int /\ Len0 \in Nat
  BY Reached DEF Known
<1>2. \A op : ~HeadIs(op)
  BY <1>1, IdleFacts DEF Known
<1>3. TrajC <=> Continues(traj.done)
  BY Reached DEF Known
<1>4. \E s : s \in {<<>>, <<RunItem>>, <<Call(traj.done)>>} /\ todo' = s
  BY Reached DEF Known
<1>5. ~HeadIs("action")' /\ ~HeadIs("abort")'
  <2>1. RunItem.op = "item" /\ Call(traj.done).op = "call"
    BY SimpleFrames DEF Call, Frame
  <2> QED  BY <1>4, <2>1, HeadsNow
<1>6. CASE OnSegment /\ traj.done.valid
  <2>1. TrajC /\ traj.at = index /\ IndexValid(index)
    BY <1>6, Reached DEF Known, PlaceInv, IndexValid
  <2>2. ~aborted
    BY <2>1 DEF Known, AbortInv, Token, Waits
  <2>3. ~SchedC /\ ~TimerC /\ ~LaterC
    BY <2>1, Reached DEF Known
  <2>4. ~Precedes(sched.done) /\ ~Precedes(timer) /\ ~Precedes(later) /\ ~Precedes(traj.done)
    BY <1>6, <2>3, Preceding DEF SchedC, TimerC, LaterC, OnSegment
  <2>5. ~Resuming
    BY <1>1, <2>4, IdleFacts DEF Known
  <2>6. ~Resuming'
    <3>1. todo' = <<>> \/ todo' = <<RunItem>>
      BY <1>6, Reached DEF Known
    <3>2. DOMAIN <<>> = {} /\ DOMAIN <<RunItem>> = {1} /\ <<RunItem>>[1] = RunItem
      OBVIOUS
    <3>3. \A i \in DOMAIN todo' : ~Precedes(todo'[i].done)
      BY <3>1, <3>2, SimpleFrames, Preceding
    <3> QED  BY <1>1, <2>4, <3>3 DEF Resuming
  <2>7. Stage = "running" /\ Stage' = "running"
    BY <1>1, <1>2, <1>5, <2>2, <2>5, <2>6, StageIs, NextStageIs DEF Known
  <2>8. index' = index + 1
    BY <1>1, <1>6, <2>1
  <2>9. MissionStep
    BY <1>1, <2>1, <2>7, <2>8, IndexMoves
  <2>10. TrajC' => traj'.at = index'
    BY <1>1, <2>1, <2>8 DEF TrajC
  <2>11. PlaceInv'
    BY <1>1, <1>5, <2>10 DEF PlaceInv
  <2> QED  BY <2>9, <2>11
<1>7. CASE ~(OnSegment /\ traj.done.valid)
  <2>1. index' = index
    BY <1>1, <1>7
  <2>2. ~(TrajC' /\ OnSegment')
    BY <1>1, <1>7 DEF TrajC, OnSegment, Continues
  <2>3. Resuming' => Resuming
    <3>1. todo' \in {<<>>, <<Call(traj.done)>>}
      BY <1>7, Reached DEF Known
    <3>2. \A i \in DOMAIN todo' : todo'[i].done = traj.done
      <4>1. DOMAIN <<>> = {} /\ \A f : DOMAIN <<f>> = {1} /\ <<f>>[1] = f
        OBVIOUS
      <4>2. Call(traj.done).done = traj.done
        BY DEF Call, Frame
      <4> QED  BY <3>1, <4>1, <4>2
    <3> QED  BY <1>1, <3>2 DEF Resuming
  <2> QED  BY <1>1, <1>5, <2>1, <2>2, <2>3, PlaceComes DEF Known
<1> QED  BY <1>6, <1>7

\* The call of a closure that was waited for resumes nothing that was not resumed.
LEMMA Answered ==
  ASSUME CoreInv, Idle, NEW c, todo' = <<Call(c)>>,
         Precedes(c) => Resuming,
         Precedes(sched'.done) => Precedes(sched.done),
         Precedes(timer') => Precedes(timer), Precedes(later') => Precedes(later), traj' = traj
  PROVE  ~HeadIs("action")' /\ (Resuming' => Resuming)
<1> DEFINE f == Call(c)
<1>1. f.op = "call" /\ f.done = c
  BY DEF Call, Frame
<1>2. todo' = <<f>>
  OBVIOUS
<1> HIDE DEF f
<1>3. ~HeadIs("action")'
  BY <1>1, <1>2, HeadsNow
<1>4. ASSUME Resuming' PROVE Resuming
  <2>1. DOMAIN <<f>> = {1} /\ <<f>>[1] = f
    OBVIOUS
  <2>2. \A i \in DOMAIN todo' : todo'[i].done = c
    BY <1>1, <1>2, <2>1
  <2> QED  BY <1>4, <2>2 DEF Resuming
<1> QED  BY <1>3, <1>4

LEMMA PlaceModeCompletes ==
  ASSUME Known, CoreInv', PlaceInv, NEW ok \in BOOLEAN, ModeCompletes(ok)
  PROVE  PlaceInv' /\ MissionStep
<1> USE DEF missionVars, stateVars, runVars, pendingVars, worldVars, historyVars
<1>1. /\ Idle /\ active /\ sched' = NoSched /\ sched.done \in Closures
      /\ UNCHANGED <<mission, valid, active, index, timer, later, traj, file>>
      /\ aborted' = aborted
      /\ todo' = <<Call(sched.done)>> \/ todo' = ModeFailed(sched.done)
  BY DEF ModeCompletes, Known, CoreInv, TypeOK
<1>2. ~Precedes(sched'.done)
  BY <1>1, Preceding DEF NoSched
<1>3. Precedes(sched.done) => Resuming
  BY DEF Resuming
<1>4. TrajC' /\ OnSegment' => TrajC /\ OnSegment /\ traj'.at = traj.at
  BY <1>1 DEF TrajC, OnSegment
<1>5. CASE todo' = <<Call(sched.done)>>
  <2>1. ~HeadIs("action")' /\ (Resuming' => Resuming)
    BY <1>1, <1>2, <1>3, <1>5, Answered DEF Known
  <2> QED  BY <1>1, <1>4, <2>1, PlaceComes DEF Known
<1>6. CASE todo' = ModeFailed(sched.done)
  <2>1. CASE sched.done.fail = "abort"
    <3>1. todo' = <<Abort>> /\ Abort.op = "abort"
      BY <1>6, <2>1, SimpleFrames DEF ModeFailed
    <3>2. HeadIs("abort")' /\ ~HeadIs("action")'
      BY <3>1, HeadsNow
    <3> QED  BY <1>1, <1>4, <3>2, PlaceComes DEF Known
  <2>2. CASE sched.done.fail # "abort"
    <3>1. aborted
      <4>1. sched.done.k = "failure"
        BY <1>1, <2>2, CompletionTypes
      <4> QED  BY <4>1 DEF Known, CalmInv, CalmRun
    <3> DEFINE f == RunMode("Descend", [sched.done EXCEPT !.fail = "ignore"])
    <3>2. f.op = "mode"
      BY DEF RunMode, Frame
    <3>3. todo' = <<f>> \/ todo' = <<>>
      BY <1>6, <2>2 DEF ModeFailed
    <3> HIDE DEF f
    <3>4. ~HeadIs("action")'
      BY <3>2, <3>3, HeadsNow
    <3> QED  BY <1>1, <1>4, <3>1, <3>4, PlaceComes DEF Known
  <2> QED  BY <2>1, <2>2
<1> QED  BY <1>1, <1>5, <1>6

LEMMA PlaceTimerExpires ==
  ASSUME Known, CoreInv', PlaceInv, TimerExpires
  PROVE  PlaceInv' /\ MissionStep
<1> USE DEF missionVars, stateVars, runVars, pendingVars, worldVars, historyVars
<1>1. /\ Idle /\ active /\ timer' = Nothing
      /\ UNCHANGED <<mission, valid, active, index, sched, later, traj, file>>
      /\ aborted' = aborted /\ todo' = <<Call(timer)>>
  BY DEF TimerExpires
<1>2. ~Precedes(timer') /\ (Precedes(timer) => Resuming)
  BY <1>1, Preceding DEF Resuming
<1>3. TrajC' /\ OnSegment' => TrajC /\ OnSegment /\ traj'.at = traj.at
  BY <1>1 DEF TrajC, OnSegment
<1>4. ~HeadIs("action")' /\ (Resuming' => Resuming)
  BY <1>1, <1>2, Answered DEF Known
<1> QED  BY <1>1, <1>3, <1>4, PlaceComes DEF Known

\* Nothing of the mission moves while it is not active.
LEMMA PlaceAway ==
  ASSUME CoreInv, CoreInv', PlaceInv, ~active, ~active',
         UNCHANGED <<mission, valid, index, file, traj, todo>>
  PROVE  PlaceInv' /\ MissionStep
<1>1. Stage = "idle" /\ Stage' = "idle"
  BY StageIs, NextStageIs
<1>2. MissionStep
  BY <1>1, StagePasses
<1>3. PlaceInv'
  BY DEF PlaceInv, TrajC, OnSegment, HeadIs, IndexValid, Item, Len0
<1> QED  BY <1>2, <1>3

LEMMA PlaceLaterCompletes ==
  ASSUME Known, CoreInv', PlaceInv, LaterCompletes
  PROVE  PlaceInv' /\ MissionStep
<1> USE DEF missionVars, stateVars, runVars, pendingVars, worldVars, historyVars
<1>1. /\ Idle /\ later' = Nothing
      /\ UNCHANGED <<mission, valid, active, index, sched, timer, traj, file>>
      /\ aborted' = aborted /\ todo' = IF active THEN <<Call(later)>> ELSE <<>>
  BY DEF LaterCompletes
<1>2. CASE active
  <2>1. ~Precedes(later') /\ (Precedes(later) => Resuming)
    BY <1>1, Preceding DEF Resuming
  <2>2. TrajC' /\ OnSegment' => TrajC /\ OnSegment /\ traj'.at = traj.at
    BY <1>1 DEF TrajC, OnSegment
  <2>3. ~HeadIs("action")' /\ (Resuming' => Resuming)
    BY <1>1, <1>2, <2>1, Answered DEF Known
  <2> QED  BY <1>1, <1>2, <2>2, <2>3, PlaceComes DEF Known
<1>3. CASE ~active
  <2>1. todo' = todo /\ ~active'
    BY <1>1, <1>3, IdleStack DEF Known
  <2> QED  BY <1>1, <1>3, <2>1, PlaceAway DEF Known
<1> QED  BY <1>2, <1>3

\* abort() is called by the user, or as the position is lost.
LEMMA PlaceAbortComes ==
  ASSUME Known, CoreInv', PlaceInv, UserAbort \/ PositionInvalid
  PROVE  PlaceInv' /\ MissionStep
<1> USE DEF missionVars, stateVars, runVars, pendingVars, worldVars, historyVars
<1>1. /\ Idle /\ active
      /\ UNCHANGED <<mission, valid, active, index, traj, file>> /\ aborted' = aborted
      /\ todo' = <<Abort>>
  BY DEF UserAbort, PositionInvalid, Known, CoreInv, TokenInv
<1>2. TrajC' /\ OnSegment' => TrajC /\ OnSegment /\ traj'.at = traj.at
  BY <1>1 DEF TrajC, OnSegment
<1>3. HeadIs("abort")' /\ ~HeadIs("action")'
  <2>1. Abort.op = "abort"
    BY SimpleFrames
  <2> QED  BY <1>1, <2>1, HeadsNow
<1> QED  BY <1>1, <1>2, <1>3, PlaceComes DEF Known

LEMMA PlaceStatusUpdate ==
  ASSUME Known, CoreInv', PlaceInv, StatusUpdate
  PROVE  PlaceInv' /\ MissionStep
<1> USE DEF missionVars, stateVars, runVars, pendingVars, worldVars, historyVars
<1>1. /\ Idle /\ active
      /\ UNCHANGED <<mission, valid, active, index, sched, timer, later, traj, file, todo>>
      /\ aborted' = aborted
  BY DEF StatusUpdate
<1>2. TrajC' /\ OnSegment' => TrajC /\ OnSegment /\ traj'.at = traj.at
  BY <1>1 DEF TrajC, OnSegment
<1>3. ~HeadIs("action")' /\ (Resuming' => Resuming)
  <2>1. ~HeadIs("action")
    BY <1>1, IdleFacts DEF Known
  <2> QED  BY <1>1, <2>1 DEF HeadIs, Resuming
<1> QED  BY <1>1, <1>2, <1>3, PlaceComes DEF Known

LEMMA PlaceLandedChanges ==
  ASSUME Known, CoreInv', PlaceInv, LandedChanges
  PROVE  PlaceInv' /\ MissionStep
<1> USE DEF missionVars, stateVars, runVars, pendingVars, worldVars, historyVars
<1>1. ~active /\ ~active' /\ UNCHANGED <<mission, valid, index, file, traj, todo>>
  BY DEF LandedChanges
<1> QED  BY <1>1, PlaceAway DEF Known

-----------------------------------------------------------------------------
(* What changes the mission, and what begins and ends it.                  *)

\* An inactive mission waits for nothing and has no frame.
LEMMA Inactive ==
  ASSUME CoreInv, ~active
  PROVE  Stage = "idle" /\ ~Token /\ ~TrajC
BY StageIs DEF CoreInv, TokenInv, Token, Waits

\* The file in words of Mission.
LEMMA FilesSaved ==
  /\ NoFile.mission = <<>> /\ NoFile.index = NoIndex
  /\ \A st : Saved(st).mission = mission /\ Saved(st).index = index
BY DEF NoFile, Saved

LEMMA PlaceSetMission ==
  ASSUME Known, CoreInv', PlaceInv, NEW m \in Missions, SetMission(m)
  PROVE  PlaceInv' /\ MissionStep
<1> USE DEF missionVars, stateVars, runVars, pendingVars, worldVars, historyVars
<1>1. /\ Idle /\ ~active /\ mission' = m
      /\ valid' = (m # <<>> /\ \A i \in DOMAIN m : m[i] # "undefined")
      /\ UNCHANGED <<active, traj, file, todo>>
  BY DEF SetMission
<1>2. valid' <=> mission' \in RunnableMissions
  BY <1>1 DEF RunnableMissions
<1>3. ~TrajC' /\ ~HeadIs("action")'
  <2>1. ~TrajC /\ ~HeadIs("action")
    BY <1>1, Inactive, IdleStack DEF Known
  <2> QED  BY <1>1, <2>1 DEF TrajC, HeadIs
<1>4. PlaceInv'
  BY <1>1, <1>2, <1>3 DEF PlaceInv
<1>5. Stage = "idle" /\ Stage' = "idle"
  BY <1>1, StageIs, NextStageIs DEF Known
<1>6. index' = IF file.mission = m /\ file.index \in 0 .. Len(m) - 1
               THEN file.index ELSE NoIndex
  <2>1. CASE Persistence
    BY <2>1 DEF SetMission
  <2>2. CASE ~Persistence
    <3>1. file.mission = <<>> /\ index' = NoIndex
      BY <2>2, FilesSaved DEF PlaceInv, SetMission
    <3>2. file.mission = m => 0 .. Len(m) - 1 = {}
      <4>1. Len(<<>>) = 0
        OBVIOUS
      <4>2. 0 .. 0 - 1 = {}
        OBVIOUS
      <4> QED  BY <3>1, <4>1, <4>2
    <3> QED  BY <3>1, <3>2
  <2> QED  BY <2>1, <2>2
<1>7. Promise!Set(m)
  BY <1>1, <1>5, <1>6 DEF Promise!Set
<1> QED  BY <1>4, <1>7 DEF MissionStep, Promise!Next

LEMMA PlaceResetMission ==
  ASSUME Known, CoreInv', PlaceInv, ResetMission
  PROVE  PlaceInv' /\ MissionStep
<1> USE DEF missionVars, stateVars, runVars, pendingVars, worldVars, historyVars
<1>1. /\ Idle /\ ~active /\ mission' = <<>> /\ valid' = FALSE /\ index' = NoIndex
      /\ UNCHANGED <<active, traj, file, todo>>
  BY DEF ResetMission
<1>2. ~TrajC' /\ ~HeadIs("action")'
  <2>1. ~TrajC /\ ~HeadIs("action")
    BY <1>1, Inactive, IdleStack DEF Known
  <2> QED  BY <1>1, <2>1 DEF TrajC, HeadIs
<1>3. PlaceInv'
  BY <1>1, <1>2 DEF PlaceInv, RunnableMissions
<1>4. Stage = "idle" /\ Stage' = "idle"
  BY <1>1, StageIs, NextStageIs DEF Known
<1>5. Promise!Reset
  BY <1>1, <1>4 DEF Promise!Reset
<1> QED  BY <1>3, <1>5 DEF MissionStep, Promise!Next

LEMMA PlaceActivate ==
  ASSUME Known, CoreInv', PlaceInv, Activate
  PROVE  PlaceInv' /\ MissionStep
<1> USE DEF missionVars, stateVars, runVars, pendingVars, worldVars, historyVars
<1>1. /\ ~active /\ active' /\ ~aborted'
      /\ UNCHANGED <<mission, valid, traj, file>>
  BY DEF Activate
<1>2. index' = IF valid /\ index = NoIndex THEN 0 ELSE index
  BY DEF Activate
<1>3. ~TrajC'
  <2>1. ~TrajC
    BY <1>1, Inactive DEF Known
  <2> QED  BY <1>1, <2>1 DEF TrajC
<1>4. /\ ~HeadIs("action")'
      /\ HeadIs("abort")' \/ (valid /\ Resuming' /\ ~HeadIs("abort")')
  <2>1. CASE valid
    <3> DEFINE c == Closure("begin")
               f == Frame("begin", IF index = NoIndex THEN "start" ELSE "resume", c)
               g == Frame("begin", "resume", c)
    <3>1. Precedes(c)
      BY NewClosures DEF Precedes
    <3> HIDE DEF c
    <3>2. f.op = "begin" /\ f.done = c
      BY DEF Frame
    <3>3. Abort.op = "abort"
      BY SimpleFrames
    <3>4. todo' = <<f>> \/ todo' = <<Abort, g>>
      BY <2>1 DEF Activate, c
    <3> HIDE DEF f, g
    <3>5. CASE todo' = <<f>>
      <4>1. ~HeadIs("action")' /\ ~HeadIs("abort")'
        BY <3>2, <3>5, HeadsNow
      <4>2. 1 \in DOMAIN todo' /\ todo'[1] = f
        <5>1. DOMAIN <<f>> = {1} /\ <<f>>[1] = f
          OBVIOUS
        <5> QED  BY <3>5, <5>1
      <4>3. Resuming'
        BY <3>1, <3>2, <4>2 DEF Resuming
      <4> QED  BY <2>1, <4>1, <4>3
    <3>6. CASE todo' = <<Abort, g>>
      BY <3>3, <3>6, HeadsNow
    <3> QED  BY <3>4, <3>5, <3>6
  <2>2. CASE ~valid
    <3>1. todo' = <<Abort>> /\ Abort.op = "abort"
      BY <2>2, SimpleFrames DEF Activate
    <3> QED  BY <3>1, HeadsNow
  <2> QED  BY <2>1, <2>2
<1>5. PlaceInv'
  BY <1>1, <1>3, <1>4 DEF PlaceInv
<1>6. Stage = "idle"
  BY <1>1, StageIs DEF Known
<1>7. \/ mission \in RunnableMissions /\ Stage' = "resuming"
      \/ Stage' = "aborted"
  BY <1>1, <1>4, NextStageIs DEF PlaceInv
<1>8. index' = IF mission \in RunnableMissions /\ index = NoIndex THEN 0 ELSE index
  BY <1>2 DEF PlaceInv
<1>9. Promise!Start
  BY <1>1, <1>6, <1>7, <1>8 DEF Promise!Start
<1> QED  BY <1>5, <1>9 DEF MissionStep, Promise!Next

LEMMA PlaceDeactivate ==
  ASSUME Known, CoreInv', PlaceInv, NEW mode \in {"own", "Loiter"}, NEW known \in LandedKnown,
         NEW result \in SaveResults, Deactivate(mode, known, result)
  PROVE  PlaceInv' /\ MissionStep
<1> USE DEF missionVars, stateVars, runVars, pendingVars, worldVars, historyVars
<1>1. /\ Idle /\ active /\ ~active'
      /\ UNCHANGED <<mission, valid, todo>>
  BY DEF Deactivate
<1>2. ~HeadIs("action")'
  <2>1. ~HeadIs("action")
    BY <1>1, IdleStack DEF Known
  <2> QED  BY <1>1, <2>1 DEF HeadIs
<1>3. ~TrajC'
  BY <1>1, Inactive, PTL DEF CoreInv, TokenInv, Token, Waits
<1>4. /\ Stage # "idle" /\ Stage' = "idle"
  BY <1>1, StageIs, NextStageIs DEF Known
<1>5. index \in NoIndex .. Len0 /\ index \in Int /\ Len0 \in Nat /\ Len0 = Len(mission)
      /\ NoIndex = -1
  BY MissionTypes DEF Known, CoreInv, TypeOK, Len0, NoIndex
<1>6. CASE Finished(known) /\ index # NoIndex
  <2>1. index' = NoIndex /\ file' = NoFile
    BY <1>6 DEF Deactivate
  <2>2. index >= Len0 - 1
    BY <1>5, <1>6 DEF Finished
  <2>3. Promise!Finish
    BY <1>1, <1>4, <1>5, <1>6, <2>1, <2>2, FilesSaved DEF Promise!Finish, Promise!Nowhere
  <2>4. PlaceInv'
    BY <1>1, <1>2, <1>3, <2>1 DEF PlaceInv
  <2> QED  BY <2>3, <2>4 DEF MissionStep, Promise!Next
<1>7. CASE ~(Finished(known) /\ index # NoIndex)
  <2>1. PICK st : /\ index' = index
                  /\ file' = IF ~Persistence THEN file
                             ELSE IF ~IndexValid(index) THEN NoFile
                             ELSE CASE result = "saved"     -> Saved(st)
                                    [] result = "unopened"  -> file
                                    [] result = "unwritten" -> Garbage
    BY <1>7 DEF Deactivate
  <2>2. /\ file' = file \/ (~IndexValid(index) /\ file' = NoFile)
           \/ (IndexValid(index) /\ (file' = Saved(st) \/ file' = Garbage))
        /\ ~Persistence => file' = file
    BY <2>1, MissionAssumption
  <2>3. index < Len0
    BY <1>5, <1>7 DEF Finished
  <2>4. IndexValid(index) <=> index \in Promise!Items
    BY <1>5 DEF IndexValid, Promise!Items
  <2>5. /\ Saved(st).mission = mission /\ Saved(st).index = index
        /\ NoFile.mission = <<>> /\ NoFile.index = NoIndex
    BY FilesSaved
  <2>6. Promise!Interrupt
    <3> DEFINE saved(f) == [mission |-> f.mission, index |-> f.index]
               after == {saved(file)} \cup (IF index \in Promise!Items
                          THEN {Promise!Here, saved(Garbage)} ELSE {Promise!Nowhere})
    <3>1. [mission |-> file.mission, index |-> file.index]' \in after
      <4>1. CASE file' = file
        BY <4>1
      <4>2. CASE ~IndexValid(index) /\ file' = NoFile
        <5>1. saved(NoFile) = Promise!Nowhere
          BY <2>5 DEF Promise!Nowhere
        <5> QED  BY <2>4, <4>2, <5>1
      <4>3. CASE IndexValid(index) /\ file' = Saved(st)
        <5>1. saved(Saved(st)) = Promise!Here
          BY <2>5 DEF Promise!Here
        <5> QED  BY <2>4, <4>3, <5>1
      <4>4. CASE IndexValid(index) /\ file' = Garbage
        BY <2>4, <4>4
      <4> QED  BY <2>2, <4>1, <4>2, <4>3, <4>4
    <3> QED  BY <1>1, <1>4, <1>5, <2>1, <2>3, <3>1 DEF Promise!Interrupt
  <2>7. PlaceInv'
    BY <1>1, <1>2, <1>3, <2>2 DEF PlaceInv
  <2> QED  BY <2>6, <2>7 DEF MissionStep, Promise!Next
<1> QED  BY <1>6, <1>7

LEMMA PlaceCrash ==
  ASSUME Known, CoreInv', PlaceInv, Crash
  PROVE  PlaceInv' /\ MissionStep
<1> USE DEF missionVars, stateVars, runVars, pendingVars, worldVars, historyVars
<1>1. /\ Idle /\ mission' = <<>> /\ valid' = FALSE /\ ~active' /\ index' = NoIndex
      /\ traj' = NoTraj /\ todo' = todo
      /\ file' = file \/ (active /\ Persistence /\ file' = Garbage)
  BY DEF Crash
<1>2. ~TrajC' /\ ~HeadIs("action")'
  <2>1. ~HeadIs("action")
    BY <1>1, IdleStack DEF Known
  <2> QED  BY <1>1, <2>1 DEF TrajC, NoTraj, HeadIs
<1>3. PlaceInv'
  BY <1>1, <1>2 DEF PlaceInv, RunnableMissions
<1>4. Stage' = "idle" /\ (active => Stage # "idle")
  BY <1>1, StageIs, NextStageIs DEF Known
<1>5. Promise!Restart
  BY <1>1, <1>4 DEF Promise!Restart
<1> QED  BY <1>3, <1>5 DEF MissionStep, Promise!Next

LEMMA PlaceInit == Init => PlaceInv /\ Promise!Init
<1> SUFFICES ASSUME Init PROVE PlaceInv /\ Promise!Init
  OBVIOUS
<1>1. /\ mission = <<>> /\ valid = FALSE /\ active = FALSE /\ index = NoIndex
      /\ traj = NoTraj /\ todo = <<>> /\ file = NoFile
  BY DEF Init, Memory
<1>2. PlaceInv
  BY <1>1 DEF PlaceInv, RunnableMissions, TrajC, NoTraj, HeadIs
<1>3. Promise!Init
  BY <1>1, FilesSaved DEF Promise!Init, Promise!Nowhere, Stage
<1> QED  BY <1>2, <1>3

LEMMA PlaceStuttering ==
  ASSUME PlaceInv, UNCHANGED vars
  PROVE  PlaceInv' /\ MissionStep
<1>1. UNCHANGED <<mission, valid, index, file, active, aborted, traj, sched, timer, later, todo>>
  BY DEF vars, missionVars, stateVars, runVars, pendingVars, worldVars, historyVars
<1>2. Stage' = Stage
  BY <1>1 DEF Stage, Resuming, Top, Idle
<1>3. MissionStep
  BY <1>1, <1>2, StagePasses
<1>4. PlaceInv'
  BY <1>1 DEF PlaceInv, TrajC, OnSegment, HeadIs, IndexValid, Item, Len0
<1> QED  BY <1>3, <1>4

LEMMA PlaceNext ==
  ASSUME Known, CoreInv', KeepInv, PlaceInv, [Next]_vars
  PROVE  PlaceInv' /\ MissionStep
<1>1. CASE Step
  BY <1>1, PlaceStep
<1>2. CASE Answers
  BY <1>2, PlaceWaypointReached, PlaceModeCompletes, PlaceTimerExpires, PlaceLaterCompletes,
     PlaceStatusUpdate DEF Answers
<1>3. CASE Interference
  BY <1>3, PlaceSetMission, PlaceResetMission, PlaceAbortComes, PlaceActivate, PlaceDeactivate,
     PlaceCrash, PlaceModeCompletes, PlaceLandedChanges DEF Interference
<1>4. CASE UNCHANGED vars
  BY <1>4, PlaceStuttering
<1> QED  BY <1>1, <1>2, <1>3, <1>4 DEF Next

\* What runs is the item at the index (runCurrentMissionItem(), runTrajectory(),
\* runAction()), and only a configured file is ever written.
THEOREM PlaceHolds == "abort" \notin StoredOutcomes => (Spec => []PlaceInv)
<1> SUFFICES ASSUME "abort" \notin StoredOutcomes PROVE Spec => []PlaceInv
  OBVIOUS
<1>1. Spec => []AbortInv
  BY AbortHolds
<1>2. Known /\ CoreInv' /\ KeepInv /\ PlaceInv /\ [Next]_vars => PlaceInv'
  BY PlaceNext
<1>3. CoreInv /\ CalmInv /\ AbortInv => Known
  BY DEF Known
<1> QED  BY <1>1, <1>2, <1>3, PlaceInit, CoreHolds, CalmHolds, KeepHolds, PTL DEF Spec

\* MissionExecutor implements Mission, under the condition of AbortHolds: the
\* items come in order, none is left out but by an action that may do so,
\* whatever is aborted, interrupted, answered late or restarted
\* (runNextMissionItem(), onActivate(), onDeactivate(), setMission(), abort()).
THEOREM MissionKeepsPromise == "abort" \notin StoredOutcomes => (Spec => ImplementsMission)
<1> SUFFICES ASSUME "abort" \notin StoredOutcomes PROVE Spec => ImplementsMission
  OBVIOUS
<1>1. Spec => []AbortInv
  BY AbortHolds
<1>2. Spec => []PlaceInv
  BY PlaceHolds
<1>3. Known /\ CoreInv' /\ KeepInv /\ PlaceInv /\ [Next]_vars => [Promise!Next]_(Promise!vars)
  BY PlaceNext DEF MissionStep
<1>4. CoreInv /\ CalmInv /\ AbortInv => Known
  BY DEF Known
<1>5. Init => Promise!Init
  BY PlaceInit
<1> QED  BY <1>1, <1>2, <1>3, <1>4, <1>5, CoreHolds, CalmHolds, KeepHolds, PTL
         DEF Spec, ImplementsMission, Promise!Spec

-----------------------------------------------------------------------------
(* A mission does not fly on from the ground.                              *)

\* Missions that take off before their first waypoint and after every landing,
\* and a node that looks at the landed state when it resumes them.
TakesOff(m) ==
  \A w \in DOMAIN m : m[w] = "waypoint" =>
    \E t \in 1 .. w - 1 : m[t] = "takeoff" /\ \A j \in t .. w - 1 : m[j] \notin {"rtl", "land"}
TakesOffFirst ==
  /\ \A m \in Missions : TakesOff(m)
  /\ OnResume # "none" /\ LandedKnown = {TRUE} /\ Resumable = {}
  /\ "jump" \notin CustomOutcomes /\ "abort" \notin StoredOutcomes

\* From item i on, a takeoff precedes the waypoints; the item may be run.
Ready(i) == \A w \in Waypoints : w >= i => \E t \in i .. w - 1 : Item(t) = "takeoff"
MayRun   == ~landed \/ Ready(index)
MayGoOn  == ~landed \/ Ready(index + 1)
ReadyOn  == Ready(index + 1)
Landers  == {"Rtl", "Land", "Descend"}

\* The closure of a mode is called in the air, or after the item's landing; a
\* mission that is not aborted lands for an item only.
Lifts(c, m, ready) == Continues(c) => m = "Takeoff" \/ (c.k = "next" /\ ready)
Lands(c, m, calm)  == calm /\ m \in Landers => Continues(c)

\* The closure of an item is called when the next item may be run.
Passes(c, on) == Continues(c) => c.k = "next" /\ on

\* What a frame is run with: the item may be run, the next one, is preceded by
\* a takeoff, the vehicle is in the air, the mission was not aborted.
Clear(f, at, on, ready, up, calm) ==
  /\ f.op = "item" => at
  /\ f.op = "flying" => up
  /\ f.op = "mode" => Lifts(f.done, f.arg, ready) /\ Lands(f.done, f.arg, calm)
  /\ f.op = "hold" => Passes(f.done, on)
  /\ f.op = "begin" /\ Continues(f.done) /\ f.arg = "start" => at
  /\ f.op = "call" /\ Continues(f.done) => /\ f.done.k = "next" => on
                                           /\ f.done.k = "resumed" => at
                                           /\ f.done.k = "navigate" => up
  /\ f.op = "action" /\ Continues(f.done) =>
       \/ f.done.k = "next" /\ at
       \/ f.done.k = "resumed" /\ f.arg = "onResume"
       \/ f.done.k = "navigate" /\ f.arg = "takeoff"
IsClear(f) == Clear(f, MayRun, MayGoOn, ReadyOn, ~landed, ~aborted)

SchedClear ==
  /\ sched.mode # NoMode => sched.mode = nav
  /\ Lifts(sched.done, sched.mode, ReadyOn)
  /\ Lands(sched.done, sched.mode, ~aborted)
Flown == active /\ nav = "own" /\ itemState = "Trajectory" /\ traj.at # NoIndex => ~landed
GroundInv ==
  /\ SchedClear
  /\ Passes(timer, MayGoOn) /\ Passes(later, MayGoOn)
  /\ \A i \in DOMAIN todo : IsClear(todo[i])
  /\ Flown

\* The same after a step.
NextClear(f)  == Clear(f, MayRun', MayGoOn', ReadyOn', ~landed', ~aborted')
NextPasses(c) == Passes(c, MayGoOn')
StackClear    == \A i \in DOMAIN todo' : NextClear(todo'[i])

LEMMA NextGround ==
  ASSUME SchedClear', NextPasses(timer'), NextPasses(later'),
         StackClear, Flown'
  PROVE  GroundInv'
BY DEF GroundInv, IsClear, NextClear, NextPasses, StackClear

\* Without a landing or a step to another item, what may be run may be run.
LEMMA MayStays ==
  ASSUME UNCHANGED <<mission, landed, index>>
  PROVE  MayRun' = MayRun /\ MayGoOn' = MayGoOn /\ ReadyOn' = ReadyOn
BY DEF MayRun, MayGoOn, ReadyOn, Ready, Waypoints, Item, Len0

LEMMA ClearStays ==
  ASSUME UNCHANGED <<mission, landed, index>>, aborted => aborted'
  PROVE  /\ \A f : IsClear(f) => NextClear(f)
         /\ \A c : Passes(c, MayGoOn) => NextPasses(c)
         /\ GroundInv /\ UNCHANGED <<sched, nav>> => SchedClear'
<1>1. MayRun' = MayRun /\ MayGoOn' = MayGoOn /\ ReadyOn' = ReadyOn
  BY MayStays
<1>2. \A f : IsClear(f) => NextClear(f)
  BY <1>1 DEF IsClear, NextClear, Clear, Lifts, Lands, Passes
<1>3. \A c : Passes(c, MayGoOn) => NextPasses(c)
  BY <1>1 DEF NextPasses, Passes
<1>4. GroundInv /\ UNCHANGED <<sched, nav>> => SchedClear'
  BY <1>1 DEF GroundInv, SchedClear, Lifts, Lands
<1> QED  BY <1>2, <1>3, <1>4

\* What holds of a frame that has no token and brings no landing.
LEMMA ClearFrames ==
  ASSUME NEW f, ~Continues(f.done), f.op = "item" => MayRun', f.op = "flying" => ~landed',
         f.op = "mode" => aborted' \/ f.arg \notin Landers
  PROVE  NextClear(f)
BY DEF NextClear, Clear, Lifts, Lands, Passes

\* The stacks that the steps leave.
LEMMA ClearStacks ==
  /\ todo' = <<>> => StackClear
  /\ \A f : todo' = <<f>> /\ NextClear(f) => StackClear
  /\ \A f, g : todo' = <<f, g>> /\ NextClear(f) /\ NextClear(g) => StackClear
<1>1. /\ DOMAIN <<>> = {}
      /\ \A f : DOMAIN <<f>> = {1} /\ <<f>>[1] = f
      /\ \A f, g : DOMAIN <<f, g>> = {1, 2} /\ <<f, g>>[1] = f /\ <<f, g>>[2] = g
  OBVIOUS
<1>2. todo' = <<>> => StackClear
  BY <1>1 DEF StackClear
<1>3. ASSUME NEW f, todo' = <<f>>, NextClear(f) PROVE StackClear
  BY <1>1, <1>3 DEF StackClear
<1>4. ASSUME NEW f, NEW g, todo' = <<f, g>>, NextClear(f), NextClear(g) PROVE StackClear
  <2>1. DOMAIN todo' = {1, 2} /\ todo'[1] = f /\ todo'[2] = g
    BY <1>1, <1>4
  <2> QED  BY <1>4, <2>1 DEF StackClear
<1> QED  BY <1>2, <1>3, <1>4

\* The frames after a step that replaces the first one.
LEMMA FramesClear ==
  ASSUME TypeOK, ~Idle, GroundInv, UNCHANGED <<mission, landed, index>>, aborted => aborted',
         NEW fr \in Seq(Frames), todo' = fr \o Tail(todo), \A j \in DOMAIN fr : NextClear(fr[j])
  PROVE  StackClear
<1>1. SUFFICES ASSUME NEW i \in DOMAIN todo' PROVE NextClear(todo'[i])
  BY DEF StackClear
<1>2. \/ \E j \in DOMAIN fr : todo'[i] = fr[j]
      \/ \E j \in DOMAIN todo : j # 1 /\ todo'[i] = todo[j]
  BY PushedFrames, Zenon
<1>3. ASSUME NEW j \in DOMAIN todo, todo'[i] = todo[j] PROVE NextClear(todo'[i])
  <2>1. IsClear(todo[j])
    BY DEF GroundInv
  <2>2. NextClear(todo[j])
    BY <2>1, ClearStays
  <2> QED  BY <1>3, <2>2
<1> QED  BY <1>2, <1>3

\* No step of a callback lands.
LEMMA StepStays == Step => UNCHANGED <<mission, landed>>
BY DEF Step, Begin, ItemRuns, Flying, ModeRuns, ModeActionRuns, HoldRuns, HoldStarts,
       ChangeSettingsRuns, CameraRuns, CustomRuns, OnResumeRuns, OnFailureRuns, StoredRun,
       Aborts, AbortReturns, CallRuns, Unmoved, missionVars, stateVars, runVars, pendingVars,
       worldVars, historyVars

\* The items that may be run.
LEMMA ReadyItems ==
  ASSUME TypeOK, TakesOffFirst
  PROVE  /\ Ready(0)
         /\ Ready(Len0)
         /\ IndexValid(index) => 
              /\ Item(index) \in {"rtl", "land"} => Ready(index + 1)
              /\ (~\E i \in 0 .. index - 1 : Item(i) = "takeoff") => Ready(index)
              /\ Ready(index) /\ Item(index) # "takeoff" => Ready(index + 1)
              /\ Ready(index) => index \notin Waypoints
<1>1. /\ Len0 \in Nat /\ index \in Int /\ DOMAIN mission = 1 .. Len0
  BY MissionTypes DEF Len0
<1>2. TakesOff(mission)
  <2>1. DOMAIN <<>> = {}
    OBVIOUS
  <2> QED  BY <2>1 DEF TypeOK, TakesOffFirst, TakesOff
<1>3. ASSUME NEW w \in Waypoints
      PROVE  \E t \in 0 .. w - 1 : /\ Item(t) = "takeoff"
                                   /\ \A j \in t .. w - 1 : Item(j) \notin {"rtl", "land"}
  <2>1. w \in 0 .. Len0 - 1 /\ w + 1 \in DOMAIN mission /\ mission[w + 1] = "waypoint"
    BY <1>1 DEF Waypoints, Item
  <2>2. PICK t \in 1 .. w : /\ mission[t] = "takeoff"
                            /\ \A j \in t .. w : mission[j] \notin {"rtl", "land"}
    BY <1>2, <2>1 DEF TakesOff
  <2>3. t - 1 \in 0 .. w - 1 /\ Item(t - 1) = "takeoff"
    BY <2>1, <2>2 DEF Item
  <2>4. \A j \in t - 1 .. w - 1 : Item(j) \notin {"rtl", "land"}
    BY <2>1, <2>2 DEF Item
  <2> QED  BY <2>3, <2>4
<1>4. Ready(0)
  BY <1>3 DEF Ready
<1>5. Ready(Len0)
  BY <1>1 DEF Ready, Waypoints
<1>6. ASSUME IndexValid(index), Item(index) \in {"rtl", "land"} PROVE Ready(index + 1)
  <2>1. SUFFICES ASSUME NEW w \in Waypoints, w >= index + 1
                 PROVE  \E t \in index + 1 .. w - 1 : Item(t) = "takeoff"
    BY DEF Ready
  <2>2. PICK t \in 0 .. w - 1 : /\ Item(t) = "takeoff"
                                /\ \A j \in t .. w - 1 : Item(j) \notin {"rtl", "land"}
    BY <1>3
  <2>3. index \notin t .. w - 1
    BY <1>6, <2>2
  <2>4. t \in index + 1 .. w - 1
    BY <1>1, <2>1, <2>2, <2>3 DEF Waypoints
  <2> QED  BY <2>2, <2>4
<1>7. ASSUME IndexValid(index), ~\E i \in 0 .. index - 1 : Item(i) = "takeoff" PROVE Ready(index)
  <2>1. SUFFICES ASSUME NEW w \in Waypoints, w >= index
                 PROVE  \E t \in index .. w - 1 : Item(t) = "takeoff"
    BY DEF Ready
  <2>2. PICK t \in 0 .. w - 1 : Item(t) = "takeoff"
    BY <1>3
  <2>3. t \in index .. w - 1
    BY <1>1, <1>7, <2>1, <2>2 DEF Waypoints
  <2> QED  BY <2>2, <2>3
<1>8. ASSUME IndexValid(index), Ready(index), Item(index) # "takeoff" PROVE Ready(index + 1)
  <2>1. SUFFICES ASSUME NEW w \in Waypoints, w >= index + 1
                 PROVE  \E t \in index + 1 .. w - 1 : Item(t) = "takeoff"
    BY DEF Ready
  <2>2. w \in Int /\ w >= index
    BY <1>1, <2>1 DEF Waypoints
  <2>3. PICK t \in index .. w - 1 : Item(t) = "takeoff"
    BY <1>8, <2>2 DEF Ready
  <2>4. t \in index + 1 .. w - 1
    BY <1>1, <1>8, <2>2, <2>3
  <2> QED  BY <2>3, <2>4
<1>9. ASSUME IndexValid(index), Ready(index) PROVE index \notin Waypoints
  BY <1>1, <1>9 DEF Ready
<1> QED  BY <1>4, <1>5, <1>6, <1>7, <1>8, <1>9

-----------------------------------------------------------------------------
(* The steps of a callback, in the air or before a takeoff.                *)

\* A step without the token brings a landing only after an abort, and the
\* mission flies only as it is told to.
LEMMA GroundQuiet ==
  ASSUME CoreInv, CalmInv, GroundInv, Step, ~Carry(todo[1]),
         todo[1].op \notin {"abort", "aborted"}
  PROVE  GroundInv'
<1> USE DEF missionVars, stateVars, runVars, pendingVars, worldVars, historyVars
<1>1. /\ ~Idle /\ active /\ 1 \in DOMAIN todo /\ todo[1] \in Frames
      /\ Head(todo) = todo[1] /\ Done = todo[1].done /\ Arg = todo[1].arg
  BY StepRuns, TopFrame DEF CoreInv, Done, Arg
<1>2. QuietResult
  BY QuietSteps
<1>3. /\ UNCHANGED <<mission, landed, index, active, traj, later>> /\ aborted' = aborted
      /\ IsClear(todo[1])
  BY <1>1, <1>2, StepStays DEF QuietResult, GroundInv
<1>4. PICK fr : Pushes(fr)
  BY <1>2 DEF QuietResult
<1>5. /\ fr \in Seq(Frames) /\ ~Carries(fr) /\ todo' = fr \o Tail(todo)
  BY <1>4 DEF Pushes, QuietFrames
<1>6. todo[1].op = "action" \/ todo[1].done.k = "failure" => aborted
  BY <1>1, <1>2 DEF CalmInv, CalmRun, QuietResult
<1>7. \A j \in DOMAIN fr : NextClear(fr[j])
  <2>1. \A j \in DOMAIN fr : ~Continues(fr[j].done) /\ fr[j].op # "item"
    BY <1>5 DEF Carries, Carry
  <2>2. \A j \in DOMAIN fr : fr[j].op # "flying"
    <3>1. \A f : DOMAIN <<f>> = {1} /\ <<f>>[1] = f
      OBVIOUS
    <3>2. Abort.op = "abort" /\ Call(Nothing).op = "call"
      BY SimpleFrames DEF Call, Frame
    <3> QED  BY <1>4, <3>1, <3>2 DEF Pushes
  <2>3. \A j \in DOMAIN fr : fr[j].op = "mode" => aborted'
    <3>1. \A f : DOMAIN <<f>> = {1} /\ <<f>>[1] = f
      OBVIOUS
    <3>2. Abort.op = "abort" /\ Call(Nothing).op = "call"
      BY SimpleFrames DEF Call, Frame
    <3> QED  BY <1>3, <1>4, <1>6, <3>1, <3>2 DEF Pushes
  <2> QED  BY <2>1, <2>2, <2>3, ClearFrames
<1>8. StackClear
  BY <1>1, <1>3, <1>5, <1>7, FramesClear DEF CoreInv
<1>9. SchedClear'
  <2>1. CASE todo[1].op # "mode"
    <3>1. UNCHANGED <<sched, nav>>
      BY <1>2, <2>1 DEF QuietResult
    <3> QED  BY <1>3, <3>1, ClearStays
  <2>2. CASE todo[1].op = "mode"
    <3>1. ModeRuns
      BY <2>2, ModeStep
    <3>2. Lands(Done, Arg, ~aborted) /\ ~Continues(Done)
      BY <1>1, <1>3, <2>2 DEF IsClear, Clear, Carry
    <3>3. CASE sched' = [mode |-> Arg, done |-> Done] /\ nav' = Arg
      BY <1>3, <3>2, <3>3 DEF SchedClear, Lifts, Lands
    <3>4. CASE sched' = NoSched
      <4>1. ~Continues(Nothing) /\ NoMode \notin Landers
        BY CompletionTypes DEF NoMode, Landers
      <4> QED  BY <3>4, <4>1 DEF NoSched, SchedClear, Lifts, Lands
    <3> QED  BY <3>1, <3>3, <3>4 DEF ModeRuns
  <2> QED  BY <2>1, <2>2
<1>10. NextPasses(timer') /\ NextPasses(later')
  <2>1. NextPasses(timer) /\ NextPasses(later)
    BY <1>3, ClearStays DEF GroundInv
  <2>2. timer' = timer \/ ~Continues(timer')
    BY <1>2 DEF QuietResult, TimerC
  <2> QED  BY <1>3, <2>1, <2>2 DEF NextPasses, Passes
<1>11. Flown'
  <2>1. CASE todo[1].op = "flying"
    BY <1>3, <2>1 DEF IsClear, Clear, Flown
  <2>2. CASE todo[1].op \in {"mode", "action"}
    <3>1. itemState' = "Other"
      BY <1>2, <2>2 DEF QuietResult
    <3> QED  BY <3>1 DEF Flown
  <2>3. CASE todo[1].op \notin {"flying", "mode", "action"}
    <3>1. UNCHANGED <<nav, itemState>>
      BY <1>2, <2>3 DEF QuietResult
    <3> QED  BY <1>3, <3>1 DEF GroundInv, Flown
  <2> QED  BY <2>1, <2>2, <2>3
<1> QED  BY <1>8, <1>9, <1>10, <1>11, NextGround

\* After an abort nothing may go on, and a landing is fine.
LEMMA GroundAborts ==
  ASSUME CoreInv, GroundInv, Aborts
  PROVE  GroundInv'
<1> USE DEF missionVars, stateVars, runVars, pendingVars, worldVars, historyVars
<1>1. /\ UNCHANGED <<mission, landed, index, active, nav, itemState>> /\ aborted'
      /\ traj'.at = traj.at /\ sched'.mode = sched.mode
      /\ ~Continues(sched'.done) /\ ~Continues(timer') /\ ~Continues(later')
  <2>1. sched' = WithInvalid(sched) /\ sched \in [mode : Modes \cup {NoMode}, done : Closures]
    BY DEF Aborts, CoreInv, TypeOK
  <2>2. sched'.mode = sched.mode
    BY <2>1 DEF WithInvalid
  <2> QED  BY <2>2, AbortResult DEF Aborts
<1>2. ASSUME NEW i \in DOMAIN todo' PROVE NextClear(todo'[i])
  <2>1. /\ ~Continues(todo'[i].done)
        /\ \/ todo'[i].op \in {"action", "aborted"}
           \/ \E n \in DOMAIN todo : n # 1 /\ todo'[i].op = todo[n].op
    BY AbortResult
  <2>2. \A n \in DOMAIN todo : /\ todo[n].op = "item" => MayRun
                               /\ todo[n].op = "flying" => ~landed
    BY DEF GroundInv, IsClear, Clear
  <2>3. MayRun' = MayRun
    BY <1>1, MayStays
  <2>4. (todo'[i].op = "item" => MayRun') /\ (todo'[i].op = "flying" => ~landed')
    BY <1>1, <2>1, <2>2, <2>3
  <2> QED  BY <1>1, <2>1, <2>4, ClearFrames
<1>3. SchedClear' /\ NextPasses(timer') /\ NextPasses(later') /\ Flown'
  BY <1>1 DEF GroundInv, SchedClear, Flown, Lifts, Lands, NextPasses, Passes
<1>4. StackClear
  BY <1>2 DEF StackClear
<1> QED  BY <1>3, <1>4, NextGround

LEMMA GroundAbortReturns ==
  ASSUME CoreInv, GroundInv, AbortReturns
  PROVE  GroundInv'
<1> USE DEF missionVars, stateVars, runVars, pendingVars, worldVars, historyVars
<1>1. UNCHANGED <<mission, landed, index, active, nav, itemState, traj, sched, timer, later>>
      /\ aborted' = aborted
  BY DEF AbortReturns
<1>2. ~Idle /\ todo' = <<>> \o Tail(todo) /\ <<>> \in Seq(Frames) /\ DOMAIN <<>> = {}
  BY DEF AbortReturns, Top, Then
<1>3. StackClear
  BY <1>1, <1>2, FramesClear DEF CoreInv
<1>4. SchedClear' /\ NextPasses(timer') /\ NextPasses(later')
  BY <1>1, ClearStays DEF GroundInv
<1>5. Flown'
  BY <1>1 DEF GroundInv, Flown
<1> QED  BY <1>3, <1>4, <1>5, NextGround

\* A step that hands the token on leaves nothing behind that might fly or land.
LEMMA GroundToken ==
  ASSUME Known, GroundInv, Step, Carry(todo[1]), todo[1].op # "mode",
         UNCHANGED traj \/ ~landed,
         UNCHANGED timer \/ NextPasses(timer'), UNCHANGED later \/ NextPasses(later'),
         StackClear
  PROVE  GroundInv'
<1>1. /\ active' = active /\ aborted' = aborted /\ todo[1].arg # "onFailure"
      /\ ~SchedC /\ ~TimerC /\ ~LaterC
  BY TokenFacts
<1>2. /\ UNCHANGED <<sched, nav>> /\ landed' = landed
      /\ itemState' = itemState \/ itemState' = "Other"
  BY <1>1, TokenSteps, StepStays DEF TokenResult, Known
<1>3. SchedClear'
  BY <1>1, <1>2 DEF GroundInv, SchedClear, Lifts, Lands, SchedC
<1>4. NextPasses(timer') /\ NextPasses(later')
  BY <1>1 DEF NextPasses, Passes, TimerC, LaterC
<1>5. Flown'
  BY <1>1, <1>2 DEF GroundInv, Flown
<1> QED  BY <1>3, <1>4, <1>5, NextGround

\* What may be run after a step that leaves the index.
LEMMA TokenStays ==
  ASSUME Known, Step, UNCHANGED index
  PROVE  MayRun' = MayRun /\ MayGoOn' = MayGoOn /\ ReadyOn' = ReadyOn /\ landed' = landed
BY StepStays, MayStays

LEMMA GroundBegin ==
  ASSUME Known, TakesOffFirst, GroundInv, Step, Begin, Carry(todo[1])
  PROVE  GroundInv'
<1> USE DEF missionVars, stateVars, runVars, pendingVars, worldVars, historyVars
<1>1. /\ todo[1].op = "begin" /\ Continues(Done) /\ Done = todo[1].done /\ Arg = todo[1].arg
      /\ Done.valid /\ 1 \in DOMAIN todo
  BY TokenFacts, StepRuns DEF Begin, Top, Arg, Continues, Known
<1>2. UNCHANGED <<index, traj, timer, later>> /\ OnResume # "none"
  BY DEF Begin, TakesOffFirst
<1>3. Arg = "start" => MayRun
  BY <1>1 DEF GroundInv, IsClear, Clear
<1>4. CASE Arg = "start"
  <2>1. Then(<<RunStored, RunItem>>)
    BY <1>1, <1>4 DEF Begin
  <2>2. todo' = <<RunStored, RunItem>>
    BY <2>1, TokenFacts, SimpleFrames
  <2>3. NextClear(RunStored) /\ NextClear(RunItem)
    <3>1. MayRun' /\ ~Continues(Nothing)
      BY <1>2, <1>3, <1>4, TokenStays, CompletionTypes
    <3> QED  BY <3>1, SimpleFrames, ClearFrames
  <2>4. StackClear
    BY <2>2, <2>3, ClearStacks
  <2> QED  BY <1>1, <1>2, <2>4, GroundToken
<1>5. CASE Arg # "start"
  <2> DEFINE c == [Closure("resumed") EXCEPT !.prev = index]
             f == RunAction("onResume", c)
  <2>1. Then(<<f>>)
    BY <1>1, <1>2, <1>5 DEF Begin
  <2>2. c \in Completions /\ c.k = "resumed"
    BY TokenFacts, ResumedClosure
  <2> HIDE DEF c
  <2>3. f \in Frames /\ f.op = "action" /\ f.arg = "onResume" /\ f.done = c
    BY <2>2, NewAction
  <2> HIDE DEF f
  <2>4. todo' = <<f>>
    BY <2>1, <2>3, TokenFacts
  <2>5. NextClear(f)
    BY <2>2, <2>3 DEF NextClear, Clear
  <2>6. StackClear
    BY <2>4, <2>5, ClearStacks
  <2> QED  BY <1>1, <1>2, <2>6, GroundToken
<1> QED  BY <1>4, <1>5

\* A trajectory that is begun in the air.
LEMMA GroundFly ==
  ASSUME Known, GroundInv, Step, Carry(todo[1]), todo[1].op # "mode", ~landed,
         NEW from, NEW to, NEW c, Fly(from, to, c), UNCHANGED <<timer, later>>
  PROVE  GroundInv'
<1> DEFINE f == Frame("flying", "", Nothing)
           m == RunMode("own", Nothing)
<1>1. /\ f \in Frames /\ f.op = "flying" /\ f.done = Nothing
      /\ m \in Frames /\ m.op = "mode" /\ m.arg = "own" /\ m.done = Nothing
  BY SimpleFrames
<1>2. Then(<<f>>) \/ Then(<<m, f>>)
  <2>1. /\ <<>> \o <<f>> = <<f>> /\ <<m>> \o <<f>> = <<m, f>>
    BY Single, Pair
  <2>2. Then((IF activeMode = "own" THEN <<>> ELSE <<m>>) \o <<f>>)
    BY DEF Fly
  <2> QED  BY <2>1, <2>2
<1> HIDE DEF f, m
<1>3. todo' = <<f>> \/ todo' = <<m, f>>
  BY <1>1, <1>2, TokenFacts
<1>4. NextClear(f) /\ NextClear(m)
  <2>1. ~Continues(Nothing) /\ ~landed' /\ "own" \notin Landers
    BY StepStays, CompletionTypes DEF Landers
  <2> QED  BY <1>1, <2>1, ClearFrames
<1>5. StackClear
  BY <1>3, <1>4, ClearStacks
<1> QED  BY <1>5, GroundToken

\* The item of a mission that runs is a waypoint or an action.
LEMMA ItemAction ==
  ASSUME Known, Step, Carry(todo[1]), IndexValid(index), index \notin Waypoints
  PROVE  Item(index) \in Actions
<1>1. valid /\ mission \in Seq(Items)
  BY TokenPush, TokenFacts, MissionTypes DEF Known, CoreInv
<1>2. index + 1 \in DOMAIN mission /\ index \in 0 .. Len0 - 1
  BY <1>1, TokenFacts DEF IndexValid, Len0
<1>3. Item(index) # "undefined" /\ Item(index) # "waypoint" /\ Item(index) \in Items
  BY <1>1, <1>2 DEF Known, CoreInv, TokenInv, Item, Waypoints
<1> QED  BY <1>3 DEF Items

LEMMA GroundItemRuns ==
  ASSUME Known, TakesOffFirst, GroundInv, Step, ItemRuns, Carry(todo[1])
  PROVE  GroundInv'
<1> USE DEF missionVars, stateVars, runVars, pendingVars, worldVars, historyVars
<1>1. todo[1].op = "item" /\ 1 \in DOMAIN todo
  BY TokenFacts, StepRuns DEF ItemRuns, Top, Known
<1>2. UNCHANGED <<index, sched, timer, later>>
  BY DEF ItemRuns
<1>3. MayRun
  BY <1>1 DEF GroundInv, IsClear, Clear
<1>4. CASE /\ ~IndexValid(index)
           /\ Then(IF activeMode = "own" \/ index = NoIndex
                   THEN <<RunMode("Loiter", Nothing)>> ELSE <<>>)
           /\ UNCHANGED traj
  <2> DEFINE f == RunMode("Loiter", Nothing)
  <2>1. f \in Frames /\ f.op = "mode" /\ f.arg = "Loiter" /\ f.done = Nothing
    BY SimpleFrames
  <2>2. Then(<<f>>) \/ Then(<<>>)
    BY <1>4
  <2> HIDE DEF f
  <2>3. todo' = <<f>> \/ todo' = <<>>
    BY <2>1, <2>2, TokenFacts
  <2>4. NextClear(f)
    BY <2>1, CompletionTypes, ClearFrames DEF Landers
  <2>5. StackClear
    BY <2>3, <2>4, ClearStacks
  <2> QED  BY <1>1, <1>2, <1>4, <2>5, GroundToken
<1>5. CASE /\ index \in Waypoints
           /\ Fly(index, SegmentEnd(index), Closure("segment"))
  <2>1. IndexValid(index)
    BY <1>5, TokenFacts DEF Waypoints, IndexValid
  <2>2. ~Ready(index)
    BY <1>5, <2>1, ReadyItems DEF Known, CoreInv
  <2> QED  BY <1>1, <1>2, <1>3, <1>5, <2>2, GroundFly DEF MayRun
<1>6. CASE /\ IndexValid(index) /\ index \notin Waypoints
           /\ Then(<<RunAction(Item(index), Closure("next"))>>)
           /\ UNCHANGED traj
  <2> DEFINE c == Closure("next")
             f == RunAction(Item(index), c)
  <2>1. c \in Completions /\ c.k = "next"
    BY NewClosures
  <2> HIDE DEF c
  <2>2. Item(index) \in Actions
    BY <1>6, ItemAction
  <2>3. f \in Frames /\ f.op = "action" /\ f.done = c
    BY <2>1, <2>2, NewAction
  <2> HIDE DEF f
  <2>4. todo' = <<f>>
    <3>1. Then(<<f>>)
      BY <1>6 DEF f, c
    <3> QED  BY <2>3, <3>1, TokenFacts
  <2>5. NextClear(f)
    BY <1>2, <1>3, <2>1, <2>3, TokenStays DEF NextClear, Clear
  <2>6. StackClear
    BY <2>4, <2>5, ClearStacks
  <2> QED  BY <1>1, <1>2, <1>6, <2>6, GroundToken
<1> QED  BY <1>4, <1>5, <1>6 DEF ItemRuns

LEMMA GroundModeRuns ==
  ASSUME Known, GroundInv, Step, ModeRuns, Carry(todo[1])
  PROVE  GroundInv'
<1> USE DEF missionVars, stateVars, runVars, pendingVars, worldVars, historyVars
<1>1. /\ todo[1].op = "mode" /\ Done = todo[1].done /\ Arg = todo[1].arg
      /\ Done \in Closures /\ Done.k # "failure" /\ Continues(Done) /\ 1 \in DOMAIN todo
  BY TokenFacts, FrameTypes, StepRuns DEF ModeRuns, Top, Arg, Known
<1>2. /\ UNCHANGED <<mission, landed, index, timer, later>>
      /\ aborted' = aborted /\ itemState' = "Other"
  BY DEF ModeRuns
<1>3. NextPasses(timer') /\ NextPasses(later')
  BY <1>2, TokenFacts DEF NextPasses, Passes, TimerC, LaterC
<1>4. Flown'
  BY <1>2 DEF Flown
<1>5. Lifts(Done, Arg, ReadyOn) /\ ReadyOn' = ReadyOn
  <2>1. IsClear(todo[1])
    BY <1>1 DEF GroundInv
  <2> QED  BY <1>1, <1>2, <2>1, MayStays DEF IsClear, Clear
<1>6. CASE sched' = [mode |-> Arg, done |-> Done] /\ nav' = Arg /\ Then(<<>>)
  <2>1. StackClear
    BY <1>6, TokenFacts, ClearStacks
  <2>2. SchedClear'
    BY <1>1, <1>5, <1>6 DEF SchedClear, Lifts, Lands
  <2> QED  BY <1>3, <1>4, <2>1, <2>2, NextGround
<1>7. CASE sched' = NoSched /\ Then(ModeFailed(Done))
  <2>1. Done.fail = "abort"
    BY <1>1, CompletionTypes
  <2>2. todo' = <<Abort>>
    BY <1>7, <2>1, TokenFacts, SimpleFrames DEF ModeFailed
  <2>3. ~Continues(Nothing) /\ NoMode \notin Landers
    BY CompletionTypes DEF NoMode, Landers
  <2>4. StackClear
    BY <2>2, <2>3, SimpleFrames, ClearFrames, ClearStacks
  <2>5. SchedClear'
    BY <1>7, <2>3 DEF NoSched, SchedClear, Lifts, Lands
  <2> QED  BY <1>3, <1>4, <2>4, <2>5, NextGround
<1> QED  BY <1>6, <1>7 DEF ModeRuns

\* An action that is neither a takeoff nor onResume runs for the item at the
\* index, and the next one may be run when it has completed.
LEMMA ActionGoesOn ==
  ASSUME Known, TakesOffFirst, PlaceInv, GroundInv, Step, Carry(todo[1]),
         todo[1].op = "action", todo[1].arg \notin {"onResume", "takeoff"}
  PROVE  /\ Done.k = "next" /\ MayRun /\ MayGoOn
         /\ todo[1].arg \in {"rtl", "land"} => ReadyOn
<1>1. /\ Continues(Done) /\ Done = todo[1].done /\ todo[1].arg # "onFailure" /\ 1 \in DOMAIN todo
      /\ ~Idle /\ IndexValid(index)
  BY TokenFacts, StepRuns DEF Known
<1>2. Done.k = "next" /\ MayRun
  BY <1>1 DEF GroundInv, IsClear, Clear
<1>3. Item(index) = todo[1].arg
  BY <1>1, <1>2 DEF PlaceInv, HeadIs, Idle
<1>4. /\ Item(index) \in {"rtl", "land"} => Ready(index + 1)
      /\ Ready(index) /\ Item(index) # "takeoff" => Ready(index + 1)
  BY <1>1, ReadyItems DEF Known, CoreInv
<1>5. MayGoOn
  BY <1>2, <1>3, <1>4 DEF MayRun, MayGoOn
<1> QED  BY <1>2, <1>3, <1>4, <1>5 DEF ReadyOn

LEMMA GroundModeActionRuns ==
  ASSUME Known, TakesOffFirst, PlaceInv, GroundInv, Step, ModeActionRuns, Carry(todo[1])
  PROVE  GroundInv'
<1> USE DEF missionVars, stateVars, runVars, pendingVars, worldVars, historyVars
<1>1. UNCHANGED <<index, traj, timer, later>>
  BY DEF ModeActionRuns, Unmoved
<1>2. PICK name \in DOMAIN ModeOf : Action(name) /\ Then(<<RunMode(ModeOf[name], Done)>>)
  BY DEF ModeActionRuns
<1>3. todo[1].op = "action" /\ todo[1].arg = name /\ Done \in Closures /\ Continues(Done)
  BY <1>2, TokenAction, TokenFacts
<1>4. /\ name \in {"rtl", "land", "takeoff"} /\ ModeOf[name] \in Modes \ {"own"}
      /\ ModeOf["takeoff"] = "Takeoff"
  BY DEF ModeOf, Modes
<1> DEFINE f == RunMode(ModeOf[name], Done)
<1>5. f \in Frames /\ f.op = "mode" /\ f.arg = ModeOf[name] /\ f.done = Done
  BY <1>3, <1>4, NewMode
<1>6. Then(<<f>>)
  BY <1>2
<1> HIDE DEF f
<1>7. todo' = <<f>>
  BY <1>5, <1>6, TokenFacts
<1>8. NextClear(f)
  <2>1. f.arg = "Takeoff" \/ (Done.k = "next" /\ ReadyOn')
    <3>1. CASE name = "takeoff"
      BY <1>4, <1>5, <3>1
    <3>2. CASE name # "takeoff"
      BY <1>1, <1>3, <1>4, <3>2, ActionGoesOn, TokenStays
    <3> QED  BY <3>1, <3>2
  <2> QED  BY <1>3, <1>5, <2>1 DEF NextClear, Clear, Lifts, Lands
<1>9. StackClear
  BY <1>7, <1>8, ClearStacks
<1> QED  BY <1>1, <1>3, <1>9, GroundToken

\* The calls of completions, when the item has been run.
LEMMA CallClear ==
  ASSUME NEW c \in Closures,
         Continues(c) => \/ c.k = "next" /\ MayGoOn'
                         \/ c.k = "resumed" /\ MayRun'
  PROVE  Call(c) \in Frames /\ Call(c).op = "call" /\ NextClear(Call(c))
<1> DEFINE f == Call(c)
<1>1. f \in Frames /\ f.op = "call" /\ f.done = c
  BY NewCall
<1> HIDE DEF f
<1>2. NextClear(f)
  BY <1>1 DEF NextClear, Clear
<1> QED  BY <1>1, <1>2 DEF f

LEMMA GroundHoldRuns ==
  ASSUME Known, TakesOffFirst, PlaceInv, GroundInv, Step, HoldRuns, Carry(todo[1])
  PROVE  GroundInv'
<1> USE DEF missionVars, stateVars, runVars, pendingVars, worldVars, historyVars
<1>1. UNCHANGED <<index, traj, timer, later>>
  BY DEF HoldRuns, Unmoved
<1>2. todo[1].op = "action" /\ todo[1].arg = "hold" /\ Done \in Completions
  BY TokenAction DEF HoldRuns
<1>3. Done.k = "next" /\ MayGoOn'
  BY <1>1, <1>2, ActionGoesOn, TokenStays
<1> DEFINE f == RunMode("Loiter", Nothing)
           g == Frame("hold", "", Done)
<1>4. f \in Frames /\ f.op = "mode" /\ f.arg = "Loiter" /\ f.done = Nothing
  BY SimpleFrames
<1>5. g \in Frames /\ g.op = "hold" /\ g.done = Done
  BY <1>2, NewHold
<1>6. Then(<<f, g>>)
  BY DEF HoldRuns
<1> HIDE DEF f, g
<1>7. todo' = <<f, g>>
  BY <1>4, <1>5, <1>6, TokenFacts
<1>8. NextClear(f)
  BY <1>4, CompletionTypes, ClearFrames DEF Landers
<1>9. NextClear(g)
  BY <1>3, <1>5 DEF NextClear, Clear, Passes
<1>10. StackClear
  BY <1>7, <1>8, <1>9, ClearStacks
<1> QED  BY <1>1, <1>2, <1>10, GroundToken

LEMMA GroundHoldStarts ==
  ASSUME Known, GroundInv, Step, HoldStarts, Carry(todo[1])
  PROVE  GroundInv'
<1> USE DEF missionVars, stateVars, runVars, pendingVars, worldVars, historyVars
<1>1. UNCHANGED <<index, traj, later>> /\ timer' = Done
  BY DEF HoldStarts
<1>2. todo[1].op = "hold" /\ Done = todo[1].done /\ 1 \in DOMAIN todo
  BY TokenFacts, StepRuns DEF HoldStarts, Top, Known
<1>3. Passes(Done, MayGoOn)
  BY <1>2 DEF GroundInv, IsClear, Clear
<1>4. NextPasses(timer')
  BY <1>1, <1>3, TokenStays DEF NextPasses
<1>5. StackClear
  BY TokenFacts, ClearStacks DEF HoldStarts
<1> QED  BY <1>1, <1>2, <1>4, <1>5, GroundToken

LEMMA GroundCalls ==
  ASSUME Known, TakesOffFirst, PlaceInv, GroundInv, Step, Carry(todo[1]),
         ChangeSettingsRuns \/ CameraRuns
  PROVE  GroundInv'
<1> USE DEF missionVars, stateVars, runVars, pendingVars, worldVars, historyVars
<1>1. UNCHANGED <<index, traj, timer, later>>
  BY DEF ChangeSettingsRuns, CameraRuns, Unmoved
<1>2. PICK name \in {"settings", "reset", "camera"} : Action(name)
  BY DEF ChangeSettingsRuns, CameraRuns
<1>3. /\ todo[1].op = "action" /\ todo[1].arg = name
      /\ Done \in Closures /\ ~Top("restore")
  BY <1>2, TokenAction
<1>4. Then(<<Call(Done)>>)
  BY <1>3 DEF ChangeSettingsRuns, CameraRuns
<1>5. Done.k = "next" /\ MayGoOn'
  BY <1>1, <1>3, ActionGoesOn, TokenStays
<1>6. Call(Done) \in Frames /\ NextClear(Call(Done))
  BY <1>3, <1>5, CallClear
<1>7. todo' = <<Call(Done)>>
  BY <1>4, <1>6, TokenFacts
<1>8. StackClear
  BY <1>6, <1>7, ClearStacks
<1> QED  BY <1>1, <1>3, <1>8, GroundToken

LEMMA GroundCustomRuns ==
  ASSUME Known, TakesOffFirst, PlaceInv, GroundInv, Step, Carry(todo[1]),
         NEW outcome \in CustomOutcomes, CustomRuns(outcome)
  PROVE  GroundInv'
<1> USE DEF missionVars, stateVars, runVars, pendingVars, worldVars, historyVars
<1>1. /\ UNCHANGED <<index, traj, timer>> /\ outcome # "jump"
      /\ later' = (IF outcome = "later" THEN Done ELSE later)
  BY DEF CustomRuns, Unmoved, TakesOffFirst
<1>2. todo[1].op = "action" /\ todo[1].arg = "custom" /\ Done \in Closures
  BY TokenAction DEF CustomRuns
<1>3. Done.k = "next" /\ MayGoOn'
  BY <1>1, <1>2, ActionGoesOn, TokenStays
<1>4. UNCHANGED later \/ NextPasses(later')
  BY <1>1, <1>3 DEF NextPasses, Passes
<1>5. Call(Done) \in Frames /\ NextClear(Call(Done))
  BY <1>2, <1>3, CallClear
<1>6. NextClear(Abort)
  BY SimpleFrames, CompletionTypes, ClearFrames
<1>7. Then(<<>>) \/ Then(<<Abort, Call(Done)>>) \/ Then(<<Call(Done)>>)
  BY DEF CustomRuns
<1>8. todo' = <<>> \/ todo' = <<Abort, Call(Done)>> \/ todo' = <<Call(Done)>>
  BY <1>5, <1>7, SimpleFrames, TokenFacts
<1>9. StackClear
  BY <1>5, <1>6, <1>8, ClearStacks
<1> QED  BY <1>1, <1>2, <1>4, <1>9, GroundToken

\* onResume calls back where the mission may go on, skips a landing or takes off.
LEMMA GroundOnResume ==
  ASSUME Known, TakesOffFirst, PlaceInv, KeepInv, GroundInv, Step, Carry(todo[1]),
         NEW known \in LandedKnown, OnResumeRuns(known)
  PROVE  GroundInv'
<1> USE DEF missionVars, stateVars, runVars, pendingVars, worldVars, historyVars
<1>1. /\ todo[1].op = "action" /\ todo[1].arg = "onResume" /\ Done \in Closures
      /\ Done \in Completions /\ Done = todo[1].done
  BY TokenAction, TokenFacts DEF OnResumeRuns
<1>2. Done.k = "resumed"
  <2>1. HeadIs("action")
    BY <1>1, TokenFacts DEF HeadIs, Idle
  <2> QED  BY <1>1, <2>1 DEF KeepInv, FramesKept
<1>3. UNCHANGED <<traj, timer, later>> /\ known = TRUE /\ Resumable = {}
  BY DEF OnResumeRuns, Unmoved, TakesOffFirst
<1>4. /\ index \in Int /\ Len0 \in Nat /\ IndexValid(index)
      /\ UNCHANGED <<mission, landed>>
  BY <1>1, TokenFacts, StepStays
<1>5. /\ Ready(0) /\ Ready(Len0)
      /\ Item(index) \in {"rtl", "land"} => Ready(index + 1)
      /\ (~\E i \in 0 .. index - 1 : Item(i) = "takeoff") => Ready(index)
  BY <1>4, ReadyItems DEF Known, CoreInv
<1>6. \A i : Ready(i)' <=> Ready(i)
  BY <1>4 DEF Ready, Waypoints, Item, Len0
<1> DEFINE f == Call(Done)
           d == [Done EXCEPT !.k = "navigate"]
           t == RunAction("takeoff", d)
<1>7. ASSUME MayRun', Then(<<f>>) PROVE GroundInv'
  <2>1. f \in Frames /\ NextClear(f)
    BY <1>1, <1>2, <1>7, CallClear
  <2> HIDE DEF f
  <2>2. todo' = <<f>>
    BY <1>7, <2>1, TokenFacts
  <2>3. StackClear
    BY <2>1, <2>2, ClearStacks
  <2> QED  BY <1>1, <1>3, <2>3, GroundToken
<1>8. CASE Then(<<t>>)
  <2>1. d \in Completions /\ d.k = "navigate"
    BY <1>1, RenamedClosure
  <2> HIDE DEF d
  <2>2. t \in Frames /\ t.op = "action" /\ t.arg = "takeoff" /\ t.done = d
    BY <2>1, NewAction DEF Actions
  <2> HIDE DEF t
  <2>3. todo' = <<t>>
    BY <1>8, <2>2, TokenFacts
  <2>4. NextClear(t)
    BY <2>1, <2>2 DEF NextClear, Clear
  <2>5. StackClear
    BY <2>3, <2>4, ClearStacks
  <2> QED  BY <1>1, <1>3, <2>5, GroundToken
<1>9. CASE (index = 0 \/ ~landed \/ Ready(index)) /\ UNCHANGED index /\ Then(<<f>>)
  <2>1. MayRun
    BY <1>5, <1>9 DEF MayRun
  <2>2. MayRun'
    BY <1>9, <2>1, TokenStays
  <2> QED  BY <1>7, <1>9, <2>2
<1>10. CASE /\ Item(index) \in {"rtl", "land"} /\ index' = (index + 1) % Len0
            /\ Then(<<f>>)
  <2>1. index' = index + 1 \/ index' = 0
    BY <1>4, <1>10 DEF IndexValid
  <2>2. Ready(index')
    BY <1>5, <1>10, <2>1
  <2>3. MayRun'
    BY <1>6, <2>2 DEF MayRun
  <2> QED  BY <1>7, <1>10, <2>3
<1> QED  BY <1>3, <1>5, <1>8, <1>9, <1>10 DEF OnResumeRuns

\* The completion of an item leads to the next one, that of a takeoff back to
\* the trajectory, and that of a resumption to the item.
LEMMA GroundCallRuns ==
  ASSUME Known, GroundInv, Step, CallRuns, Carry(todo[1])
  PROVE  GroundInv'
<1> USE DEF missionVars, stateVars, runVars, pendingVars, worldVars, historyVars
<1>1. /\ todo[1].op = "call" /\ todo[1] \in Frames /\ Done = todo[1].done
      /\ Done \in Closures /\ Continues(Done) /\ Done.valid /\ 1 \in DOMAIN todo
      /\ Done.k \in {"next", "resumed", "navigate"} /\ Done \in Completions
  <2>1. todo[1].op = "call" /\ todo[1] \in Frames /\ Done = todo[1].done /\ 1 \in DOMAIN todo
    BY TokenFacts, StepRuns DEF CallRuns, Top, Known
  <2>2. Done \in Closures /\ Continues(Done) /\ Done.k # "failure"
    BY <2>1, TokenFacts, FrameTypes
  <2>3. Done \in Completions /\ Done.k \in {"nothing", "next", "resumed", "navigate", "failure"}
    BY <2>2, CompletionTypes
  <2> QED  BY <2>1, <2>2, <2>3 DEF Continues
<1>2. UNCHANGED <<timer, later, mission, landed>>
  BY DEF CallRuns
<1>3. /\ Done.k = "next" => MayGoOn
      /\ Done.k = "resumed" => MayRun
      /\ Done.k = "navigate" => ~landed
  BY <1>1 DEF GroundInv, IsClear, Clear
<1>4. ASSUME MayRun', UNCHANGED traj, Then(<<RunItem>>) \/ Then(<<RunStored, RunItem>>)
      PROVE  GroundInv'
  <2>1. NextClear(RunItem) /\ NextClear(RunStored)
    BY <1>4, SimpleFrames, CompletionTypes, ClearFrames
  <2>2. todo' = <<RunItem>> \/ todo' = <<RunStored, RunItem>>
    BY <1>4, SimpleFrames, TokenFacts
  <2>3. StackClear
    BY <2>1, <2>2, ClearStacks
  <2> QED  BY <1>1, <1>2, <1>4, <2>3, GroundToken
<1>5. CASE Done.k = "next"
  <2>1. index' = index + 1 /\ Then(<<RunItem>>) /\ traj' = traj
    BY <1>1, <1>5 DEF CallRuns
  <2>2. MayRun'
    <3>1. Ready(index)' <=> Ready(index + 1)
      BY <1>2, <2>1 DEF Ready, Waypoints, Item, Len0
    <3> QED  BY <1>2, <1>3, <1>5, <3>1 DEF MayRun, MayGoOn
  <2> QED  BY <1>4, <2>1, <2>2
<1>6. CASE Done.k = "resumed"
  <2>1. Resumed /\ UNCHANGED <<index, traj>>
    BY <1>1, <1>6 DEF CallRuns
  <2>2. MayRun'
    BY <1>3, <1>6, <2>1, TokenStays
  <2> QED  BY <1>4, <2>1, <2>2 DEF Resumed
<1>7. CASE Done.k = "navigate"
  <2>1. Navigates /\ UNCHANGED index
    BY <1>1, <1>7 DEF CallRuns
  <2> DEFINE d == [Done EXCEPT !.k = "resumed"]
             f == Call(d)
  <2>2. d \in Completions /\ d \in Closures /\ d.k = "resumed"
    BY <1>1, RenamedClosure, CompletionTypes
  <2> HIDE DEF d
  <2>3. CASE Fly(0, 0, d)
    BY <1>1, <1>2, <1>3, <1>7, <2>3, GroundFly
  <2>4. CASE Then(<<f>>) /\ UNCHANGED traj
    <3>1. MayRun'
      BY <1>3, <1>7, <2>1, TokenStays DEF MayRun
    <3>2. f \in Frames /\ NextClear(f)
      BY <2>2, <3>1, CallClear
    <3> HIDE DEF f
    <3>3. todo' = <<f>>
      BY <2>4, <3>2, TokenFacts
    <3>4. StackClear
      BY <3>2, <3>3, ClearStacks
    <3> QED  BY <1>1, <1>2, <2>4, <3>4, GroundToken
  <2> QED  BY <2>1, <2>3, <2>4 DEF Navigates, d
<1> QED  BY <1>1, <1>5, <1>6, <1>7

\* By every step of a callback.
LEMMA GroundStep ==
  ASSUME Known, TakesOffFirst, KeepInv, PlaceInv, GroundInv, Step
  PROVE  GroundInv'
<1>1. /\ todo[1].op = "abort" => Aborts
      /\ todo[1].op = "aborted" => AbortReturns
  BY StepRuns DEF Known
<1>2. CASE todo[1].op \in {"abort", "aborted"}
  BY <1>1, <1>2, GroundAborts, GroundAbortReturns DEF Known
<1>3. CASE ~Carry(todo[1]) /\ todo[1].op \notin {"abort", "aborted"}
  BY <1>3, GroundQuiet DEF Known
<1>4. CASE Carry(todo[1])
  <2>1. \/ Begin \/ ItemRuns \/ ModeRuns \/ ModeActionRuns \/ HoldRuns \/ HoldStarts
        \/ ChangeSettingsRuns \/ CameraRuns \/ OnFailureRuns \/ CallRuns
        \/ \E outcome \in CustomOutcomes : CustomRuns(outcome)
        \/ \E known \in LandedKnown : OnResumeRuns(known)
    BY <1>4, TokenRuns DEF Known
  <2>2. ~OnFailureRuns
    BY <1>4, TokenAction, TokenFacts DEF OnFailureRuns
  <2> QED  BY <1>4, <2>1, <2>2, GroundBegin, GroundItemRuns, GroundModeRuns, GroundModeActionRuns,
              GroundHoldRuns, GroundHoldStarts, GroundCalls, GroundCallRuns, GroundCustomRuns,
              GroundOnResume
<1> QED  BY <1>2, <1>3, <1>4

-----------------------------------------------------------------------------
(* What comes between callbacks, in the air or before a takeoff.           *)

\* A mission that is not active has nothing pending.
LEMMA GroundInactive == CoreInv /\ CalmInv /\ ~active => GroundInv
<1> SUFFICES ASSUME CoreInv, CalmInv, ~active PROVE GroundInv
  OBVIOUS
<1>1. Idle /\ sched = NoSched /\ ~TimerC /\ ~LaterC
  BY DEF CoreInv, TypeOK, TokenInv, Token, Waits, CalmInv
<1>2. DOMAIN todo = {}
  BY <1>1, IdleStack DEF CoreInv
<1>3. ~Continues(Nothing) /\ NoMode \notin Landers
  BY CompletionTypes DEF NoMode, Landers
<1>4. SchedClear
  BY <1>1, <1>3 DEF SchedClear, NoSched, Lifts, Lands
<1> QED  BY <1>1, <1>2, <1>4 DEF GroundInv, Passes, TimerC, LaterC, Flown

\* What leaves all that GroundInv speaks of, or calls abort().
LEMMA GroundStays ==
  ASSUME CoreInv, GroundInv, UNCHANGED <<mission, landed, index, active, nav, itemState>>,
         UNCHANGED <<traj, sched, timer, later>>, aborted' = aborted,
         todo' = todo \/ todo' = <<Abort>>
  PROVE  GroundInv'
<1>1. /\ SchedClear' /\ NextPasses(timer') /\ NextPasses(later')
      /\ \A f : IsClear(f) => NextClear(f)
  BY ClearStays DEF GroundInv
<1>2. StackClear
  <2>1. CASE todo' = todo
    BY <1>1, <2>1 DEF GroundInv, StackClear
  <2>2. CASE todo' = <<Abort>>
    BY <2>2, SimpleFrames, CompletionTypes, ClearFrames, ClearStacks
  <2> QED  BY <2>1, <2>2
<1>3. Flown'
  BY DEF GroundInv, Flown
<1> QED  BY <1>1, <1>2, <1>3, NextGround

\* A waypoint is reached in the air, if the trajectory carries the mission on.
LEMMA GroundWaypointReached ==
  ASSUME Known, FlightInv, PlaceInv, GroundInv, WaypointReached
  PROVE  GroundInv'
<1> USE DEF missionVars, stateVars, runVars, pendingVars, worldVars, historyVars
<1>1. /\ Idle /\ active /\ active' = active /\ traj.at # NoIndex /\ itemState = "Trajectory"
      /\ UNCHANGED <<mission, landed, nav, itemState, sched, timer, later>> /\ aborted' = aborted
      /\ index' = IF OnSegment /\ traj.done.valid THEN traj.at + 1 ELSE index
  BY Reached DEF Known, WaypointReached
<1>2. TrajC <=> Continues(traj.done)
  BY Reached DEF Known
<1>3. todo' = <<>> \/ (todo' = <<RunItem>> /\ TrajC) \/ todo' = <<Call(traj.done)>>
  <2>1. OnSegment /\ traj.done.valid => TrajC
    BY <1>2 DEF Continues, OnSegment
  <2> QED  BY <2>1, Reached DEF Known
<1>4. TrajC => ~landed
  <2>1. SUFFICES ASSUME TrajC PROVE ~landed
    OBVIOUS
  <2>2. ~aborted
    BY <2>1 DEF Known, AbortInv, Token, Waits
  <2>3. ~HeadIs("abort")
    BY <1>1, IdleFacts DEF Known
  <2>4. activeMode = "own" /\ activeMode \in {nav, NoMode}
    BY <1>1, <2>2, <2>3 DEF FlightInv, InFlight, InMode
  <2>5. nav = "own"
    BY <2>4 DEF NoMode
  <2> QED  BY <1>1, <2>5 DEF GroundInv, Flown
<1>5. ~landed => MayRun' /\ MayGoOn' /\ ~landed'
  BY <1>1 DEF MayRun, MayGoOn
<1>6. NextClear(Call(traj.done)) /\ (TrajC => NextClear(RunItem))
  <2> DEFINE f == Call(traj.done)
  <2>1. f.op = "call" /\ f.done = traj.done
    BY DEF Call, Frame
  <2> HIDE DEF f
  <2>2. NextClear(f)
    BY <1>2, <1>4, <1>5, <2>1 DEF NextClear, Clear
  <2>3. TrajC => NextClear(RunItem)
    BY <1>4, <1>5, SimpleFrames, CompletionTypes, ClearFrames
  <2> QED  BY <2>2, <2>3 DEF f
<1>7. StackClear
  BY <1>3, <1>6, ClearStacks
<1>8. CASE TrajC
  <2>1. ~SchedC /\ ~TimerC /\ ~LaterC
    BY <1>8 DEF Known, CoreInv, TokenInv, OneToken
  <2>2. NextPasses(timer') /\ NextPasses(later')
    BY <1>1, <2>1 DEF NextPasses, Passes, TimerC, LaterC
  <2>3. SchedClear'
    BY <1>1, <2>1 DEF GroundInv, SchedClear, SchedC, Lifts, Lands
  <2>4. Flown'
    BY <1>1, <1>4, <1>8 DEF Flown
  <2> QED  BY <1>7, <2>2, <2>3, <2>4, NextGround
<1>9. CASE ~TrajC
  <2>1. index' = index
    <3>1. traj.done.k = "segment" /\ traj.done.valid => Continues(traj.done)
      BY DEF Continues
    <3> QED  BY <1>1, <1>2, <1>9, <3>1 DEF OnSegment
  <2>2. SchedClear' /\ NextPasses(timer') /\ NextPasses(later')
    BY <1>1, <2>1, ClearStays DEF GroundInv
  <2>3. Flown'
    BY <1>1 DEF GroundInv, Flown
  <2> QED  BY <1>7, <2>2, <2>3, NextGround
<1> QED  BY <1>8, <1>9

\* A mode completes in the air, or on the ground for an item that lands there;
\* else the mission was aborted.
LEMMA GroundModeCompletes ==
  ASSUME Known, GroundInv, NEW ok \in BOOLEAN, ModeCompletes(ok)
  PROVE  GroundInv'
<1> USE DEF missionVars, stateVars, runVars, pendingVars, worldVars, historyVars
<1>1. /\ Idle /\ active /\ sched' = NoSched /\ sched.done \in Closures
      /\ UNCHANGED <<mission, active, index, timer, later, traj, nav, itemState>>
      /\ aborted' = aborted /\ sched.mode \notin {NoMode, "own"}
  BY DEF ModeCompletes, Known, CoreInv, TypeOK
<1>2. /\ sched.mode = nav /\ Lifts(sched.done, sched.mode, ReadyOn)
      /\ sched.mode \in Landers => aborted \/ SchedC
  BY <1>1 DEF GroundInv, SchedClear, Lands, SchedC
<1>3. SchedClear'
  <2>1. ~Continues(Nothing) /\ NoMode \notin Landers
    BY CompletionTypes DEF NoMode, Landers
  <2> QED  BY <1>1, <2>1 DEF SchedClear, NoSched, Lifts, Lands
<1>4. CASE todo' = <<Call(sched.done)>>
           /\ landed' = CASE sched.mode = "Takeoff" -> FALSE
                          [] sched.mode \in {"Rtl", "Land", "Descend"} -> TRUE
                          [] OTHER -> landed
  <2>1. landed' = landed \/ ~landed' \/ sched.mode \in Landers
    BY <1>4 DEF Landers
  <2>2. Flown'
    <3>1. sched.mode \in Landers => nav # "own"
      BY <1>2 DEF Landers
    <3> QED  BY <1>1, <2>1, <3>1 DEF GroundInv, Flown
  <2>3. \A i : Ready(i)' <=> Ready(i)
    BY <1>1 DEF Ready, Waypoints, Item, Len0
  <2>4. NextPasses(timer') /\ NextPasses(later')
    <3>1. CASE TimerC \/ LaterC
      <4>1. landed' = landed \/ ~landed'
        BY <1>2, <2>1, <3>1 DEF Known, AbortInv, Token, Waits, CoreInv, TokenInv, OneToken
      <4>2. MayGoOn => MayGoOn'
        BY <1>1, <2>3, <4>1 DEF MayGoOn
      <4> QED  BY <1>1, <4>2 DEF GroundInv, NextPasses, Passes
    <3>2. CASE ~TimerC /\ ~LaterC
      BY <1>1, <3>2 DEF NextPasses, Passes, TimerC, LaterC
    <3> QED  BY <3>1, <3>2
  <2>5. NextClear(Call(sched.done))
    <3> DEFINE f == Call(sched.done)
    <3>1. f.op = "call" /\ f.done = sched.done
      BY DEF Call, Frame
    <3> HIDE DEF f
    <3>2. sched.mode = "Takeoff" => ~landed'
      BY <1>4
    <3>3. ReadyOn => MayGoOn'
      BY <1>1, <2>3 DEF ReadyOn, MayGoOn
    <3>4. ~landed' => MayRun' /\ MayGoOn'
      BY DEF MayRun, MayGoOn
    <3>5. NextClear(f)
      BY <1>2, <3>1, <3>2, <3>3, <3>4 DEF NextClear, Clear, Lifts
    <3> QED  BY <3>5 DEF f
  <2>6. StackClear
    BY <1>4, <2>5, ClearStacks
  <2> QED  BY <1>3, <2>2, <2>4, <2>6, NextGround
<1>5. CASE todo' = ModeFailed(sched.done) /\ landed' = landed
  <2>1. NextPasses(timer') /\ NextPasses(later')
    BY <1>1, <1>5, ClearStays DEF GroundInv
  <2>2. Flown'
    BY <1>1, <1>5 DEF GroundInv, Flown
  <2>3. StackClear
    <3>1. CASE sched.done.fail = "abort"
      <4>1. todo' = <<Abort>>
        BY <1>5, <3>1 DEF ModeFailed
      <4> QED  BY <4>1, SimpleFrames, CompletionTypes, ClearFrames, ClearStacks
    <3>2. CASE sched.done.fail # "abort"
      <4>1. aborted /\ sched.done.k = "failure"
        <5>1. sched.done.k = "failure"
          BY <1>1, <3>2, CompletionTypes
        <5> QED  BY <5>1 DEF Known, CalmInv, CalmRun
      <4> DEFINE c == [sched.done EXCEPT !.fail = "ignore"]
                 f == RunMode("Descend", c)
      <4>2. c.k = "failure"
        <5>1. \E d \in [k : {"failure"}, valid : BOOLEAN, prev : Int,
                        fail : {"abort", "descend", "ignore"}] : sched.done = d
          BY <1>1, <3>2 DEF Closures, Completions
        <5> QED  BY <4>1, <5>1
      <4> HIDE DEF c
      <4>3. f.op = "mode" /\ f.done = c
        BY DEF RunMode, Frame
      <4>4. todo' = <<f>> \/ todo' = <<>>
        BY <1>5, <3>2 DEF ModeFailed, c
      <4> HIDE DEF f
      <4>5. NextClear(f)
        BY <1>1, <4>1, <4>2, <4>3, ClearFrames DEF Continues
      <4> QED  BY <4>4, <4>5, ClearStacks
    <3> QED  BY <3>1, <3>2
  <2> QED  BY <1>3, <2>1, <2>2, <2>3, NextGround
<1> QED  BY <1>4, <1>5 DEF ModeCompletes

\* The Hold action and the custom one go on to the next item.
LEMMA GroundCallsBack ==
  ASSUME Known, GroundInv, TimerExpires \/ (LaterCompletes /\ active)
  PROVE  GroundInv'
<1> USE DEF missionVars, stateVars, runVars, pendingVars, worldVars, historyVars
<1>1. /\ Idle
      /\ UNCHANGED <<mission, landed, index, active, nav, itemState, traj, sched>>
      /\ aborted' = aborted
  BY DEF TimerExpires, LaterCompletes
<1>2. PICK c \in {timer, later} : todo' = <<Call(c)>>
  BY DEF TimerExpires, LaterCompletes
<1>3. /\ timer' = timer \/ timer' = Nothing
      /\ later' = later \/ later' = Nothing
  BY DEF TimerExpires, LaterCompletes
<1>4. /\ SchedClear' /\ NextPasses(timer) /\ NextPasses(later)
  BY <1>1, ClearStays DEF GroundInv
<1>5. NextPasses(timer') /\ NextPasses(later')
  <2>1. NextPasses(Nothing)
    BY CompletionTypes DEF NextPasses, Passes
  <2> QED  BY <1>3, <1>4, <2>1
<1>6. StackClear
  <2> DEFINE f == Call(c)
  <2>1. f.op = "call" /\ f.done = c /\ todo' = <<f>>
    BY <1>2 DEF Call, Frame
  <2> HIDE DEF f
  <2>2. NextPasses(c)
    BY <1>2, <1>4
  <2>3. NextClear(f)
    BY <2>1, <2>2 DEF NextClear, Clear, NextPasses, Passes
  <2> QED  BY <2>1, <2>3, ClearStacks
<1>7. Flown'
  BY <1>1 DEF GroundInv, Flown
<1> QED  BY <1>4, <1>5, <1>6, <1>7, NextGround

\* A mission begins with its first item, before which it is not resumed.
LEMMA GroundActivate ==
  ASSUME Known, CoreInv', TakesOffFirst, Activate
  PROVE  GroundInv'
<1> USE DEF missionVars, stateVars, runVars, pendingVars, worldVars, historyVars
<1>1. /\ ~active /\ UNCHANGED <<mission, valid, sched, timer, later>> /\ itemState' = "Other"
      /\ index' = IF valid /\ index = NoIndex THEN 0 ELSE index
  BY DEF Activate
<1>2. sched = NoSched /\ ~TimerC /\ ~LaterC
  BY <1>1 DEF Known, CoreInv, TokenInv, CalmInv, Token, Waits
<1>3. SchedClear'
  <2>1. ~Continues(Nothing) /\ NoMode \notin Landers
    BY CompletionTypes DEF NoMode, Landers
  <2> QED  BY <1>1, <1>2, <2>1 DEF SchedClear, NoSched, Lifts, Lands
<1>4. NextPasses(timer') /\ NextPasses(later')
  BY <1>1, <1>2 DEF NextPasses, Passes, TimerC, LaterC
<1>5. Flown'
  BY <1>1 DEF Flown
<1>6. StackClear
  <2>1. NextClear(Abort)
    BY SimpleFrames, CompletionTypes, ClearFrames
  <2>2. CASE valid
    <3> DEFINE c == Closure("begin")
               f == Frame("begin", IF index = NoIndex THEN "start" ELSE "resume", c)
               g == Frame("begin", "resume", c)
    <3>1. f.op = "begin" /\ (f.arg = "start" => index = NoIndex)
          /\ g.op = "begin" /\ g.arg = "resume"
      BY DEF Frame
    <3>2. todo' = <<f>> \/ todo' = <<Abort, g>>
      BY <2>2 DEF Activate
    <3> HIDE DEF c, f, g
    <3>3. NextClear(g)
      BY <3>1 DEF NextClear, Clear
    <3>4. NextClear(f)
      <4>1. index = NoIndex => MayRun'
        <5>1. SUFFICES ASSUME index = NoIndex PROVE Ready(index)'
          BY DEF MayRun
        <5>2. Ready(0)
          BY ReadyItems DEF Known, CoreInv
        <5> QED  BY <1>1, <2>2, <5>1, <5>2 DEF Ready, Waypoints, Item, Len0
      <4> QED  BY <3>1, <4>1 DEF NextClear, Clear
    <3> QED  BY <2>1, <3>2, <3>3, <3>4, ClearStacks
  <2>3. CASE ~valid
    BY <2>1, <2>3, ClearStacks DEF Activate
  <2> QED  BY <2>2, <2>3
<1> QED  BY <1>3, <1>4, <1>5, <1>6, NextGround

\* By every step after which the mission is active.
LEMMA GroundNext ==
  ASSUME Known, CoreInv', TakesOffFirst, FlightInv, KeepInv, PlaceInv, GroundInv, [Next]_vars,
         active'
  PROVE  GroundInv'
<1> USE DEF missionVars, stateVars, runVars, pendingVars, worldVars, historyVars
<1>1. CASE Step
  BY <1>1, GroundStep
<1>2. CASE Answers
  <2>1. CASE LaterCompletes
    <3>1. active
      BY <2>1 DEF LaterCompletes
    <3> QED  BY <2>1, <3>1, GroundCallsBack
  <2>2. CASE StatusUpdate
    <3>1. /\ UNCHANGED <<mission, landed, index, active, nav, itemState, traj, sched, timer, later>>
          /\ aborted' = aborted /\ todo' = todo
      BY <2>2 DEF StatusUpdate
    <3> QED  BY <3>1, GroundStays DEF Known
  <2> QED  BY <1>2, <2>1, <2>2, GroundWaypointReached, GroundModeCompletes, GroundCallsBack
           DEF Answers
<1>3. CASE Interference
  <2>1. CASE UserAbort \/ PositionInvalid
    <3>1. /\ UNCHANGED <<mission, landed, index, active, nav, itemState, traj, sched, timer, later>>
          /\ aborted' = aborted /\ todo' = <<Abort>>
      BY <2>1 DEF UserAbort, PositionInvalid
    <3> QED  BY <3>1, GroundStays DEF Known
  <2>2. ~(\E m \in Missions : SetMission(m)) /\ ~ResetMission /\ ~Crash /\ ~LandedChanges
    BY DEF SetMission, ResetMission, Crash, LandedChanges
  <2>3. \A mode, known, result : ~Deactivate(mode, known, result)
    BY DEF Deactivate
  <2> QED  BY <1>3, <2>1, <2>2, <2>3, GroundActivate, GroundModeCompletes DEF Interference
<1>4. CASE UNCHANGED vars
  <2>1. /\ UNCHANGED <<mission, landed, index, active, nav, itemState, traj, sched, timer, later>>
        /\ aborted' = aborted /\ todo' = todo
    BY <1>4 DEF vars
  <2> QED  BY <2>1, GroundStays DEF Known
<1> QED  BY <1>1, <1>2, <1>3, <1>4 DEF Next

\* Under these conditions a mission flies its trajectories in the air, whatever
\* fails, aborts, is interrupted, landed by a pilot or restarted
\* (OnResume::resumeFromUnexpectedLanding(), navigateToPreviousWaypoint()).
THEOREM TakesOffBeforeFlight == TakesOffFirst => (Spec => []NoFlightFromGround)
<1> SUFFICES ASSUME TakesOffFirst PROVE Spec => []NoFlightFromGround
  OBVIOUS
<1>1. Spec => []AbortInv
  BY AbortHolds DEF TakesOffFirst
<1>2. Spec => []PlaceInv
  BY PlaceHolds DEF TakesOffFirst
<1>3. CoreInv /\ CalmInv /\ ~active => GroundInv
  BY GroundInactive
<1>4. Known /\ CoreInv' /\ FlightInv /\ KeepInv /\ PlaceInv /\ GroundInv /\ [Next]_vars /\ active'
        => GroundInv'
  BY GroundNext
<1>5. CoreInv /\ CalmInv /\ AbortInv => Known
  BY DEF Known
<1>6. Init => ~active
  BY DEF Init, Memory
<1>7. GroundInv => NoFlightFromGround
  BY DEF GroundInv, Flown, NoFlightFromGround
<1> QED  BY <1>1, <1>2, <1>3, <1>4, <1>5, <1>6, <1>7, CoreHolds, CalmHolds, FlightHolds, KeepHolds,
            PTL DEF Spec
=============================================================================
