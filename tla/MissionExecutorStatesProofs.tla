--------------------- MODULE MissionExecutorStatesProofs ---------------------
(***************************************************************************)
(* The states of continuous actions that MissionExecutor stores: KeepInv   *)
(* says that between the resumption of a mission and its interruption the  *)
(* state keepers hold exactly the states that are stored, and SettingsInv  *)
(* that the settings stored, or still to be restored, are those the        *)
(* mission has asked for.  Both rest on CoreInv.                           *)
(***************************************************************************)
EXTENDS MissionExecutorProofs

\* The keepers are empty while a mission resumes, and afterwards they hold
\* every state that is stored.
Fresh == \A n \in Restorable : keeper[n] = NoId
Kept  == \A i \in DOMAIN stored : stored[i] \in Restorable /\ keeper[stored[i]] = i
OfItem(c) == c.k \in {"next", "segment"}
Phase(c)  == Continues(c) => IF OfItem(c) THEN Kept ELSE Fresh

StatesKept ==
  /\ \A n \in Continuous : keeper[n] < nextId
  /\ ~active => Fresh
  /\ KeepersOwnState
  /\ Distinct(file.actions)

Phases ==
  /\ Phase(sched.done) /\ Phase(timer) /\ Phase(later)
  /\ traj.at # NoIndex => Phase(traj.done)
  /\ \A i \in DOMAIN todo : Phase(todo[i].done)

FramesKept ==
  /\ HeadIs("action") =>
       /\ todo[1].arg \notin {"onResume", "onFailure", "takeoff"} => todo[1].done.k = "next"
       /\ todo[1].arg = "onResume" => todo[1].done.k = "resumed"
  /\ HeadIs("stored") => Len(todo) = 2 /\ todo[2].op = "item" /\ Fresh
  /\ \A i \in DOMAIN todo : todo[i].op = "item" => HeadIs("stored") \/ Kept
  /\ \A i \in DOMAIN todo : todo[i].op = "restore" => Kept /\ todo[Len(todo)].op = "item"

KeepInv == StatesKept /\ Phases /\ FramesKept

\* The settings are stored, or still to be restored.
HasSettings == \E i \in DOMAIN stored : stored[i] = "settings"
Restores == \E i \in DOMAIN todo : todo[i].op = "restore" /\ todo[i].arg = "settings"

\* An item runs with the settings that are stored, and while a mission resumes
\* none are applied and no segment is flown.
GivenUp == asked = "given up"
Applied == GivenUp \/ (options <=> HasSettings)
Quiet   == itemState = "Other" \/ traj.done.k # "segment"
SettingsPhase(c) == Continues(c) => IF OfItem(c) THEN Applied ELSE ~options /\ Quiet

SettingsAsked ==
  /\ GivenUp \/ ((asked = "changed") <=> (HasSettings \/ Restores))
  /\ index = NoIndex => ~HasSettings

SettingsSaved ==
  \/ file.asked = "given up"
  \/ (file.asked = "changed") <=> \E i \in DOMAIN file.actions : file.actions[i] = "settings"

SettingsPhases ==
  /\ SettingsPhase(sched.done) /\ SettingsPhase(timer) /\ SettingsPhase(later)
  /\ traj.at # NoIndex => SettingsPhase(traj.done)
  /\ \A i \in DOMAIN todo : SettingsPhase(todo[i].done)

SettingsFrames ==
  /\ HeadIs("stored") => ~options
  /\ \A i \in DOMAIN todo : todo[i].op = "item" => HeadIs("stored") \/ Applied
  /\ \A i \in DOMAIN todo : todo[i].op \in {"restore", "stored"} => Quiet

SettingsFlown ==
  /\ active /\ (itemState = "Trajectory" \/ Flies(todo)) /\ traj.done.k = "segment"
       => GivenUp \/ traj.options = (asked = "changed")
  /\ Flies(todo) => ~SchedC /\ ~TimerC /\ ~LaterC

SettingsInv ==
  SettingsAsked /\ SettingsSaved /\ SettingsPhases /\ SettingsFrames /\ SettingsFlown

-----------------------------------------------------------------------------
(* The keepers and the states they own.                                     *)

\* What Phases and FramesKept ask of a closure and of a frame after a step.
NextPhase(c) == Continues(c) => IF OfItem(c) THEN Kept' ELSE Fresh'
NextFrame(f) ==
  /\ NextPhase(f.done)
  /\ f.op \notin {"stored", "restore"}
  /\ f.op = "item" => Kept'
  /\ f.op = "action" =>
       /\ f.arg \notin {"onResume", "onFailure", "takeoff"} => f.done.k = "next"
       /\ f.arg = "onResume" => f.done.k = "resumed"

\* The closures and frames that the steps make.
LEMMA NextFrames ==
  /\ NextPhase(Nothing) /\ NextPhase(NoSched.done)
  /\ NextFrame(Abort)
  /\ NextFrame(RunMode("own", Nothing)) /\ NextFrame(RunMode("Loiter", Nothing))
  /\ NextFrame(Frame("flying", "", Nothing))
  /\ Kept' => NextFrame(RunItem)
  /\ \A c \in Closures : NextPhase(c) => NextFrame(Call(c))
  /\ \A m \in Modes \ {"own"}, c \in Closures : NextPhase(c) => NextFrame(RunMode(m, c))
  /\ \A c \in Completions : NextPhase(c) => NextFrame(Frame("hold", "", c))
<1>1. NextPhase(Nothing) /\ NextPhase(NoSched.done)
  BY CompletionTypes DEF NextPhase, NoSched
<1>2. NextFrame(Abort)
  BY <1>1, SimpleFrames DEF NextFrame
<1>3. NextFrame(RunMode("own", Nothing)) /\ NextFrame(RunMode("Loiter", Nothing))
  BY <1>1, SimpleFrames DEF NextFrame
<1>4. NextFrame(Frame("flying", "", Nothing))
  BY <1>1, SimpleFrames DEF NextFrame
<1>5. Kept' => NextFrame(RunItem)
  BY <1>1, SimpleFrames DEF NextFrame
<1>6. ASSUME NEW c \in Closures, NextPhase(c) PROVE NextFrame(Call(c))
  <2> DEFINE f == Call(c)
  <2>1. f.op = "call" /\ f.done = c
    BY NewCall
  <2> HIDE DEF f
  <2>2. NextFrame(f)
    BY <1>6, <2>1 DEF NextFrame
  <2> QED  BY <2>2 DEF f
<1>7. ASSUME NEW m \in Modes \ {"own"}, NEW c \in Closures, NextPhase(c)
      PROVE  NextFrame(RunMode(m, c))
  <2> DEFINE f == RunMode(m, c)
  <2>1. f.op = "mode" /\ f.done = c
    BY NewMode
  <2> HIDE DEF f
  <2>2. NextFrame(f)
    BY <1>7, <2>1 DEF NextFrame
  <2> QED  BY <2>2 DEF f
<1>8. ASSUME NEW c \in Completions, NextPhase(c) PROVE NextFrame(Frame("hold", "", c))
  <2> DEFINE f == Frame("hold", "", c)
  <2>1. f.op = "hold" /\ f.done = c
    BY NewHold
  <2> HIDE DEF f
  <2>2. NextFrame(f)
    BY <1>8, <2>1 DEF NextFrame
  <2> QED  BY <2>2 DEF f
<1> QED  BY <1>1, <1>2, <1>3, <1>4, <1>5, <1>6, <1>7, <1>8

\* Phases after a step, closure by closure.
LEMMA PhasesNow ==
  ASSUME NextPhase(sched'.done), NextPhase(timer'), NextPhase(later'),
         traj'.at # NoIndex => NextPhase(traj'.done),
         \A i \in DOMAIN todo' : NextPhase(todo'[i].done)
  PROVE  Phases'
BY DEF Phases, Phase, NextPhase

\* The stacks of a callback that begins, or whose first frame had the token.
LEMMA KeepFrames ==
  ASSUME StatesKept',
         \/ todo' = <<>>
         \/ \E f : NextFrame(f) /\ todo' = <<f>>
         \/ \E f, g : NextFrame(f) /\ NextFrame(g) /\ todo' = <<f, g>>
         \/ Fresh' /\ todo' = <<RunStored, RunItem>>,
         NextPhase(sched'.done), NextPhase(timer'), NextPhase(later'),
         traj'.at # NoIndex => NextPhase(traj'.done)
  PROVE  KeepInv'
<1>1. /\ DOMAIN <<>> = {}
      /\ \A f : <<f>> # <<>> /\ DOMAIN <<f>> = {1} /\ <<f>>[1] = f /\ Len(<<f>>) = 1
      /\ \A f, g : <<f, g>> # <<>> /\ DOMAIN <<f, g>> = {1, 2} /\ <<f, g>>[1] = f
                   /\ <<f, g>>[2] = g /\ Len(<<f, g>>) = 2
  OBVIOUS
<1>2. CASE \/ todo' = <<>>
           \/ \E f : NextFrame(f) /\ todo' = <<f>>
           \/ \E f, g : NextFrame(f) /\ NextFrame(g) /\ todo' = <<f, g>>
  <2>1. /\ \A i \in DOMAIN todo' : NextFrame(todo'[i])
        /\ todo' # <<>> => 1 \in DOMAIN todo'
    <3>1. CASE todo' = <<>>
      BY <1>1, <3>1
    <3>2. CASE \E f : NextFrame(f) /\ todo' = <<f>>
      BY <1>1, <3>2
    <3>3. CASE \E f, g : NextFrame(f) /\ NextFrame(g) /\ todo' = <<f, g>>
      <4>1. PICK f, g : NextFrame(f) /\ NextFrame(g) /\ todo' = <<f, g>>
        BY <3>3
      <4>2. DOMAIN todo' = {1, 2} /\ todo'[1] = f /\ todo'[2] = g
        BY <1>1, <4>1
      <4> QED  BY <4>1, <4>2
    <3> QED  BY <1>2, <3>1, <3>2, <3>3
  <2>2. FramesKept'
    BY <2>1 DEF FramesKept, HeadIs, NextFrame
  <2>3. Phases'
    BY <2>1, PhasesNow DEF NextFrame
  <2> QED  BY <2>2, <2>3 DEF KeepInv
<1>3. CASE Fresh' /\ todo' = <<RunStored, RunItem>>
  <2>1. /\ todo' # <<>> /\ DOMAIN todo' = {1, 2} /\ Len(todo') = 2
        /\ todo'[1].op = "stored" /\ todo'[2].op = "item"
        /\ todo'[1].done = Nothing /\ todo'[2].done = Nothing
    BY <1>1, <1>3, SimpleFrames
  <2>2. FramesKept'
    BY <1>3, <2>1 DEF FramesKept, HeadIs
  <2>3. \A i \in DOMAIN todo' : NextPhase(todo'[i].done)
    BY <2>1, NextFrames
  <2>4. Phases'
    BY <2>3, PhasesNow
  <2> QED  BY <2>2, <2>4 DEF KeepInv
<1> QED  BY <1>2, <1>3

\* The states stay as they are.
LEMMA SameStates ==
  ASSUME StatesKept, UNCHANGED <<active, stored, nextId, keeper, file>>
  PROVE  /\ StatesKept'
         /\ Kept' <=> Kept
         /\ Fresh' <=> Fresh
         /\ \A c : NextPhase(c) <=> Phase(c)
BY DEF StatesKept, KeepersOwnState, Kept, Fresh, Distinct, NextPhase, Phase

\* The steps that push frames without a token keep the frames below.
LEMMA FramesPushed ==
  ASSUME CoreInv, FramesKept, ~Idle, todo[1].op # "stored",
         NEW fr \in Seq(Frames), todo' = fr \o Tail(todo),
         \A j \in DOMAIN fr : /\ fr[j].op \in {"abort", "mode", "call", "action"}
                              /\ fr[j].op = "action" => fr[j].arg = "onFailure",
         Kept => Kept'
  PROVE  FramesKept'
<1>1. /\ todo \in Seq(Frames) /\ todo # <<>> /\ 1 \in DOMAIN todo /\ Shape(todo)
      /\ Len(todo) \in Nat /\ Len(todo) > 0 /\ DOMAIN todo = 1 .. Len(todo)
  BY TopFrame DEF CoreInv, StackInv
<1>2. \A i \in DOMAIN todo' : \/ \E j \in DOMAIN fr : todo'[i] = fr[j]
                              \/ \E j \in DOMAIN todo : j # 1 /\ todo'[i] = todo[j]
  BY PushedFrames, Zenon DEF CoreInv
<1>3. \A j \in DOMAIN todo : j # 1 => todo[j].op \in Parked
  BY <1>1 DEF Shape
<1>4. todo' # <<>> => 1 \in DOMAIN todo'
  <2>1. todo' \in Seq(Frames)
    BY <1>1, Replaced
  <2> QED  BY <2>1
<1>5. (HeadIs("action") =>
         /\ todo[1].arg \notin {"onResume", "onFailure", "takeoff"} => todo[1].done.k = "next"
         /\ todo[1].arg = "onResume" => todo[1].done.k = "resumed")'
  BY <1>2, <1>3, <1>4 DEF HeadIs, Parked
<1>6. ~HeadIs("stored")'
  BY <1>2, <1>3, <1>4 DEF HeadIs, Parked
<1>7. \A i \in DOMAIN todo' : todo'[i].op = "item" => Kept'
  BY <1>2 DEF FramesKept, HeadIs
<1>8. ASSUME NEW i \in DOMAIN todo', todo'[i].op = "restore"
      PROVE  Kept' /\ todo'[Len(todo')].op = "item"
  <2>1. PICK j \in DOMAIN todo : j # 1 /\ todo'[i] = todo[j]
    BY <1>2, <1>8
  <2>2. Kept /\ todo[Len(todo)].op = "item"
    BY <1>8, <2>1 DEF FramesKept
  <2>3. Len(todo) > 1
    BY <1>1, <2>1
  <2>4. todo'[Len(todo')] = todo[Len(todo)]
    <3>1. /\ Len(todo') = Len(fr) + Len(todo) - 1
          /\ \A n \in 2 .. Len(todo) : todo'[n + Len(fr) - 1] = todo[n]
      BY <1>1, Replaced
    <3>2. Len(todo) \in 2 .. Len(todo) /\ Len(fr) \in Nat
      BY <1>1, <2>3
    <3>3. Len(todo') = Len(todo) + Len(fr) - 1
      BY <1>1, <3>1, <3>2
    <3> QED  BY <3>1, <3>2, <3>3
  <2> QED  BY <2>2, <2>4
<1> QED  BY <1>5, <1>6, <1>7, <1>8 DEF FramesKept

\* A step without the token that neither aborts nor restores.
LEMMA KeepQuiet ==
  ASSUME CoreInv, KeepInv, ~Idle, active, ~Carry(todo[1]), QuietResult,
         todo[1].op \notin {"abort", "aborted", "stored", "restore"}
  PROVE  KeepInv'
<1>1. PICK fr : Pushes(fr)
  BY DEF QuietResult
<1>2. /\ QuietFrames(fr) /\ todo' = fr \o Tail(todo)
      /\ fr \in Seq(Frames) /\ ~Carries(fr)
  BY <1>1 DEF Pushes, QuietFrames
<1>3. UNCHANGED <<active, stored, nextId, keeper, file, traj, later>>
  BY DEF QuietResult
<1>4. /\ StatesKept' /\ (Kept' <=> Kept) /\ (Fresh' <=> Fresh)
      /\ \A c : NextPhase(c) <=> Phase(c)
  BY <1>3, SameStates DEF KeepInv
<1>5. \A j \in DOMAIN fr : /\ fr[j].op \in {"abort", "mode", "call", "action"}
                           /\ fr[j].op = "action" => fr[j].arg = "onFailure"
  <2>1. DOMAIN <<>> = {} /\ \A f : DOMAIN <<f>> = {1} /\ <<f>>[1] = f
    OBVIOUS
  <2>2. Call(Nothing).op = "call" /\ Abort.op = "abort"
    BY SimpleFrames, NewCall, CompletionTypes
  <2> QED  BY <1>1, <1>2, <2>1, <2>2 DEF Pushes, QuietFrames
<1>6. FramesKept'
  BY <1>2, <1>4, <1>5, FramesPushed DEF KeepInv
<1>7. \A i \in DOMAIN todo' : NextPhase(todo'[i].done)
  <2>1. \A i \in DOMAIN todo' : \/ \E j \in DOMAIN fr : todo'[i] = fr[j]
                                \/ \E j \in DOMAIN todo : j # 1 /\ todo'[i] = todo[j]
    BY <1>2, PushedFrames, Zenon DEF CoreInv
  <2>2. \A j \in DOMAIN fr : NextPhase(fr[j].done)
    BY <1>2 DEF Carries, Carry, NextPhase
  <2>3. \A j \in DOMAIN todo : NextPhase(todo[j].done)
    BY <1>4 DEF KeepInv, Phases
  <2> QED  BY <2>1, <2>2, <2>3
<1>8. NextPhase(sched'.done) /\ NextPhase(timer')
  <2>1. NextPhase(sched.done) /\ NextPhase(timer)
    BY <1>4 DEF KeepInv, Phases
  <2> QED  BY <2>1 DEF QuietResult, SchedC, TimerC, NextPhase
<1>9. NextPhase(later') /\ (traj'.at # NoIndex => NextPhase(traj'.done))
  BY <1>3, <1>4 DEF KeepInv, Phases
<1>10. Phases'
  BY <1>7, <1>8, <1>9, PhasesNow
<1> QED  BY <1>4, <1>6, <1>10 DEF KeepInv

-----------------------------------------------------------------------------
\* While an item waits in the stack no closure carries the mission on.
LEMMA ItemPhases ==
  CoreInv /\ todo # <<>> /\ todo[Len(todo)].op = "item" => Phases /\ SettingsPhases
<1> SUFFICES ASSUME CoreInv, todo # <<>>, todo[Len(todo)].op = "item"
             PROVE  Phases /\ SettingsPhases
  OBVIOUS
<1>1. /\ todo \in Seq(Frames) /\ Len(todo) \in Nat /\ Len(todo) > 0
      /\ DOMAIN todo = 1 .. Len(todo)
  BY TopFrame DEF CoreInv, Idle
<1>2. Len(todo) \in DOMAIN todo /\ Carries(todo)
  BY <1>1 DEF Carries, Carry
<1>3. ~SchedC /\ ~TimerC /\ ~LaterC /\ ~TrajC
  BY <1>2 DEF CoreInv, TokenInv, OneToken, Waits
<1>4. \A i \in DOMAIN todo : ~Continues(todo[i].done)
  <2>1. TAKE i \in DOMAIN todo
  <2>2. CASE i = Len(todo)
    <3>1. todo[i] \in Frames
      BY <1>1
    <3> QED  BY <2>2, <3>1, FrameTypes, CompletionTypes
  <2>3. CASE i # Len(todo)
    <3>1. i \in 1 .. Len(todo) - 1
      BY <1>1, <2>3
    <3> QED  BY <3>1 DEF CoreInv, StackInv, Shape, Carry
  <2> QED  BY <2>2, <2>3
<1> QED  BY <1>3, <1>4 DEF Phases, Phase, SettingsPhases, SettingsPhase, SchedC, TimerC, LaterC, TrajC

\* A state that is stored while the keepers hold every one.
LEMMA StateKept ==
  ASSUME CoreInv, active, StatesKept, Kept, NEW n \in Restorable, StoreState(n),
         UNCHANGED <<active, file>>
  PROVE  StatesKept' /\ Kept'
<1>1. /\ nextId \in Nat /\ keeper \in [Continuous -> Nat \cup {NoId}] /\ NoId = -1
      /\ Restorable \subseteq Continuous /\ StoredTypes(stored) /\ n \in Continuous
  BY DEF CoreInv, TypeOK, StoredTypes, Continuous, NoId
<1>2. /\ \A m \in Continuous : keeper[m] \in Int /\ keeper[m] < nextId
      /\ \A m \in Restorable :
           keeper[m] # NoId => keeper[m] \in DOMAIN stored /\ stored[keeper[m]] = m
      /\ \A i \in DOMAIN stored : stored[i] \in Restorable /\ keeper[stored[i]] = i
  BY <1>1 DEF StatesKept, KeepersOwnState, Kept
<1>3. nextId' = nextId + 1 /\ keeper' = [keeper EXCEPT ![n] = nextId]
  BY DEF StoreState
<1> DEFINE g == With(nextId, n)
<1>4. /\ StoredTypes(g) /\ DOMAIN g = DOMAIN stored \cup {nextId} /\ g[nextId] = n
      /\ \A i \in DOMAIN stored : i # nextId => g[i] = stored[i]
  BY <1>1, StoredWith
<1>5. stored' = Without(g, {keeper[n]} \ {nextId})
  BY DEF StoreState
<1> HIDE DEF g
<1>6. /\ DOMAIN stored' = (DOMAIN stored \cup {nextId}) \ {keeper[n]}
      /\ \A i \in DOMAIN stored' : stored'[i] = g[i]
      /\ nextId \in DOMAIN stored'
  <2>1. keeper[n] # nextId
    BY <1>1, <1>2
  <2> QED  BY <1>4, <1>5, <2>1 DEF Without
<1>7. \A i \in DOMAIN stored' :
        \/ i = nextId /\ stored'[i] = n
        \/ i # nextId /\ i \in DOMAIN stored /\ stored'[i] = stored[i] /\ stored[i] # n
  BY <1>2, <1>4, <1>6
<1>8. /\ keeper'[n] = nextId
      /\ \A m \in Continuous : m # n => keeper'[m] = keeper[m]
  BY <1>1, <1>3
<1>9. Kept'
  <2>1. \A i \in DOMAIN stored' : stored'[i] \in Restorable /\ keeper'[stored'[i]] = i
    BY <1>1, <1>2, <1>7, <1>8
  <2> QED  BY <2>1 DEF Kept
<1>10. KeepersOwnState'
  <2>1. \A m \in Restorable :
          keeper'[m] # NoId => keeper'[m] \in DOMAIN stored' /\ stored'[keeper'[m]] = m
    <3>1. TAKE m \in Restorable
    <3>2. CASE m = n
      BY <1>6, <1>7, <1>8, <3>2
    <3>3. CASE m # n /\ keeper[m] # NoId
      <4>1. /\ keeper[m] \in DOMAIN stored /\ stored[keeper[m]] = m
            /\ keeper'[m] = keeper[m] /\ keeper[m] # nextId
        BY <1>1, <1>2, <1>8, <3>3
      <4>2. keeper[m] # keeper[n]
        BY <1>2, <3>3, <4>1
      <4> QED  BY <1>6, <1>7, <4>1, <4>2
    <3>4. CASE m # n /\ keeper[m] = NoId
      BY <1>1, <1>8, <3>4
    <3> QED  BY <3>2, <3>3, <3>4
  <2>2. \A i, j \in DOMAIN stored' : stored'[i] = stored'[j] => i = j
    BY <1>9 DEF Kept
  <2> QED  BY <2>1, <2>2 DEF KeepersOwnState
<1>11. \A m \in Continuous : keeper'[m] < nextId'
  BY <1>1, <1>2, <1>3, <1>8
<1> QED  BY <1>9, <1>10, <1>11 DEF StatesKept

\* A state that its keeper removes.
LEMMA StateRemoved ==
  ASSUME CoreInv, active, StatesKept, NEW n \in Restorable,
         stored' = Without(stored, {keeper[n]}), keeper' = [keeper EXCEPT ![n] = NoId],
         UNCHANGED <<active, file, nextId>>
  PROVE  StatesKept' /\ (Kept => Kept')
<1>1. /\ nextId \in Nat /\ keeper \in [Continuous -> Nat \cup {NoId}] /\ NoId = -1
      /\ Restorable \subseteq Continuous /\ StoredTypes(stored) /\ n \in Continuous
  BY DEF CoreInv, TypeOK, StoredTypes, Continuous, NoId
<1>2. /\ DOMAIN stored' = DOMAIN stored \ {keeper[n]}
      /\ \A i \in DOMAIN stored' : stored'[i] = stored[i]
  BY DEF Without
<1>3. keeper'[n] = NoId /\ \A m \in Continuous : m # n => keeper'[m] = keeper[m]
  BY <1>1
<1>4. \A m \in Continuous : keeper'[m] < nextId'
  BY <1>1, <1>3 DEF StatesKept
<1>5. KeepersOwnState'
  <2>1. \A m \in Restorable :
          keeper'[m] # NoId => keeper'[m] \in DOMAIN stored' /\ stored'[keeper'[m]] = m
    <3>1. SUFFICES ASSUME NEW m \in Restorable, keeper'[m] # NoId
                   PROVE  keeper'[m] \in DOMAIN stored' /\ stored'[keeper'[m]] = m
      OBVIOUS
    <3>2. m # n /\ keeper'[m] = keeper[m] /\ keeper[m] \in DOMAIN stored /\ stored[keeper[m]] = m
      BY <1>1, <1>3, <3>1 DEF StatesKept, KeepersOwnState
    <3>3. keeper[n] # keeper[m]
      BY <1>1, <1>3, <3>1, <3>2 DEF StatesKept, KeepersOwnState
    <3> QED  BY <1>2, <3>2, <3>3
  <2>2. \A i, j \in DOMAIN stored' : stored'[i] = stored'[j] => i = j \/ stored'[i] = "onResume"
    BY <1>2 DEF StatesKept, KeepersOwnState
  <2> QED  BY <2>1, <2>2 DEF KeepersOwnState
<1>6. Kept => Kept'
  BY <1>1, <1>2, <1>3 DEF Kept
<1> QED  BY <1>4, <1>5, <1>6 DEF StatesKept

\* States that are taken while the keepers are empty.
LEMMA FreshStates ==
  ASSUME StatesKept, Fresh, UNCHANGED <<keeper, nextId>>,
         Distinct(stored'), Distinct(file'.actions)
  PROVE  StatesKept' /\ Fresh'
BY DEF StatesKept, KeepersOwnState, Fresh, Distinct, NoId

\* The actions that may be restored.
LEMMA RestoreRuns ==
  ASSUME CoreInv, Step, todo[1].op = "restore"
  PROVE  ChangeSettingsRuns \/ CameraRuns
<1>1. \A name : Action(name) => name \in Restorable
  BY ActionTop
<1>2. \A name \in {"rtl", "land", "takeoff", "hold", "custom", "onResume", "onFailure"} :
        ~Action(name)
  BY <1>1 DEF Restorable
<1>3. DOMAIN ModeOf = {"rtl", "land", "takeoff"}
  BY DEF ModeOf
<1>4. Head(todo).op = "restore"
  BY StepRuns, TopFrame DEF CoreInv
<1>5. ~Top("begin") /\ ~Top("item") /\ ~Top("flying") /\ ~Top("mode") /\ ~Top("hold")
      /\ ~Top("stored") /\ ~Top("abort") /\ ~Top("aborted") /\ ~Top("call")
  BY <1>4 DEF Top
<1>6. ~ModeActionRuns
  BY <1>2, <1>3 DEF ModeActionRuns
<1>7. ~HoldRuns /\ ~OnFailureRuns
  <2>1. ~Action("hold") /\ ~Action("onFailure")
    BY <1>2
  <2> QED  BY <2>1, Zenon DEF HoldRuns, OnFailureRuns
<1>8. ~Action("custom") /\ ~Action("onResume")
  BY <1>2
<1>9. /\ \A outcome \in CustomOutcomes : ~CustomRuns(outcome)
      /\ \A known \in LandedKnown : ~OnResumeRuns(known)
  BY <1>8 DEF CustomRuns, OnResumeRuns
<1>10. ~Begin /\ ~ItemRuns /\ ~Flying /\ ~ModeRuns /\ ~HoldStarts
  BY <1>5 DEF Begin, ItemRuns, Flying, ModeRuns, HoldStarts
<1>11. ~StoredRun /\ ~AbortReturns /\ ~CallRuns
  BY <1>5 DEF StoredRun, AbortReturns, CallRuns
<1>12. ~Aborts
  BY <1>5, Zenon DEF Aborts
<1> QED  BY <1>6, <1>7, <1>9, <1>10, <1>11, <1>12 DEF Step

\* A state that is stored again by the action that runStoredActions() runs.
LEMMA KeepRestore ==
  ASSUME CoreInv, KeepInv, Step, todo[1].op = "restore", CoreInv'
  PROVE  KeepInv'
<1> USE DEF missionVars, stateVars, runVars, pendingVars, worldVars, historyVars
<1>1. ~Idle /\ active /\ todo[1] \in Frames /\ 1 \in DOMAIN todo /\ todo # <<>>
  BY StepRuns DEF Idle
<1>2. ~Carry(todo[1])
  BY <1>1, FrameTypes, CompletionTypes DEF Carry
<1>3. QuietResult
  BY <1>2, QuietSteps
<1>4. PICK fr : Pushes(fr)
  BY <1>3 DEF QuietResult
<1>5. UNCHANGED <<active, file>>
  BY <1>3 DEF QuietResult
<1>6. Kept /\ todo[Len(todo)].op = "item" /\ StatesKept /\ FramesKept
  BY <1>1 DEF KeepInv, FramesKept
<1>7. StatesKept' /\ Kept'
  <2>1. ChangeSettingsRuns \/ CameraRuns
    BY RestoreRuns
  <2>2. CASE \E n \in Restorable : StoreState(n)
    BY <1>1, <1>5, <1>6, <2>2, StateKept
  <2>3. CASE UNCHANGED <<stored, nextId, keeper>>
    BY <1>5, <1>6, <2>3, SameStates
  <2>4. CASE Action("reset")
    BY <2>4, ActionTop DEF Restorable
  <2> QED  BY <2>1, <2>2, <2>3, <2>4 DEF ChangeSettingsRuns, CameraRuns, Restorable
<1>8. /\ fr \in Seq(Frames) /\ todo' = fr \o Tail(todo) /\ Len(fr) = 1
      /\ \A j \in DOMAIN fr : fr[j].op \in {"abort", "call"}
  <2>1. \A f : DOMAIN <<f>> = {1} /\ <<f>>[1] = f /\ Len(<<f>>) = 1
    OBVIOUS
  <2>2. Call(Nothing).op = "call" /\ Abort.op = "abort"
    BY DEF Call, Abort, Frame
  <2>3. fr = <<Call(Nothing)>> \/ fr = <<Abort>>
    BY <1>1, <1>4 DEF Pushes
  <2> QED  BY <1>4, <2>1, <2>2, <2>3 DEF Pushes, QuietFrames
<1>9. FramesKept'
  BY <1>1, <1>6, <1>7, <1>8, FramesPushed
<1>10. todo' # <<>> /\ todo'[Len(todo')].op = "item"
  <2>1. /\ todo' \in Seq(Frames) /\ Len(todo') = Len(fr) + Len(todo) - 1
        /\ \A i \in 2 .. Len(todo) : todo'[i + Len(fr) - 1] = todo[i]
    <3>1. todo \in Seq(Frames) /\ todo # <<>>
      BY <1>1, TopFrame DEF CoreInv
    <3> QED  BY <1>8, <3>1, Replaced
  <2>2. Len(todo) \in Nat /\ Len(todo) > 1
    BY <1>1, <1>6, TopFrame DEF CoreInv
  <2>3. Len(todo') = Len(todo) /\ Len(todo) \in 2 .. Len(todo) /\ Len(todo) + Len(fr) - 1 = Len(todo)
    BY <1>8, <2>1, <2>2
  <2> QED  BY <1>6, <2>1, <2>2, <2>3
<1>11. Phases'
  <2>1. (CoreInv /\ todo # <<>> /\ todo[Len(todo)].op = "item" => Phases /\ SettingsPhases)'
    BY ItemPhases, PTL
  <2> QED  BY <1>10, <2>1
<1> QED  BY <1>7, <1>9, <1>11 DEF KeepInv

\* runStoredActions() empties the store before it restores.
LEMMA KeepStoredRun ==
  ASSUME CoreInv, KeepInv, StoredRun, CoreInv'
  PROVE  KeepInv'
<1> USE DEF missionVars, stateVars, runVars, pendingVars, worldVars, historyVars
<1>1. /\ ~Idle /\ todo # <<>> /\ todo[1].op = "stored" /\ todo \in Seq(Frames)
  BY TopFrame DEF StoredRun, Top, CoreInv
<1>2. Len(todo) = 2 /\ todo[2].op = "item" /\ Fresh
  BY <1>1 DEF KeepInv, FramesKept, HeadIs
<1>3. DOMAIN stored' = {} /\ UNCHANGED <<keeper, nextId, file>>
  <2>1. DOMAIN <<>> = {}
    OBVIOUS
  <2> QED  BY <2>1 DEF StoredRun
<1>4. StatesKept' /\ Kept'
  <2>1. Distinct(stored')
    BY <1>3 DEF Distinct
  <2>2. Distinct(file'.actions)
    BY <1>3 DEF KeepInv, StatesKept
  <2> QED  BY <1>2, <1>3, <2>1, <2>2, FreshStates DEF KeepInv, Kept
<1> DEFINE names == InOrder(Without(stored, {i \in DOMAIN stored : stored[i] = "onResume"}))
           fr    == [i \in DOMAIN names |-> Frame("restore", names[i], Nothing)]
<1>5. /\ fr \in Seq(Frames)
      /\ \A i \in DOMAIN fr : fr[i].op = "restore"
  <2>1. StoredTypes(stored)
    BY DEF CoreInv, TypeOK, StoredTypes
  <2> QED  BY <2>1, RestoreFrames DEF QuietFrames
<1>6. todo' = fr \o Tail(todo)
  BY DEF StoredRun, Then
<1> HIDE DEF fr
<1>7. \A i \in DOMAIN todo' : todo'[i].op \in {"restore", "item"}
  <2>1. \A i \in DOMAIN todo' : \/ \E j \in DOMAIN fr : todo'[i] = fr[j]
                                \/ \E j \in DOMAIN todo : j # 1 /\ todo'[i] = todo[j]
    BY <1>1, <1>5, <1>6, PushedFrames, Zenon DEF CoreInv
  <2>2. DOMAIN todo = {1, 2}
    BY <1>1, <1>2
  <2> QED  BY <1>2, <1>5, <2>1, <2>2
<1>8. todo' # <<>> /\ todo'[Len(todo')].op = "item"
  <2>1. /\ todo' \in Seq(Frames) /\ Len(todo') = Len(fr) + Len(todo) - 1
        /\ \A i \in 2 .. Len(todo) : todo'[i + Len(fr) - 1] = todo[i]
    BY <1>1, <1>5, <1>6, Replaced
  <2>2. Len(fr) \in Nat /\ Len(todo') = Len(fr) + 1 /\ 2 \in 2 .. Len(todo)
    BY <1>2, <1>5, <2>1
  <2>3. todo'[2 + Len(fr) - 1] = todo[2] /\ 2 + Len(fr) - 1 = Len(todo')
    BY <2>1, <2>2
  <2> QED  BY <1>2, <2>1, <2>2, <2>3
<1>9. FramesKept'
  <2>1. todo' # <<>> => 1 \in DOMAIN todo'
    BY <1>8 DEF CoreInv, TypeOK
  <2> QED  BY <1>4, <1>7, <1>8, <2>1 DEF FramesKept, HeadIs
<1>10. Phases'
  <2>1. (CoreInv /\ todo # <<>> /\ todo[Len(todo)].op = "item" => Phases /\ SettingsPhases)'
    BY ItemPhases, PTL
  <2> QED  BY <1>8, <2>1
<1> QED  BY <1>4, <1>9, <1>10 DEF KeepInv

\* The actions are deactivated: their keepers remove what they have stored.
LEMMA KeptNothing ==
  ASSUME CoreInv, StatesKept, active, nextId' = nextId, UNCHANGED <<active, file>>,
         stored' = Without(stored, {keeper[n] : n \in Restorable}), keeper' = Dropped
  PROVE  StatesKept' /\ (Kept => Kept')
<1>1. /\ nextId \in Nat /\ keeper \in [Continuous -> Nat \cup {NoId}] /\ NoId = -1
      /\ "onResume" \notin Restorable /\ Continuous = Restorable \cup {"onResume"}
  BY DEF CoreInv, TypeOK, Continuous, NoId, Restorable
<1>2. /\ \A n \in Restorable : keeper'[n] = NoId
      /\ keeper'["onResume"] = keeper["onResume"]
  BY <1>1 DEF Dropped
<1>3. /\ DOMAIN stored' = DOMAIN stored \ {keeper[n] : n \in Restorable}
      /\ \A i \in DOMAIN stored' : stored'[i] = stored[i]
  BY DEF Without
<1>4. \A n \in Continuous : keeper'[n] < nextId'
  BY <1>1, <1>2 DEF StatesKept
<1>5. KeepersOwnState'
  BY <1>2, <1>3 DEF StatesKept, KeepersOwnState
<1>6. Kept => Kept'
  BY <1>3 DEF Kept
<1> QED  BY <1>4, <1>5, <1>6 DEF StatesKept

\* What an abort does to the states: nothing, or it removes those of the
\* keepers (deactivateAllActions()).
LEMMA AbortStates ==
  ASSUME Aborts
  PROVE  /\ UNCHANGED <<nextId, active, file>>
         /\ \/ UNCHANGED <<stored, keeper>>
            \/ /\ stored' = Without(stored, {keeper[n] : n \in Restorable})
               /\ keeper' = Dropped
<1>1. UNCHANGED <<missionVars, index, nextId, active, itemState, activeMode, options, worldVars,
                  file, stops>>
  BY Zenon DEF Aborts
<1>2. \/ UNCHANGED <<stored, keeper, level>>
      \/ /\ stored' = Without(stored, {keeper[n] : n \in Restorable})
         /\ keeper' = Dropped
  BY Zenon DEF Aborts
<1> QED  BY <1>1, <1>2

\* By abort() and its end.
LEMMA KeepAborts ==
  ASSUME CoreInv, KeepInv, Aborts, CoreInv'
  PROVE  KeepInv'
<1> USE DEF missionVars, stateVars, runVars, pendingVars, worldVars, historyVars
<1>1. /\ ~Idle /\ active /\ todo[1].op = "abort" /\ todo # <<>> /\ todo \in Seq(Frames)
      /\ ~Continues(traj'.done) /\ ~Continues(sched'.done) /\ ~Continues(later')
      /\ ~Continues(timer')
      /\ \A i \in DOMAIN todo' :
           /\ ~Continues(todo'[i].done)
           /\ \/ todo'[i].op \in {"action", "aborted"}
              \/ \E n \in DOMAIN todo : n # 1 /\ todo'[i].op = todo[n].op
      /\ Len(todo) > 1 => todo'[Len(todo')].op = todo[Len(todo)].op
  BY AbortResult, TopFrame DEF CoreInv
<1>2. StatesKept' /\ (Kept => Kept')
  <2>1. UNCHANGED <<active, file, nextId>>
    BY AbortStates
  <2>2. CASE UNCHANGED <<stored, keeper>>
    BY <2>1, <2>2, SameStates DEF KeepInv
  <2>3. CASE /\ stored' = Without(stored, {keeper[n] : n \in Restorable})
             /\ keeper' = Dropped
    BY <1>1, <2>1, <2>3, KeptNothing DEF KeepInv
  <2> QED  BY <2>2, <2>3, AbortStates
<1>3. Phases'
  BY <1>1 DEF Phases, Phase
<1>4. todo' # <<>> => 1 \in DOMAIN todo'
  BY DEF CoreInv, TypeOK
<1>5. \A n \in DOMAIN todo : n # 1 => todo[n].op \in Parked
  BY <1>1 DEF CoreInv, StackInv, Shape
<1>6. (HeadIs("action") => todo[1].arg = "onFailure")'
  <2>1. (HeadIs("action") /\ todo[1].arg # "onFailure" => Carry(todo[1]))'
    BY DEF CoreInv, StackInv
  <2> QED  BY <1>1, <1>4, <2>1 DEF HeadIs, Carry
<1>7. ~HeadIs("stored")'
  BY <1>1, <1>4, <1>5 DEF HeadIs, Parked
<1>8. \A i \in DOMAIN todo' : todo'[i].op = "item" => Kept'
  BY <1>1, <1>2 DEF KeepInv, FramesKept, HeadIs
<1>9. \A i \in DOMAIN todo' : todo'[i].op = "restore" => Kept' /\ todo'[Len(todo')].op = "item"
  <2>1. SUFFICES ASSUME NEW i \in DOMAIN todo', todo'[i].op = "restore"
                 PROVE  Kept' /\ todo'[Len(todo')].op = "item"
    OBVIOUS
  <2>2. PICK n \in DOMAIN todo : n # 1 /\ todo[n].op = "restore"
    BY <1>1, <2>1
  <2>3. Len(todo) > 1
    BY <1>1, <2>2
  <2> QED  BY <1>1, <1>2, <2>2, <2>3 DEF KeepInv, FramesKept
<1>10. FramesKept'
  BY <1>6, <1>7, <1>8, <1>9 DEF FramesKept
<1> QED  BY <1>2, <1>3, <1>10 DEF KeepInv

LEMMA KeepAbortReturns ==
  ASSUME CoreInv, KeepInv, AbortReturns
  PROVE  KeepInv'
<1> USE DEF missionVars, stateVars, runVars, pendingVars, worldVars, historyVars
<1>1. ~Idle /\ todo[1].op = "aborted"
  BY TopFrame DEF CoreInv, AbortReturns, Top
<1>2. UNCHANGED <<active, stored, nextId, keeper, file, sched, timer, later, traj>>
  BY DEF AbortReturns
<1>3. /\ StatesKept' /\ (Kept' <=> Kept)
      /\ \A c : NextPhase(c) <=> Phase(c)
  BY <1>2, SameStates DEF KeepInv
<1>4. todo' = <<>> \o Tail(todo) /\ <<>> \in Seq(Frames) /\ DOMAIN <<>> = {}
  <2>1. <<>> \in Seq(Frames) /\ DOMAIN <<>> = {}
    OBVIOUS
  <2> QED  BY <2>1 DEF AbortReturns, Then
<1>5. FramesKept'
  <2> DEFINE fr == <<>>
  <2>1. fr \in Seq(Frames) /\ todo' = fr \o Tail(todo) /\ DOMAIN fr = {}
    BY <1>4
  <2> HIDE DEF fr
  <2> QED  BY <1>1, <1>3, <2>1, FramesPushed DEF KeepInv
<1>6. \A i \in DOMAIN todo' : \E j \in DOMAIN todo : todo'[i] = todo[j]
  BY <1>1, <1>4, PushedFrames DEF CoreInv
<1>7. Phases'
  BY <1>2, <1>3, <1>6, PhasesNow DEF KeepInv, Phases
<1> QED  BY <1>3, <1>5, <1>7 DEF KeepInv

-----------------------------------------------------------------------------
\* The frame with the token is replaced by one frame or two.
LEMMA KeepTop ==
  ASSUME CoreInv, KeepInv, ~Idle, Carry(todo[1])
  PROVE  /\ todo[1] \in Frames /\ Head(todo) = todo[1] /\ 1 \in DOMAIN todo /\ active
         /\ Done = todo[1].done /\ Arg = todo[1].arg
         /\ Phase(todo[1].done)
         /\ todo[1].op = "item" => Kept
         /\ todo[1].op = "action" /\ todo[1].arg \notin {"onResume", "onFailure", "takeoff"}
              => todo[1].done.k = "next"
         /\ todo[1].op = "action" /\ todo[1].arg = "onResume" => todo[1].done.k = "resumed"
         /\ todo[1].op # "item" => Continues(todo[1].done)
         /\ StatesKept
         /\ index \in Int
<1>1. /\ todo[1] \in Frames /\ Head(todo) = todo[1] /\ 1 \in DOMAIN todo /\ active
      /\ todo # <<>> /\ Done = todo[1].done /\ Arg = todo[1].arg
  BY TopFrame DEF CoreInv, Done, Arg
<1>2. Phase(todo[1].done) /\ StatesKept
  BY <1>1 DEF KeepInv, Phases
<1>3. todo[1].op = "item" => Kept
  BY <1>1 DEF KeepInv, FramesKept, HeadIs
<1>4. /\ todo[1].op = "action" /\ todo[1].arg \notin {"onResume", "onFailure", "takeoff"}
           => todo[1].done.k = "next"
      /\ todo[1].op = "action" /\ todo[1].arg = "onResume" => todo[1].done.k = "resumed"
  BY <1>1 DEF KeepInv, FramesKept, HeadIs
<1>5. index \in Int
  BY MissionTypes DEF CoreInv
<1> QED  BY <1>1, <1>2, <1>3, <1>4, <1>5 DEF Carry

\* What is left to show when that frame is replaced.
LEMMA KeepReplaced ==
  ASSUME CoreInv, KeepInv, ~Idle, Carry(todo[1]), StatesKept',
         \/ Then(<<>>)
         \/ \E f \in Frames : NextFrame(f) /\ Then(<<f>>)
         \/ \E f, g \in Frames : NextFrame(f) /\ NextFrame(g) /\ Then(<<f, g>>)
         \/ Fresh' /\ Then(<<RunStored, RunItem>>),
         sched' = sched \/ NextPhase(sched'.done),
         timer' = timer \/ NextPhase(timer'),
         later' = later \/ NextPhase(later'),
         traj' = traj \/ NextPhase(traj'.done)
  PROVE  KeepInv'
<1>1. /\ \A fr \in Seq(Frames) : fr \o Tail(todo) = fr
      /\ ~SchedC /\ ~TimerC /\ ~LaterC /\ ~TrajC
  BY TokenPush DEF CoreInv
<1>2. /\ NextPhase(sched'.done) /\ NextPhase(timer') /\ NextPhase(later')
      /\ traj'.at # NoIndex => NextPhase(traj'.done)
  BY <1>1 DEF SchedC, TimerC, LaterC, TrajC, NextPhase
<1>3. /\ <<>> \in Seq(Frames) /\ \A f \in Frames : <<f>> \in Seq(Frames)
      /\ \A f, g \in Frames : <<f, g>> \in Seq(Frames)
      /\ <<RunStored, RunItem>> \in Seq(Frames)
  <2>1. RunStored \in Frames /\ RunItem \in Frames
    BY SimpleFrames, Zenon
  <2>2. /\ <<>> \in Seq(Frames) /\ \A f \in Frames : <<f>> \in Seq(Frames)
        /\ \A f, g \in Frames : <<f, g>> \in Seq(Frames)
    OBVIOUS
  <2> QED  BY <2>1, <2>2, Zenon
<1>4. \/ todo' = <<>>
      \/ \E f : NextFrame(f) /\ todo' = <<f>>
      \/ \E f, g : NextFrame(f) /\ NextFrame(g) /\ todo' = <<f, g>>
      \/ Fresh' /\ todo' = <<RunStored, RunItem>>
  <2>1. CASE Then(<<>>)
    BY <1>1, <1>3, <2>1 DEF Then
  <2>2. CASE \E f \in Frames : NextFrame(f) /\ Then(<<f>>)
    <3>1. PICK f \in Frames : NextFrame(f) /\ Then(<<f>>)
      BY <2>2
    <3>2. todo' = <<f>>
      BY <1>1, <1>3, <3>1, Zenon DEF Then
    <3> QED  BY <3>1, <3>2, Zenon
  <2>3. CASE \E f, g \in Frames : NextFrame(f) /\ NextFrame(g) /\ Then(<<f, g>>)
    <3>1. PICK f, g \in Frames : NextFrame(f) /\ NextFrame(g) /\ Then(<<f, g>>)
      BY <2>3
    <3>2. todo' = <<f, g>>
      BY <1>1, <1>3, <3>1, Zenon DEF Then
    <3> QED  BY <3>1, <3>2, Zenon
  <2>4. CASE Fresh' /\ Then(<<RunStored, RunItem>>)
    BY <1>1, <1>3, <2>4 DEF Then
  <2> QED  BY <2>1, <2>2, <2>3, <2>4
<1> QED  BY <1>2, <1>4, KeepFrames

\* runTrajectory()
LEMMA KeepFly ==
  ASSUME CoreInv, KeepInv, ~Idle, Carry(todo[1]), StatesKept',
         NEW from, NEW to, NEW c, Fly(from, to, c), NextPhase(c),
         UNCHANGED <<level, sched, timer, later>>
  PROVE  KeepInv'
<1>1. /\ \A fr \in Seq(Frames) : fr \o Tail(todo) = fr
      /\ ~SchedC /\ ~TimerC /\ ~LaterC /\ level' = 0
  BY TokenPush DEF CoreInv
<1>2. traj' = [at |-> from, end |-> to, options |-> options, done |-> c]
  BY Zenon DEF Fly
<1>3. /\ NextPhase(sched'.done) /\ NextPhase(timer') /\ NextPhase(later')
      /\ traj'.at # NoIndex => NextPhase(traj'.done)
  BY <1>1, <1>2 DEF SchedC, TimerC, LaterC, NextPhase
<1> DEFINE f == Frame("flying", "", Nothing)
           m == RunMode("own", Nothing)
<1>4. todo' = <<f>> \/ todo' = <<m, f>>
  <2>1. Then((IF activeMode = "own" THEN <<>> ELSE <<RunMode("own", Nothing)>>)
             \o <<Frame("flying", "", Nothing)>>)
    BY Zenon DEF Fly
  <2> QED  BY <1>1, <2>1, FlyFrames, Zenon
<1>5. NextFrame(f) /\ NextFrame(m)
  BY NextFrames, Zenon
<1> HIDE DEF f, m
<1> QED  BY <1>3, <1>4, <1>5, KeepFrames

\* An action that completes at once.
LEMMA KeepCall ==
  ASSUME CoreInv, KeepInv, ~Idle, Carry(todo[1]), StatesKept',
         NEW c \in Closures, NextPhase(c), Then(<<Call(c)>>),
         UNCHANGED <<sched, timer, later, traj>>
  PROVE  KeepInv'
<1>1. Call(c) \in Frames /\ NextFrame(Call(c))
  <2>1. Call(c) \in Frames
    BY NewCall, Zenon
  <2>2. NextFrame(Call(c))
    BY NextFrames, Zenon
  <2> QED  BY <2>1, <2>2
<1> QED  BY <1>1, KeepReplaced

-----------------------------------------------------------------------------
\* By onActivate() and runCurrentMissionItem().
LEMMA KeepBegin ==
  ASSUME CoreInv, KeepInv, Begin, Carry(todo[1])
  PROVE  KeepInv'
<1> USE DEF missionVars, stateVars, runVars, pendingVars, worldVars, historyVars
<1>1. ~Idle
  BY DEF Begin, Top
<1>2. todo[1].op = "begin" /\ Done.valid
  <2>1. todo[1].op = "begin"
    BY <1>1, KeepTop DEF Begin, Top
  <2> QED  BY <1>1, <2>1, KeepTop DEF Continues
<1>3. Fresh /\ StatesKept
  BY <1>1, <1>2, KeepTop, FrameTypes, CompletionTypes DEF Phase, OfItem
<1>4. UNCHANGED <<active, nextId, keeper, file, sched, timer, later, traj>>
  BY DEF Begin
<1>5. /\ DOMAIN stored' \subseteq DOMAIN stored
      /\ \A i \in DOMAIN stored' : stored'[i] = stored[i]
  BY <1>2 DEF Begin, Without
<1>6. StatesKept' /\ Fresh'
  <2>1. Distinct(stored') /\ Distinct(file'.actions)
    BY <1>4, <1>5 DEF KeepInv, StatesKept, KeepersOwnState, Distinct
  <2> QED  BY <1>3, <1>4, <2>1, FreshStates
<1> DEFINE c == [Closure("resumed") EXCEPT !.prev = index]
           f == RunAction("onResume", c)
<1>7. c \in Completions /\ c.k = "resumed"
  BY <1>1, KeepTop, ResumedClosure
<1>8. Then(<<RunStored, RunItem>>) \/ Then(<<f>>)
  BY <1>2 DEF Begin
<1> HIDE DEF c
<1>9. f \in Frames /\ f.op = "action" /\ f.arg = "onResume" /\ f.done = c
  BY <1>7, NewAction
<1> HIDE DEF f
<1>10. NextFrame(f)
  BY <1>6, <1>7, <1>9 DEF NextFrame, NextPhase, OfItem
<1> QED  BY <1>1, <1>4, <1>6, <1>8, <1>9, <1>10, KeepReplaced

LEMMA KeepItemRuns ==
  ASSUME CoreInv, KeepInv, ItemRuns
  PROVE  KeepInv'
<1> USE DEF missionVars, stateVars, runVars, pendingVars, worldVars, historyVars
<1>1. /\ ~Idle /\ todo[1].op = "item" /\ Carry(todo[1])
  BY TopFrame DEF CoreInv, ItemRuns, Top, Carry
<1>2. UNCHANGED <<active, stored, nextId, keeper, file, level, sched, timer, later>>
  BY DEF ItemRuns
<1>3. /\ StatesKept' /\ Kept'
      /\ \A c : NextPhase(c) <=> Phase(c)
  BY <1>1, <1>2, KeepTop, SameStates
<1>4. CASE /\ ~IndexValid(index)
           /\ Then(IF activeMode = "own" \/ index = NoIndex
                   THEN <<RunMode("Loiter", Nothing)>> ELSE <<>>)
           /\ UNCHANGED traj
  <2> DEFINE f == RunMode("Loiter", Nothing)
  <2>1. f \in Frames /\ NextFrame(f)
    <3>1. f \in Frames
      BY SimpleFrames, Zenon
    <3>2. NextFrame(f)
      BY NextFrames, Zenon
    <3> QED  BY <3>1, <3>2
  <2>2. Then(<<f>>) \/ Then(<<>>)
    BY <1>4
  <2> HIDE DEF f
  <2> QED  BY <1>1, <1>2, <1>3, <1>4, <2>1, <2>2, KeepReplaced
<1>5. CASE index \in Waypoints /\ Fly(index, SegmentEnd(index), Closure("segment"))
  <2>1. NextPhase(Closure("segment"))
    BY <1>3, NewClosures DEF NextPhase, OfItem
  <2> QED  BY <1>1, <1>2, <1>3, <1>5, <2>1, KeepFly
<1>6. CASE /\ IndexValid(index) /\ index \notin Waypoints
           /\ Then(<<RunAction(Item(index), Closure("next"))>>)
           /\ UNCHANGED traj
  <2>1. /\ mission \in Seq(Items) /\ Len0 \in Nat
        /\ \A i \in DOMAIN mission : mission[i] \in Items /\ mission[i] # "undefined"
    <3>1. valid
      BY <1>1, TokenPush DEF CoreInv
    <3> QED  BY <3>1, MissionTypes DEF CoreInv, TokenInv
  <2>2. Item(index) \in Actions
    BY <1>1, <1>6, <2>1, KeepTop DEF IndexValid, Waypoints, Item, Items, Len0
  <2> DEFINE c == Closure("next")
             f == RunAction(Item(index), c)
  <2>3. c \in Completions /\ c.k = "next"
    BY NewClosures
  <2>4. Then(<<f>>)
    BY <1>6
  <2> HIDE DEF c
  <2>5. f \in Frames /\ f.op = "action" /\ f.arg = Item(index) /\ f.done = c
    BY <2>2, <2>3, NewAction
  <2> HIDE DEF f
  <2>6. NextFrame(f)
    BY <1>3, <2>2, <2>3, <2>5 DEF NextFrame, NextPhase, OfItem, Actions
  <2> QED  BY <1>1, <1>2, <1>3, <1>6, <2>4, <2>5, <2>6, KeepReplaced
<1> QED  BY <1>4, <1>5, <1>6 DEF ItemRuns

\* By runMode() and the rest of a hold.
LEMMA KeepModeRuns ==
  ASSUME CoreInv, KeepInv, ModeRuns, Carry(todo[1])
  PROVE  KeepInv'
<1> USE DEF missionVars, stateVars, runVars, pendingVars, worldVars, historyVars
<1>1. ~Idle
  BY DEF ModeRuns, Top
<1>2. /\ todo[1].op = "mode" /\ Done = todo[1].done
      /\ Continues(Done) /\ Done \in Closures
  <2>1. todo[1].op = "mode"
    BY <1>1, KeepTop DEF ModeRuns, Top
  <2> QED  BY <1>1, <2>1, KeepTop, FrameTypes
<1>3. UNCHANGED <<active, stored, nextId, keeper, file, timer, later, traj>>
  BY DEF ModeRuns
<1>4. /\ StatesKept' /\ NextPhase(Done)
      /\ \A c : NextPhase(c) <=> Phase(c)
  BY <1>1, <1>2, <1>3, KeepTop, SameStates
<1>5. ModeFailed(Done) = <<Abort>>
  BY <1>2, CompletionTypes DEF ModeFailed, Continues
<1>6. CASE sched' = [mode |-> Arg, done |-> Done] /\ Then(<<>>)
  <2>1. sched'.done = Done
    BY <1>6
  <2> QED  BY <1>1, <1>3, <1>4, <1>6, <2>1, KeepReplaced
<1>7. CASE sched' = NoSched /\ Then(ModeFailed(Done))
  <2>1. NextFrame(Abort) /\ Abort \in Frames
    <3>1. NextFrame(Abort)
      BY NextFrames, Zenon
    <3>2. Abort \in Frames
      BY SimpleFrames, Zenon
    <3> QED  BY <3>1, <3>2
  <2>2. Then(<<Abort>>)
    BY <1>5, <1>7, Zenon
  <2>3. NextPhase(sched'.done)
    BY <1>7, NextFrames, Zenon
  <2> QED  BY <1>1, <1>3, <1>4, <2>1, <2>2, <2>3, KeepReplaced
<1> QED  BY <1>6, <1>7 DEF ModeRuns

LEMMA KeepHoldStarts ==
  ASSUME CoreInv, KeepInv, HoldStarts, Carry(todo[1])
  PROVE  KeepInv'
<1> USE DEF missionVars, stateVars, runVars, pendingVars, worldVars, historyVars
<1>1. ~Idle
  BY DEF HoldStarts, Top
<1>2. UNCHANGED <<active, stored, nextId, keeper, file, sched, later, traj>>
  BY DEF HoldStarts
<1>3. StatesKept' /\ NextPhase(Done)
  BY <1>1, <1>2, KeepTop, SameStates
<1>4. timer' = Done /\ Then(<<>>)
  BY DEF HoldStarts
<1> QED  BY <1>1, <1>2, <1>3, <1>4, KeepReplaced

-----------------------------------------------------------------------------
\* The frame of an action that holds the token.
LEMMA KeepActionTop ==
  ASSUME CoreInv, KeepInv, NEW name, Action(name), Carry(todo[1])
  PROVE  /\ ~Idle /\ todo[1].op = "action" /\ active
         /\ Done = todo[1].done /\ Done \in Completions /\ Done \in Closures
         /\ Continues(Done) /\ Done.valid
         /\ Done.k \in {"next", "resumed", "navigate"}
         /\ StatesKept
         /\ Done.k = "next" => Kept
         /\ Done.k # "next" => Fresh
         /\ name \notin {"onResume", "onFailure", "takeoff"} => Done.k = "next"
         /\ name = "onResume" => Done.k = "resumed"
<1>1. /\ ~Idle /\ Head(todo) = todo[1] /\ todo[1] \in Frames /\ active
      /\ Done = todo[1].done /\ Done \in Completions /\ Done \in Closures
      /\ todo[1].op = "action"
  BY ActionTop, Zenon
<1>2. todo[1].arg = name
  BY <1>1 DEF Action, Arg
<1>3. Continues(Done) /\ Done.valid
  BY <1>1 DEF Carry, Continues
<1>4. Done.k \in {"next", "resumed", "navigate"}
  BY <1>1, <1>3, CompletionTypes DEF Continues
<1>5. /\ StatesKept /\ Phase(Done)
      /\ name \notin {"onResume", "onFailure", "takeoff"} => Done.k = "next"
      /\ name = "onResume" => Done.k = "resumed"
  BY <1>1, <1>2, KeepTop
<1>6. (Done.k = "next" => Kept) /\ (Done.k # "next" => Fresh)
  BY <1>3, <1>4, <1>5 DEF Phase, OfItem
<1> QED  BY <1>1, <1>3, <1>4, <1>5, <1>6

\* The phase of the closure that an action passes on.
LEMMA PassedOn ==
  ASSUME NEW c, c.k = "next" => Kept', c.k # "next" => Fresh', c.k # "segment"
  PROVE  NextPhase(c)
BY DEF NextPhase, OfItem

\* By the actions.
LEMMA KeepModeActionRuns ==
  ASSUME CoreInv, KeepInv, ModeActionRuns, Carry(todo[1])
  PROVE  KeepInv'
<1> USE DEF missionVars, stateVars, runVars, pendingVars, worldVars, historyVars
<1>1. PICK name \in DOMAIN ModeOf :
        Action(name) /\ Then(<<RunMode(ModeOf[name], Done)>>)
  BY DEF ModeActionRuns
<1>2. UNCHANGED <<active, stored, nextId, keeper, file, sched, timer, later, traj>>
  BY DEF ModeActionRuns, Unmoved
<1>3. /\ ~Idle /\ Done \in Closures /\ StatesKept /\ Phase(Done)
  BY <1>1, KeepActionTop, KeepTop
<1>4. StatesKept' /\ NextPhase(Done)
  BY <1>2, <1>3, SameStates
<1> DEFINE f == RunMode(ModeOf[name], Done)
<1>5. ModeOf[name] \in Modes \ {"own"}
  BY DEF ModeOf, Modes
<1>6. f \in Frames
  BY <1>3, <1>5, NewMode, Zenon
<1>7. NextFrame(f)
  BY <1>3, <1>4, <1>5, NextFrames, Zenon
<1>8. Then(<<f>>)
  BY <1>1
<1> HIDE DEF f
<1> QED  BY <1>2, <1>3, <1>4, <1>6, <1>7, <1>8, KeepReplaced

LEMMA KeepHoldRuns ==
  ASSUME CoreInv, KeepInv, HoldRuns, Carry(todo[1])
  PROVE  KeepInv'
<1> USE DEF missionVars, stateVars, runVars, pendingVars, worldVars, historyVars
<1> DEFINE f == RunMode("Loiter", Nothing)
           g == Frame("hold", "", Done)
<1>1. Action("hold")
  BY Zenon DEF HoldRuns
<1>2. Then(<<f, g>>)
  BY Zenon DEF HoldRuns
<1>3. UNCHANGED <<active, stored, nextId, keeper, file, sched, timer, later, traj>>
  <2>1. Unmoved /\ UNCHANGED <<stateVars, options, later, asked, stops>>
    BY Zenon DEF HoldRuns
  <2> QED  BY <2>1 DEF Unmoved
<1>4. /\ ~Idle /\ Done \in Completions /\ StatesKept /\ Phase(Done)
  BY <1>1, KeepActionTop, KeepTop
<1>5. StatesKept' /\ NextPhase(Done)
  BY <1>3, <1>4, SameStates
<1>6. f \in Frames
  BY SimpleFrames, Zenon
<1>7. g \in Frames
  BY <1>4, NewHold, Zenon
<1>8. NextFrame(f)
  BY NextFrames, Zenon
<1>9. NextFrame(g)
  BY <1>4, <1>5, NextFrames, Zenon
<1> HIDE DEF f, g
<1> QED  BY <1>3, <1>4, <1>5, <1>6, <1>7, <1>8, <1>9, <1>2, KeepReplaced

LEMMA KeepSettings ==
  ASSUME CoreInv, KeepInv, ChangeSettingsRuns, Carry(todo[1])
  PROVE  KeepInv'
<1> USE DEF missionVars, stateVars, runVars, pendingVars, worldVars, historyVars
<1>1. \/ Action("settings") /\ StoreState("settings")
      \/ /\ Action("reset")
         /\ stored' = Without(stored, {keeper["settings"]})
         /\ keeper' = [keeper EXCEPT !["settings"] = NoId]
         /\ UNCHANGED nextId
  BY DEF ChangeSettingsRuns
<1>2. UNCHANGED <<active, file, sched, timer, later, traj>> /\ Then(<<Call(Done)>>)
  BY DEF ChangeSettingsRuns, Unmoved
<1>3. /\ ~Idle /\ Done \in Closures /\ StatesKept /\ active /\ Kept /\ Done.k = "next"
  BY <1>1, KeepActionTop
<1>4. "settings" \in Restorable
  BY DEF Restorable
<1>5. StatesKept' /\ Kept'
  <2>1. CASE StoreState("settings")
    BY <1>2, <1>3, <1>4, <2>1, StateKept
  <2>2. CASE /\ stored' = Without(stored, {keeper["settings"]})
             /\ keeper' = [keeper EXCEPT !["settings"] = NoId]
             /\ UNCHANGED nextId
    BY <1>2, <1>3, <1>4, <2>2, StateRemoved
  <2> QED  BY <1>1, <2>1, <2>2
<1>6. NextPhase(Done)
  BY <1>3, <1>5, PassedOn
<1> QED  BY <1>2, <1>3, <1>5, <1>6, KeepCall

LEMMA KeepCamera ==
  ASSUME CoreInv, KeepInv, CameraRuns, Carry(todo[1])
  PROVE  KeepInv'
<1> USE DEF missionVars, stateVars, runVars, pendingVars, worldVars, historyVars
<1>1. Action("camera")
  BY DEF CameraRuns
<1>2. UNCHANGED <<active, file, sched, timer, later, traj>>
  BY DEF CameraRuns, Unmoved
<1>3. /\ ~Idle /\ Done \in Closures /\ StatesKept /\ active /\ Kept /\ Done.k = "next"
  BY <1>1, KeepActionTop
<1>4. "camera" \in Restorable
  BY DEF Restorable
<1>5. CASE StoreState("camera") /\ Then(<<Call(Done)>>)
  <2>1. StatesKept' /\ Kept'
    BY <1>2, <1>3, <1>4, <1>5, StateKept
  <2>2. NextPhase(Done)
    BY <1>3, <2>1, PassedOn
  <2> QED  BY <1>2, <1>3, <1>5, <2>1, <2>2, KeepCall
<1>6. CASE Then(<<Abort>>) /\ UNCHANGED <<stored, nextId, keeper>>
  <2>1. StatesKept'
    BY <1>2, <1>3, <1>6, SameStates
  <2>2. Abort \in Frames
    BY SimpleFrames, Zenon
  <2>3. NextFrame(Abort)
    BY NextFrames, Zenon
  <2> QED  BY <1>2, <1>3, <1>6, <2>1, <2>2, <2>3, KeepReplaced
<1> QED  BY <1>5, <1>6 DEF CameraRuns

LEMMA KeepCustom ==
  ASSUME CoreInv, KeepInv, NEW outcome \in CustomOutcomes, CustomRuns(outcome), Carry(todo[1])
  PROVE  KeepInv'
<1> USE DEF missionVars, stateVars, runVars, pendingVars, worldVars, historyVars
<1>1. Action("custom")
  BY DEF CustomRuns
<1>2. UNCHANGED <<active, stored, nextId, keeper, file, sched, timer, traj>>
  BY DEF CustomRuns, Unmoved
<1>3. /\ ~Idle /\ Done \in Closures /\ StatesKept /\ Phase(Done)
  BY <1>1, KeepActionTop, KeepTop
<1>4. StatesKept' /\ NextPhase(Done)
  BY <1>2, <1>3, SameStates
<1>5. later' = Done \/ later' = later
  BY DEF CustomRuns
<1>6. Then(<<>>) \/ Then(<<Abort, Call(Done)>>) \/ Then(<<Call(Done)>>)
  BY DEF CustomRuns
<1> DEFINE f == Call(Done)
<1>7. f \in Frames
  BY <1>3, NewCall, Zenon
<1>8. NextFrame(f)
  BY <1>3, <1>4, NextFrames, Zenon
<1>9. Abort \in Frames
  BY SimpleFrames, Zenon
<1>10. NextFrame(Abort)
  BY NextFrames, Zenon
<1>11. Then(<<>>) \/ Then(<<Abort, f>>) \/ Then(<<f>>)
  BY <1>6
<1> HIDE DEF f
<1>12. \/ Then(<<>>)
       \/ \E g \in Frames : NextFrame(g) /\ Then(<<g>>)
       \/ \E g, h \in Frames : NextFrame(g) /\ NextFrame(h) /\ Then(<<g, h>>)
  BY <1>7, <1>8, <1>9, <1>10, <1>11, Zenon
<1> QED  BY <1>2, <1>3, <1>4, <1>5, <1>12, KeepReplaced

LEMMA KeepOnResume ==
  ASSUME CoreInv, KeepInv, NEW known \in LandedKnown, OnResumeRuns(known), Carry(todo[1])
  PROVE  KeepInv'
<1> USE DEF missionVars, stateVars, runVars, pendingVars, worldVars, historyVars
<1>1. Action("onResume")
  BY DEF OnResumeRuns
<1>2. UNCHANGED <<active, stored, nextId, keeper, file, sched, timer, later, traj>>
  BY DEF OnResumeRuns, Unmoved
<1>3. /\ ~Idle /\ Done \in Completions /\ Done \in Closures /\ StatesKept
      /\ Done.k = "resumed" /\ Fresh
  BY <1>1, KeepActionTop
<1>4. StatesKept' /\ Fresh'
  BY <1>2, <1>3, SameStates
<1> DEFINE c == [Done EXCEPT !.k = "navigate"]
           f == RunAction("takeoff", c)
           g == Call(Done)
<1>5. c \in Completions /\ c.k = "navigate"
  BY <1>3, RenamedClosure
<1>6. Then(<<g>>) \/ Then(<<f>>)
  BY DEF OnResumeRuns
<1>7. g \in Frames
  BY <1>3, NewCall, Zenon
<1>8. NextPhase(Done)
  BY <1>3, <1>4, PassedOn
<1>9. NextFrame(g)
  BY <1>3, <1>8, NextFrames, Zenon
<1>10. NextPhase(c)
  BY <1>4, <1>5, PassedOn
<1> HIDE DEF c
<1>11. f \in Frames /\ f.op = "action" /\ f.arg = "takeoff" /\ f.done = c
  BY <1>5, NewAction DEF Actions
<1> HIDE DEF f, g
<1>12. NextFrame(f)
  BY <1>10, <1>11 DEF NextFrame
<1> QED  BY <1>2, <1>3, <1>4, <1>6, <1>7, <1>9, <1>11, <1>12, KeepReplaced

LEMMA KeepOnFailure ==
  ASSUME CoreInv, KeepInv, OnFailureRuns, Carry(todo[1])
  PROVE  KeepInv'
<1> USE DEF missionVars, stateVars, runVars, pendingVars, worldVars, historyVars
<1>1. Action("onFailure")
  BY Zenon DEF OnFailureRuns
<1>2. UNCHANGED <<active, stored, nextId, keeper, file, sched, timer, later, traj>>
  <2>1. Unmoved /\ UNCHANGED <<stateVars, options, later, asked, stops>>
    BY Zenon DEF OnFailureRuns
  <2> QED  BY <2>1 DEF Unmoved
<1>3. ~Idle /\ StatesKept
  BY <1>1, KeepActionTop
<1>4. StatesKept'
  BY <1>2, <1>3, SameStates
<1> DEFINE c == [Closure("failure") EXCEPT !.fail = "descend"]
           f == RunMode("Rtl", c)
<1>5. c \in Closures /\ ~Continues(c)
  BY NewClosures
<1>6. Then(<<f>>) \/ Then(<<Abort>>)
  BY Zenon DEF OnFailureRuns
<1> HIDE DEF c
<1>7. NextPhase(c)
  BY <1>5 DEF NextPhase
<1>8. "Rtl" \in Modes \ {"own"}
  BY DEF Modes
<1>9. f \in Frames
  BY <1>5, <1>8, NewMode, Zenon
<1>10. NextFrame(f)
  BY <1>5, <1>7, <1>8, NextFrames, Zenon
<1>11. Abort \in Frames
  BY SimpleFrames, Zenon
<1>12. NextFrame(Abort)
  BY NextFrames, Zenon
<1> HIDE DEF f
<1> QED  BY <1>2, <1>3, <1>4, <1>6, <1>9, <1>10, <1>11, <1>12, KeepReplaced

\* By the completion callbacks.
LEMMA KeepCallRuns ==
  ASSUME CoreInv, KeepInv, CallRuns, Carry(todo[1])
  PROVE  KeepInv'
<1> USE DEF missionVars, stateVars, runVars, pendingVars, worldVars, historyVars
<1>1. ~Idle
  BY DEF CallRuns, Top
<1>2. /\ todo[1].op = "call" /\ active /\ StatesKept
      /\ Continues(Done) /\ Done \in Closures /\ Phase(Done) /\ index \in Int
  <2>1. todo[1].op = "call"
    BY <1>1, KeepTop DEF CallRuns, Top
  <2> QED  BY <1>1, <2>1, KeepTop, FrameTypes
<1>3. Done.valid /\ Done \in Completions /\ Done.k \in {"next", "resumed", "navigate"}
  BY <1>2, CompletionTypes DEF Continues
<1>4. (Done.k = "next" => Kept) /\ (Done.k # "next" => Fresh)
  BY <1>2, <1>3 DEF Phase, OfItem
<1>5. UNCHANGED <<active, nextId, keeper, file, level, sched, timer, later>>
  BY DEF CallRuns
<1>6. RunItem \in Frames
  BY SimpleFrames, Zenon
<1>7. Kept' => NextFrame(RunItem)
  BY NextFrames, Zenon
<1>8. CASE Done.k = "next"
  <2>1. Then(<<RunItem>>) /\ UNCHANGED <<stored, traj>>
    BY <1>3, <1>8 DEF CallRuns
  <2>2. StatesKept' /\ Kept'
    BY <1>2, <1>4, <1>5, <1>8, <2>1, SameStates
  <2> QED  BY <1>1, <1>5, <1>6, <1>7, <2>1, <2>2, KeepReplaced
<1>9. CASE Done.k = "resumed"
  <2>1. Resumed /\ UNCHANGED traj
    BY <1>3, <1>9 DEF CallRuns
  <2>2. CASE Then(<<RunStored, RunItem>>) /\ UNCHANGED stored
    <3>1. StatesKept' /\ Fresh'
      BY <1>2, <1>4, <1>5, <1>9, <2>2, SameStates
    <3> QED  BY <1>1, <1>5, <2>1, <2>2, <3>1, KeepReplaced
  <2>3. CASE Then(<<RunItem>>) /\ stored' = <<>>
    <3>1. DOMAIN stored' = {}
      <4>1. DOMAIN <<>> = {}
        OBVIOUS
      <4> QED  BY <2>3, <4>1
    <3>2. Distinct(stored') /\ Distinct(file'.actions) /\ Kept'
      BY <1>2, <1>5, <3>1 DEF Distinct, StatesKept, Kept
    <3>3. StatesKept'
      BY <1>2, <1>4, <1>5, <1>9, <3>2, FreshStates
    <3> QED  BY <1>1, <1>5, <1>6, <1>7, <2>1, <2>3, <3>2, <3>3, KeepReplaced
  <2> QED  BY <2>1, <2>2, <2>3 DEF Resumed
<1>10. CASE Done.k = "navigate"
  <2>1. Navigates /\ UNCHANGED stored
    BY <1>3, <1>10 DEF CallRuns
  <2>2. StatesKept' /\ Fresh'
    BY <1>2, <1>4, <1>5, <1>10, <2>1, SameStates
  <2> DEFINE c == [Done EXCEPT !.k = "resumed"]
  <2>3. c \in Completions /\ c.k = "resumed"
    BY <1>3, RenamedClosure
  <2>4. Fly(0, 0, c) \/ (Then(<<Call(c)>>) /\ UNCHANGED traj)
    BY <2>1 DEF Navigates
  <2> HIDE DEF c
  <2>5. NextPhase(c) /\ c \in Closures
    BY <2>2, <2>3, PassedOn, CompletionTypes
  <2>6. CASE Fly(0, 0, c)
    BY <1>1, <1>5, <2>2, <2>5, <2>6, KeepFly
  <2>7. CASE Then(<<Call(c)>>) /\ UNCHANGED traj
    BY <1>1, <1>5, <2>2, <2>5, <2>7, KeepCall
  <2> QED  BY <2>4, <2>6, <2>7
<1> QED  BY <1>3, <1>8, <1>9, <1>10

\* The steps of a frame with the token.
LEMMA TokenRuns ==
  ASSUME CoreInv, Step, Carry(todo[1])
  PROVE  \/ Begin \/ ItemRuns \/ ModeRuns \/ ModeActionRuns \/ HoldRuns \/ HoldStarts
         \/ ChangeSettingsRuns \/ CameraRuns \/ OnFailureRuns \/ CallRuns
         \/ \E outcome \in CustomOutcomes : CustomRuns(outcome)
         \/ \E known \in LandedKnown : OnResumeRuns(known)
<1>1. todo[1] \in Frames /\ Head(todo) = todo[1]
  BY StepRuns, TopFrame DEF CoreInv
<1>2. todo[1].op \notin {"flying", "stored", "abort", "aborted"}
  BY <1>1, FrameTypes, CompletionTypes DEF Carry
<1>3. ~Flying /\ ~StoredRun /\ ~AbortReturns
  BY <1>1, <1>2 DEF Flying, StoredRun, AbortReturns, Top
<1>4. ~Aborts
  <2>1. ~Top("abort")
    BY <1>1, <1>2 DEF Top
  <2> QED  BY <2>1, Zenon DEF Aborts
<1> QED  BY <1>3, <1>4, Zenon DEF Step

\* The step of runStoredActions()
LEMMA StoredRuns ==
  ASSUME CoreInv, Step, todo[1].op = "stored"
  PROVE  StoredRun
<1>1. Head(todo) = todo[1]
  BY StepRuns, TopFrame DEF CoreInv
<1>2. \A op : Top(op) => op = "stored"
  BY <1>1 DEF Top
<1>3. \A name : ~Action(name)
  BY <1>2 DEF Action
<1>4. ~ModeActionRuns /\ ~HoldRuns /\ ~OnFailureRuns
  BY <1>3, Zenon DEF ModeActionRuns, HoldRuns, OnFailureRuns
<1>5. /\ ~ChangeSettingsRuns /\ ~CameraRuns
      /\ \A outcome \in CustomOutcomes : ~CustomRuns(outcome)
      /\ \A known \in LandedKnown : ~OnResumeRuns(known)
  BY <1>3 DEF ChangeSettingsRuns, CameraRuns, CustomRuns, OnResumeRuns
<1>6. /\ ~Begin /\ ~ItemRuns /\ ~Flying /\ ~ModeRuns /\ ~HoldStarts
      /\ ~AbortReturns /\ ~CallRuns
  BY <1>2 DEF Begin, ItemRuns, Flying, ModeRuns, HoldStarts, AbortReturns, CallRuns
<1>7. ~Aborts
  BY <1>2, Zenon DEF Aborts
<1> QED  BY <1>4, <1>5, <1>6, <1>7, Zenon DEF Step

\* By every step of a callback.
LEMMA KeepStep ==
  ASSUME CoreInv, KeepInv, Step, CoreInv'
  PROVE  KeepInv'
<1>1. /\ ~Idle /\ active /\ todo[1] \in Frames /\ 1 \in DOMAIN todo
      /\ todo[1].op = "abort" => Aborts
      /\ todo[1].op = "aborted" => AbortReturns
  BY StepRuns
<1>2. CASE Carry(todo[1])
  <2>1. \/ Begin \/ ItemRuns \/ ModeRuns \/ ModeActionRuns \/ HoldRuns \/ HoldStarts
        \/ ChangeSettingsRuns \/ CameraRuns \/ OnFailureRuns \/ CallRuns
        \/ \E outcome \in CustomOutcomes : CustomRuns(outcome)
        \/ \E known \in LandedKnown : OnResumeRuns(known)
    BY <1>2, TokenRuns
  <2> QED  BY <1>2, <2>1, KeepBegin, KeepItemRuns, KeepModeRuns, KeepModeActionRuns, KeepHoldRuns,
              KeepHoldStarts, KeepSettings, KeepCamera, KeepOnFailure, KeepCallRuns, KeepCustom,
              KeepOnResume
<1>3. CASE ~Carry(todo[1]) /\ todo[1].op \notin {"abort", "aborted", "stored", "restore"}
  BY <1>1, <1>3, QuietSteps, KeepQuiet
<1>4. CASE todo[1].op = "restore"
  BY <1>4, KeepRestore
<1>5. CASE todo[1].op = "stored"
  BY <1>5, StoredRuns, KeepStoredRun
<1>6. CASE todo[1].op = "abort"
  BY <1>1, <1>6, KeepAborts
<1>7. CASE todo[1].op = "aborted"
  BY <1>1, <1>7, KeepAbortReturns
<1> QED  BY <1>2, <1>3, <1>4, <1>5, <1>6, <1>7

-----------------------------------------------------------------------------
\* A mission that is no longer active has no token, and its keepers are empty.
LEMMA KeepInactive ==
  ASSUME CoreInv', StatesKept', active' = FALSE
  PROVE  KeepInv'
<1>1. todo' = <<>> /\ ~Token'
  BY DEF CoreInv, TypeOK, TokenInv, Idle
<1>2. /\ NextPhase(sched'.done) /\ NextPhase(timer') /\ NextPhase(later')
      /\ traj'.at # NoIndex => NextPhase(traj'.done)
  BY <1>1 DEF Token, Waits, SchedC, TimerC, LaterC, TrajC, NextPhase
<1> QED  BY <1>1, <1>2, KeepFrames

\* A callback that begins while the states stay as they are.
LEMMA KeepComes ==
  ASSUME CoreInv, KeepInv, UNCHANGED <<active, stored, nextId, keeper, file>>,
         \/ todo' = <<>>
         \/ \E f : NextFrame(f) /\ todo' = <<f>>,
         sched' = sched \/ NextPhase(sched'.done),
         timer' = timer \/ NextPhase(timer'),
         later' = later \/ NextPhase(later'),
         traj' = traj \/ (traj.at # NoIndex /\ traj'.done = traj.done)
  PROVE  KeepInv'
<1>1. /\ StatesKept' /\ (Kept' <=> Kept) /\ \A c : NextPhase(c) <=> Phase(c)
  BY SameStates DEF KeepInv
<1>2. /\ NextPhase(sched'.done) /\ NextPhase(timer') /\ NextPhase(later')
      /\ traj'.at # NoIndex => NextPhase(traj'.done)
  BY <1>1 DEF KeepInv, Phases
<1> QED  BY <1>1, <1>2, KeepFrames

\* By what the mission waits for.
LEMMA KeepWaypointReached ==
  ASSUME CoreInv, KeepInv, WaypointReached
  PROVE  KeepInv'
<1> USE DEF missionVars, stateVars, runVars, pendingVars, worldVars, historyVars
<1>1. /\ UNCHANGED <<active, stored, nextId, keeper, file, sched, timer, later>>
      /\ traj.at # NoIndex /\ traj'.done = traj.done
      /\ traj.done \in Completions \cup Segments
  BY Reached
<1>2. /\ StatesKept' /\ (Kept' <=> Kept) /\ \A c : NextPhase(c) <=> Phase(c)
  BY <1>1, SameStates DEF KeepInv
<1>3. Phase(traj.done)
  BY <1>1 DEF KeepInv, Phases
<1>4. CASE LastReached /\ ~OnSegment
  <2>1. traj.done \in Closures /\ todo' = <<Call(traj.done)>>
    BY <1>1, <1>4, CompletionTypes, Reached DEF OnSegment
  <2>2. NextFrame(Call(traj.done))
    <3>1. NextPhase(traj.done)
      BY <1>2, <1>3
    <3> QED  BY <2>1, <3>1, NextFrames, Zenon
  <2> QED  BY <1>1, <2>1, <2>2, KeepComes
<1>5. CASE LastReached /\ OnSegment /\ traj.done.valid
  <2>1. todo' = <<RunItem>>
    BY <1>5, Reached
  <2>2. Kept
    BY <1>3, <1>5 DEF OnSegment, Phase, OfItem, Continues
  <2>3. NextFrame(RunItem)
    <3>1. Kept'
      BY <1>2, <2>2
    <3> QED  BY <3>1, NextFrames, Zenon
  <2> QED  BY <1>1, <2>1, <2>3, KeepComes
<1>6. CASE ~LastReached \/ (OnSegment /\ ~traj.done.valid)
  <2>1. todo' = <<>>
    BY <1>6, Reached
  <2> QED  BY <1>1, <2>1, KeepComes
<1> QED  BY <1>4, <1>5, <1>6

LEMMA KeepModeCompletes ==
  ASSUME CoreInv, KeepInv, NEW ok \in BOOLEAN, ModeCompletes(ok)
  PROVE  KeepInv'
<1> USE DEF missionVars, stateVars, runVars, pendingVars, worldVars, historyVars
<1>1. /\ UNCHANGED <<active, stored, nextId, keeper, file, timer, later, traj>>
      /\ sched' = NoSched
      /\ todo' = <<Call(sched.done)>> \/ todo' = ModeFailed(sched.done)
  BY DEF ModeCompletes
<1>2. sched.done \in Closures
  BY DEF CoreInv, TypeOK
<1>3. NextPhase(sched'.done)
  BY <1>1, NextFrames, Zenon
<1>4. NextPhase(sched.done)
  BY <1>1, SameStates DEF KeepInv, Phases
<1>5. CASE todo' = <<Call(sched.done)>>
  <2>1. NextFrame(Call(sched.done))
    BY <1>2, <1>4, NextFrames, Zenon
  <2> QED  BY <1>1, <1>3, <1>5, <2>1, KeepComes
<1>6. CASE todo' = ModeFailed(sched.done)
  <2> DEFINE d == [sched.done EXCEPT !.fail = "ignore"]
             f == RunMode("Descend", d)
  <2>1. \/ todo' = <<Abort>> \/ todo' = <<>>
        \/ sched.done.fail = "descend" /\ todo' = <<f>>
    BY <1>6 DEF ModeFailed
  <2>2. NextFrame(Abort)
    BY NextFrames, Zenon
  <2>3. ASSUME sched.done.fail = "descend" PROVE NextFrame(f)
    <3>1. sched.done.k = "failure"
      BY <1>2, <2>3, CompletionTypes
    <3>2. d \in Closures /\ ~Continues(d)
      BY <1>2, <3>1, IgnoringClosure
    <3> HIDE DEF d
    <3>3. NextPhase(d) /\ "Descend" \in Modes \ {"own"}
      BY <3>2 DEF NextPhase, Modes
    <3> QED  BY <3>2, <3>3, NextFrames, Zenon
  <2> HIDE DEF f
  <2> QED  BY <1>1, <1>3, <2>1, <2>2, <2>3, KeepComes
<1> QED  BY <1>1, <1>5, <1>6

LEMMA KeepAnswers ==
  ASSUME CoreInv, KeepInv,
         \/ TimerExpires \/ LaterCompletes \/ StatusUpdate \/ LandedChanges
         \/ UserAbort \/ PositionInvalid
  PROVE  KeepInv'
<1> USE DEF missionVars, stateVars, runVars, pendingVars, worldVars, historyVars
<1>1. UNCHANGED <<active, stored, nextId, keeper, file, sched, traj>>
  BY DEF TimerExpires, LaterCompletes, StatusUpdate, LandedChanges, UserAbort, PositionInvalid
<1>2. timer \in Closures /\ later \in Closures
  BY CompletionTypes DEF CoreInv, TypeOK
<1>3. NextPhase(timer) /\ NextPhase(later) /\ NextPhase(Nothing)
  <2>1. NextPhase(Nothing)
    BY NextFrames, Zenon
  <2> QED  BY <1>1, <2>1, SameStates DEF KeepInv, Phases
<1>4. NextFrame(Abort)
  BY NextFrames, Zenon
<1>5. NextFrame(Call(timer))
  BY <1>2, <1>3, NextFrames, Zenon
<1>6. NextFrame(Call(later))
  BY <1>2, <1>3, NextFrames, Zenon
<1>7. /\ todo' \in {<<>>, <<Abort>>, <<Call(timer)>>, <<Call(later)>>}
      /\ timer' \in {timer, Nothing} /\ later' \in {later, Nothing}
  BY DEF TimerExpires, LaterCompletes, StatusUpdate, LandedChanges, UserAbort, PositionInvalid,
         Idle
<1>8. todo' = <<>> \/ \E f : NextFrame(f) /\ todo' = <<f>>
  BY <1>4, <1>5, <1>6, <1>7
<1> QED  BY <1>1, <1>3, <1>7, <1>8, KeepComes

\* The states while no mission is active.
LEMMA StatesAside ==
  ASSUME active' = FALSE, Fresh', \A n \in Continuous : keeper'[n] < nextId',
         Distinct(stored'), Distinct(file'.actions)
  PROVE  StatesKept'
BY DEF StatesKept, KeepersOwnState, Distinct

\* An empty store and the files without a mission.
LEMMA NoStates == Distinct(<<>>) /\ Distinct(NoFile.actions) /\ Distinct(Garbage.actions)
<1>1. DOMAIN <<>> = {} /\ NoFile.actions = <<>> /\ Garbage.actions = <<>>
  BY DEF NoFile, Garbage
<1> QED  BY <1>1 DEF Distinct

\* By what interferes with the mission.
LEMMA KeepSetMission ==
  ASSUME CoreInv, KeepInv, NEW m \in Missions, SetMission(m), CoreInv'
  PROVE  KeepInv'
<1> USE DEF missionVars, stateVars, runVars, pendingVars, worldVars, historyVars
<1>1. ~active /\ active' = active /\ UNCHANGED <<keeper, nextId, file>>
  BY DEF SetMission
<1>2. StatesKept /\ Fresh /\ Distinct(file.actions)
  BY <1>1 DEF KeepInv, StatesKept
<1> DEFINE st == [i \in 0 .. Len(file.actions) - 1 |-> file.actions[i + 1]]
<1>3. stored' = st \/ stored' = <<>>
  BY DEF SetMission
<1>4. Distinct(st)
  <2>1. /\ file.actions \in Seq(Continuous) /\ Len(file.actions) \in Nat
        /\ DOMAIN file.actions = 1 .. Len(file.actions)
    BY DEF CoreInv, TypeOK, Files
  <2>2. \A i \in 0 .. Len(file.actions) - 1 : i + 1 \in DOMAIN file.actions /\ i \in Int
    BY <2>1
  <2>3. \A i, j \in Int : i + 1 = j + 1 => i = j
    OBVIOUS
  <2> QED  BY <1>2, <2>2, <2>3 DEF Distinct
<1> HIDE DEF st
<1>5. Distinct(stored') /\ Distinct(file'.actions)
  BY <1>1, <1>2, <1>3, <1>4, NoStates
<1>6. StatesKept'
  BY <1>1, <1>2, <1>5, FreshStates
<1>7. active' = FALSE
  <2>1. active \in BOOLEAN
    BY DEF CoreInv, TypeOK
  <2> QED  BY <1>1, <2>1
<1> QED  BY <1>6, <1>7, KeepInactive

LEMMA KeepResetMission ==
  ASSUME CoreInv, KeepInv, ResetMission, CoreInv'
  PROVE  KeepInv'
<1> USE DEF missionVars, stateVars, runVars, pendingVars, worldVars, historyVars
<1>1. ~active /\ active' = active /\ stored' = <<>> /\ UNCHANGED <<keeper, nextId, file>>
  BY DEF ResetMission
<1>2. StatesKept /\ Fresh /\ Distinct(file'.actions) /\ Distinct(stored')
  BY <1>1, NoStates DEF KeepInv, StatesKept
<1>3. StatesKept'
  BY <1>1, <1>2, FreshStates
<1>4. active' = FALSE
  <2>1. active \in BOOLEAN
    BY DEF CoreInv, TypeOK
  <2> QED  BY <1>1, <2>1
<1> QED  BY <1>3, <1>4, KeepInactive, Zenon

LEMMA KeepDeactivate ==
  ASSUME CoreInv, KeepInv, NEW mode \in {"own", "Loiter"}, NEW known \in LandedKnown,
         NEW result \in SaveResults, Deactivate(mode, known, result), CoreInv'
  PROVE  KeepInv'
<1> USE DEF missionVars, stateVars, runVars, pendingVars, worldVars, historyVars
<1>1. active' = FALSE
  BY DEF Deactivate
<1>2. /\ nextId \in Nat /\ keeper \in [Continuous -> Nat \cup {NoId}] /\ NoId = -1
      /\ Continuous = Restorable \cup {"onResume"} /\ "onResume" \notin Restorable
      /\ StoredTypes(stored)
  BY DEF CoreInv, TypeOK, StoredTypes, Continuous, NoId, Restorable
<1>3. /\ \A n \in Restorable : Dropped[n] = NoId
      /\ Dropped["onResume"] = keeper["onResume"]
      /\ Dropped \in [Continuous -> Int]
  BY <1>2 DEF Dropped
<1>4. /\ keeper["onResume"] < nextId /\ keeper["onResume"] \in Int
      /\ Distinct(stored) /\ Distinct(file.actions)
  BY <1>2 DEF KeepInv, StatesKept, KeepersOwnState, Distinct
<1>5. \/ keeper' = Dropped /\ nextId' = nextId
      \/ keeper' = [Dropped EXCEPT !["onResume"] = nextId] /\ nextId' = nextId + 1
      \/ keeper' = Dropped /\ nextId' = nextId + 1
  BY DEF Deactivate
<1>6. Fresh'
  <2>1. \A n \in Restorable : keeper'[n] = Dropped[n]
    BY <1>2, <1>3, <1>5
  <2> QED  BY <1>3, <2>1 DEF Fresh
<1>7. \A n \in Continuous : keeper'[n] < nextId'
  <2>1. keeper'["onResume"] < nextId'
    BY <1>2, <1>3, <1>4, <1>5
  <2>2. \A n \in Restorable : keeper'[n] < nextId'
    BY <1>2, <1>5, <1>6 DEF Fresh
  <2> QED  BY <1>2, <2>1, <2>2
<1> DEFINE g == With(nextId, "onResume")
<1>8. StoredTypes(g) /\ Distinct(g)
  <2>1. /\ StoredTypes(g) /\ DOMAIN g = DOMAIN stored \cup {nextId} /\ g[nextId] = "onResume"
        /\ \A i \in DOMAIN stored : i # nextId => g[i] = stored[i]
    <3>1. "onResume" \in Continuous
      BY <1>2
    <3> QED  BY <1>2, <3>1, StoredWith, Zenon
  <2> HIDE DEF g
  <2> QED  BY <1>4, <2>1 DEF Distinct
<1> HIDE DEF g
<1>9. /\ stored' = g \/ stored' = stored \/ stored' = <<>>
      /\ file' \in {file, NoFile, Garbage} \/ file' = Saved(stored')
  BY MissionAssumption DEF Deactivate, g
<1>10. Distinct(stored') /\ StoredTypes(stored')
  BY <1>2, <1>4, <1>8, <1>9, NoStates, NothingStored
<1>11. Distinct(file'.actions)
  <2>1. Distinct(InOrder(stored'))
    BY <1>10, StoredInOrder
  <2>2. Saved(stored').actions = InOrder(stored')
    BY DEF Saved
  <2> QED  BY <1>4, <1>9, <2>1, <2>2, NoStates
<1> QED  BY <1>1, <1>6, <1>7, <1>10, <1>11, StatesAside, KeepInactive

LEMMA KeepCrash ==
  ASSUME CoreInv, KeepInv, Crash, CoreInv'
  PROVE  KeepInv'
<1>1. /\ active' = FALSE /\ stored' = <<>> /\ nextId' = 0
      /\ keeper' = [n \in Continuous |-> NoId]
      /\ file' \in {file, Garbage}
  BY DEF Crash
<1>2. Distinct(stored') /\ Distinct(file'.actions)
  BY <1>1, NoStates DEF KeepInv, StatesKept
<1>3. Fresh' /\ \A n \in Continuous : keeper'[n] < nextId'
  BY <1>1 DEF Fresh, Continuous, NoId
<1> QED  BY <1>1, <1>2, <1>3, StatesAside, KeepInactive

LEMMA KeepActivate ==
  ASSUME CoreInv, KeepInv, Activate
  PROVE  KeepInv'
<1> USE DEF missionVars, stateVars, runVars, pendingVars, worldVars, historyVars
<1>1. ~active /\ UNCHANGED <<stored, nextId, keeper, file, sched, timer, later, traj>>
  BY DEF Activate
<1>2. StatesKept /\ Fresh
  BY <1>1 DEF KeepInv, StatesKept
<1>3. StatesKept' /\ Fresh'
  BY <1>1, <1>2 DEF StatesKept, KeepersOwnState, Fresh, Distinct
<1>4. /\ NextPhase(sched'.done) /\ NextPhase(timer') /\ NextPhase(later')
      /\ traj'.at # NoIndex => NextPhase(traj'.done)
  BY <1>1 DEF CoreInv, TokenInv, Token, Waits, SchedC, TimerC, LaterC, TrajC, NextPhase
<1> DEFINE f == Frame("begin", "start", Closure("begin"))
           g == Frame("begin", "resume", Closure("begin"))
<1>5. \/ todo' = <<f>> \/ todo' = <<g>> \/ todo' = <<Abort, g>> \/ todo' = <<Abort>>
  BY DEF Activate
<1>6. NextFrame(Abort)
  BY NextFrames, Zenon
<1>7. NextPhase(Closure("begin"))
  BY <1>3, NewClosures DEF NextPhase, OfItem
<1>8. f.op = "begin" /\ f.done = Closure("begin") /\ g.op = "begin" /\ g.done = Closure("begin")
  BY DEF Frame
<1> HIDE DEF f, g
<1>9. NextFrame(f) /\ NextFrame(g)
  BY <1>7, <1>8 DEF NextFrame
<1> QED  BY <1>3, <1>4, <1>5, <1>6, <1>9, KeepFrames

\* The first process starts with nothing stored.
LEMMA KeepInit == Init => KeepInv
<1> SUFFICES ASSUME Init PROVE KeepInv
  OBVIOUS
<1>1. /\ active = FALSE /\ stored = <<>> /\ nextId = 0 /\ todo = <<>> /\ traj = NoTraj
      /\ sched = NoSched /\ timer = Nothing /\ later = Nothing /\ file = NoFile
      /\ keeper = [n \in Continuous |-> NoId]
  BY DEF Init, Memory
<1>2. Fresh /\ (\A n \in Continuous : keeper[n] < nextId) /\ DOMAIN <<>> = {}
  BY <1>1 DEF Fresh, Continuous, NoId
<1>3. StatesKept
  BY <1>1, <1>2, NoStates DEF StatesKept, KeepersOwnState
<1>4. Phases
  BY <1>1, <1>2, CompletionTypes DEF Phases, Phase, NoSched, NoTraj
<1>5. FramesKept
  BY <1>1, <1>2 DEF FramesKept, HeadIs
<1> QED  BY <1>3, <1>4, <1>5 DEF KeepInv

LEMMA KeepStuttering == KeepInv /\ UNCHANGED vars => KeepInv'
BY DEF KeepInv, StatesKept, KeepersOwnState, Phases, FramesKept, Phase, Kept, Fresh, HeadIs,
       vars, missionVars, stateVars, runVars, pendingVars, worldVars, historyVars

\* From the end of a resumption to the next interruption the keepers hold
\* exactly the states that are stored, and during the resumption they are
\* empty (addContinousAction(), removeContinousAction(), runStoredActions(),
\* deactivateAllActions()).
THEOREM KeepHolds == Spec => []KeepInv
<1>1. Init => KeepInv
  BY KeepInit
<1>2. CoreInv /\ KeepInv /\ [Next]_vars /\ CoreInv' => KeepInv'
  <2> SUFFICES ASSUME CoreInv, KeepInv, [Next]_vars, CoreInv' PROVE KeepInv'
    OBVIOUS
  <2>1. CASE Step
    BY <2>1, KeepStep
  <2>2. CASE Answers
    BY <2>2, KeepWaypointReached, KeepModeCompletes, KeepAnswers DEF Answers
  <2>3. CASE Interference
    BY <2>3, KeepSetMission, KeepResetMission, KeepAnswers, KeepActivate, KeepDeactivate,
       KeepCrash, KeepModeCompletes DEF Interference
  <2>4. CASE UNCHANGED vars
    BY <2>4, KeepStuttering
  <2> QED  BY <2>1, <2>2, <2>3, <2>4 DEF Next
<1> QED  BY <1>1, <1>2, CoreHolds, PTL DEF Spec

\* A continuous action's keeper names its own state, and no action's state is
\* stored twice, so that a keeper removes only its own and a resumed mission
\* runs every action once (addContinousAction(), removeContinousAction()).
THEOREM KeepersOwnTheirStates == Spec => []KeepersOwnState
<1>1. KeepInv => KeepersOwnState
  BY DEF KeepInv, StatesKept
<1> QED  BY <1>1, KeepHolds, PTL

-----------------------------------------------------------------------------
(* The settings that were asked for.                                        *)

\* What SettingsPhases and SettingsFrames ask of a closure and of a frame after
\* a step.
NextSettings(c) == Continues(c) => IF OfItem(c) THEN Applied' ELSE ~options' /\ Quiet'
SettingsFrame(f) ==
  /\ NextSettings(f.done)
  /\ f.op \notin {"stored", "restore", "flying"}
  /\ f.op = "item" => Applied'

\* The closures and frames that the steps make.
LEMMA NewSettings ==
  /\ NextSettings(Nothing) /\ NextSettings(NoSched.done)
  /\ SettingsFrame(Abort)
  /\ SettingsFrame(RunMode("own", Nothing)) /\ SettingsFrame(RunMode("Loiter", Nothing))
  /\ Applied' => SettingsFrame(RunItem)
  /\ \A c \in Closures : NextSettings(c) => SettingsFrame(Call(c))
  /\ \A m \in Modes \ {"own"}, c \in Closures : NextSettings(c) => SettingsFrame(RunMode(m, c))
  /\ \A c \in Completions : NextSettings(c) => SettingsFrame(Frame("hold", "", c))
<1>1. NextSettings(Nothing) /\ NextSettings(NoSched.done)
  BY CompletionTypes DEF NextSettings, NoSched
<1>2. SettingsFrame(Abort)
  BY <1>1, SimpleFrames DEF SettingsFrame
<1>3. SettingsFrame(RunMode("own", Nothing)) /\ SettingsFrame(RunMode("Loiter", Nothing))
  BY <1>1, SimpleFrames DEF SettingsFrame
<1>4. Applied' => SettingsFrame(RunItem)
  BY <1>1, SimpleFrames DEF SettingsFrame
<1>5. ASSUME NEW c \in Closures, NextSettings(c) PROVE SettingsFrame(Call(c))
  <2> DEFINE f == Call(c)
  <2>1. f.op = "call" /\ f.done = c
    BY NewCall
  <2> HIDE DEF f
  <2>2. SettingsFrame(f)
    BY <1>5, <2>1 DEF SettingsFrame
  <2> QED  BY <2>2 DEF f
<1>6. ASSUME NEW m \in Modes \ {"own"}, NEW c \in Closures, NextSettings(c)
      PROVE  SettingsFrame(RunMode(m, c))
  <2> DEFINE f == RunMode(m, c)
  <2>1. f.op = "mode" /\ f.done = c
    BY NewMode
  <2> HIDE DEF f
  <2>2. SettingsFrame(f)
    BY <1>6, <2>1 DEF SettingsFrame
  <2> QED  BY <2>2 DEF f
<1>7. ASSUME NEW c \in Completions, NextSettings(c) PROVE SettingsFrame(Frame("hold", "", c))
  <2> DEFINE f == Frame("hold", "", c)
  <2>1. f.op = "hold" /\ f.done = c
    BY NewHold
  <2> HIDE DEF f
  <2>2. SettingsFrame(f)
    BY <1>7, <2>1 DEF SettingsFrame
  <2> QED  BY <2>2 DEF f
<1> QED  BY <1>1, <1>2, <1>3, <1>4, <1>5, <1>6, <1>7

\* SettingsPhases after a step, closure by closure.
LEMMA SettingsPhasesNow ==
  ASSUME NextSettings(sched'.done), NextSettings(timer'), NextSettings(later'),
         traj'.at # NoIndex => NextSettings(traj'.done),
         \A i \in DOMAIN todo' : NextSettings(todo'[i].done)
  PROVE  SettingsPhases'
BY DEF SettingsPhases, SettingsPhase, NextSettings

\* The stacks of a callback that begins, or whose first frame had the token.
LEMMA SettingsStacks ==
  ASSUME \/ todo' = <<>>
         \/ \E f : SettingsFrame(f) /\ todo' = <<f>>
         \/ \E f, g : SettingsFrame(f) /\ SettingsFrame(g) /\ todo' = <<f, g>>
         \/ ~options' /\ Quiet' /\ todo' = <<RunStored, RunItem>>,
         NextSettings(sched'.done), NextSettings(timer'), NextSettings(later'),
         traj'.at # NoIndex => NextSettings(traj'.done)
  PROVE  SettingsPhases' /\ SettingsFrames' /\ ~Restores' /\ ~Flies(todo')
<1>1. /\ DOMAIN <<>> = {}
      /\ \A f : <<f>> # <<>> /\ DOMAIN <<f>> = {1} /\ <<f>>[1] = f /\ Len(<<f>>) = 1
      /\ \A f, g : <<f, g>> # <<>> /\ DOMAIN <<f, g>> = {1, 2} /\ <<f, g>>[1] = f
                   /\ <<f, g>>[2] = g /\ Len(<<f, g>>) = 2
  OBVIOUS
<1>2. CASE \/ todo' = <<>>
           \/ \E f : SettingsFrame(f) /\ todo' = <<f>>
           \/ \E f, g : SettingsFrame(f) /\ SettingsFrame(g) /\ todo' = <<f, g>>
  <2>1. /\ \A i \in DOMAIN todo' : SettingsFrame(todo'[i])
        /\ todo' # <<>> => 1 \in DOMAIN todo' /\ Len(todo') \in DOMAIN todo'
    <3>1. CASE todo' = <<>>
      BY <1>1, <3>1
    <3>2. CASE \E f : SettingsFrame(f) /\ todo' = <<f>>
      BY <1>1, <3>2
    <3>3. CASE \E f, g : SettingsFrame(f) /\ SettingsFrame(g) /\ todo' = <<f, g>>
      <4>1. PICK f, g : SettingsFrame(f) /\ SettingsFrame(g) /\ todo' = <<f, g>>
        BY <3>3
      <4>2. DOMAIN todo' = {1, 2} /\ todo'[1] = f /\ todo'[2] = g /\ Len(todo') = 2
        BY <1>1, <4>1
      <4> QED  BY <4>1, <4>2
    <3> QED  BY <1>2, <3>1, <3>2, <3>3
  <2>2. SettingsFrames' /\ ~Restores' /\ ~Flies(todo')
    BY <2>1 DEF SettingsFrames, HeadIs, SettingsFrame, Restores, Flies
  <2>3. SettingsPhases'
    BY <2>1, SettingsPhasesNow DEF SettingsFrame
  <2> QED  BY <2>2, <2>3
<1>3. CASE ~options' /\ Quiet' /\ todo' = <<RunStored, RunItem>>
  <2>1. /\ todo' # <<>> /\ DOMAIN todo' = {1, 2} /\ Len(todo') = 2
        /\ todo'[1].op = "stored" /\ todo'[2].op = "item"
        /\ todo'[1].done = Nothing /\ todo'[2].done = Nothing
    BY <1>1, <1>3, SimpleFrames
  <2>2. SettingsFrames' /\ ~Restores' /\ ~Flies(todo')
    BY <1>3, <2>1 DEF SettingsFrames, HeadIs, Restores, Flies
  <2>3. \A i \in DOMAIN todo' : NextSettings(todo'[i].done)
    BY <2>1, NewSettings
  <2> QED  BY <2>2, <2>3, SettingsPhasesNow
<1> QED  BY <1>2, <1>3

\* The settings stay as they are, and the mission flies on or not.
LEMMA SameSettings ==
  ASSUME SettingsInv, UNCHANGED <<stored, options, asked>>,
         itemState' \in {itemState, "Other"}, traj'.done.k = traj.done.k
  PROVE  \A c : SettingsPhase(c) => NextSettings(c)
BY DEF SettingsPhase, NextSettings, Applied, GivenUp, HasSettings, Quiet

\* A segment that is flown already, or none is.
LEMMA StillFlown ==
  ASSUME SettingsFlown, ~Flies(todo'), ~Flies(todo) \/ ~active,
         \/ itemState' = "Other"
         \/ Quiet'
         \/ UNCHANGED <<active, itemState, asked>> /\ traj'.done.k = traj.done.k
            /\ traj'.options = traj.options
         \/ ~active'
  PROVE  SettingsFlown'
<1>1. CASE itemState' = "Other" \/ Quiet' \/ ~active'
  BY <1>1 DEF SettingsFlown, Quiet
<1>2. CASE /\ UNCHANGED <<active, itemState, asked>>
           /\ traj'.done.k = traj.done.k /\ traj'.options = traj.options
  BY <1>2 DEF SettingsFlown, GivenUp
<1> QED  BY <1>1, <1>2

\* A callback that begins while the settings stay as they are.
LEMMA SettingsComes ==
  ASSUME CoreInv, SettingsInv, Idle, UNCHANGED <<active, stored, options, asked, itemState, file>>,
         \/ todo' = <<>>
         \/ \E f : SettingsFrame(f) /\ todo' = <<f>>,
         sched' = sched \/ NextSettings(sched'.done),
         timer' = timer \/ NextSettings(timer'),
         later' = later \/ NextSettings(later'),
         traj' = traj \/ (/\ traj.at # NoIndex /\ traj'.done = traj.done
                          /\ traj'.options = traj.options),
         index' = index \/ index' # NoIndex
  PROVE  SettingsInv'
<1>1. \A c : SettingsPhase(c) => NextSettings(c)
  BY SameSettings
<1>2. /\ NextSettings(sched'.done) /\ NextSettings(timer') /\ NextSettings(later')
      /\ traj'.at # NoIndex => NextSettings(traj'.done)
  BY <1>1 DEF SettingsInv, SettingsPhases
<1>3. SettingsPhases' /\ SettingsFrames' /\ ~Restores' /\ ~Flies(todo')
  BY <1>2, SettingsStacks
<1>4. ~Restores /\ ~Flies(todo)
  BY IdleStack DEF Restores, Flies
<1>5. SettingsAsked'
  BY <1>3, <1>4 DEF SettingsInv, SettingsAsked, GivenUp, HasSettings
<1>6. SettingsFlown'
  BY <1>3, <1>4, StillFlown DEF SettingsInv
<1>7. SettingsSaved'
  BY DEF SettingsInv, SettingsSaved
<1> QED  BY <1>3, <1>5, <1>6, <1>7 DEF SettingsInv

\* The frame with the token is replaced by one frame or two.
LEMMA SettingsTop ==
  ASSUME CoreInv, SettingsInv, ~Idle, Carry(todo[1])
  PROVE  /\ todo[1] \in Frames /\ Head(todo) = todo[1] /\ 1 \in DOMAIN todo /\ active
         /\ Done = todo[1].done /\ Arg = todo[1].arg
         /\ SettingsPhase(todo[1].done)
         /\ todo[1].op = "item" => Applied
         /\ todo[1].op # "item" => Continues(todo[1].done)
         /\ ~Restores /\ ~Flies(todo) /\ ~HeadIs("stored")
         /\ GivenUp \/ ((asked = "changed") <=> HasSettings)
         /\ index \in Int /\ index >= 0 /\ options \in BOOLEAN
<1>1. /\ todo[1] \in Frames /\ Head(todo) = todo[1] /\ 1 \in DOMAIN todo /\ active
      /\ todo # <<>> /\ Done = todo[1].done /\ Arg = todo[1].arg /\ DOMAIN todo = 1 .. Len(todo)
  BY TopFrame DEF CoreInv, Done, Arg
<1>2. Len(todo) = 1 /\ index >= 0
  BY TokenPush DEF CoreInv
<1>3. todo[1].op \notin {"stored", "restore", "flying"}
  BY <1>1, FrameTypes, CompletionTypes DEF Carry
<1>4. ~Restores /\ ~Flies(todo) /\ ~HeadIs("stored")
  BY <1>1, <1>2, <1>3 DEF Restores, Flies, HeadIs
<1>5. SettingsPhase(todo[1].done) /\ (todo[1].op = "item" => Applied)
  BY <1>1, <1>4 DEF SettingsInv, SettingsPhases, SettingsFrames
<1>6. GivenUp \/ ((asked = "changed") <=> HasSettings)
  BY <1>4 DEF SettingsInv, SettingsAsked
<1>7. index \in Int /\ options \in BOOLEAN
  BY MissionTypes DEF CoreInv, TypeOK
<1> QED  BY <1>1, <1>2, <1>4, <1>5, <1>6, <1>7 DEF Carry

\* What is left to show when that frame is replaced.
LEMMA SettingsReplaced ==
  ASSUME CoreInv, SettingsInv, ~Idle, Carry(todo[1]), file' = file, traj' = traj,
         \/ Then(<<>>)
         \/ \E f \in Frames : SettingsFrame(f) /\ Then(<<f>>)
         \/ \E f, g \in Frames : SettingsFrame(f) /\ SettingsFrame(g) /\ Then(<<f, g>>)
         \/ ~options' /\ Quiet' /\ Then(<<RunStored, RunItem>>),
         sched' = sched \/ NextSettings(sched'.done),
         timer' = timer \/ NextSettings(timer'),
         later' = later \/ NextSettings(later'),
         index' # NoIndex,
         GivenUp' \/ ((asked' = "changed") <=> HasSettings'),
         itemState' = "Other" \/ Quiet' \/ UNCHANGED <<active, itemState, asked>>
  PROVE  SettingsInv'
<1>1. /\ \A fr \in Seq(Frames) : fr \o Tail(todo) = fr
      /\ ~SchedC /\ ~TimerC /\ ~LaterC /\ ~TrajC
  BY TokenPush DEF CoreInv
<1>2. /\ NextSettings(sched'.done) /\ NextSettings(timer') /\ NextSettings(later')
      /\ traj'.at # NoIndex => NextSettings(traj'.done)
  BY <1>1 DEF SchedC, TimerC, LaterC, TrajC, NextSettings
<1>3. /\ <<>> \in Seq(Frames) /\ \A f \in Frames : <<f>> \in Seq(Frames)
      /\ \A f, g \in Frames : <<f, g>> \in Seq(Frames)
      /\ <<RunStored, RunItem>> \in Seq(Frames)
  <2>1. RunStored \in Frames /\ RunItem \in Frames
    BY SimpleFrames, Zenon
  <2>2. /\ <<>> \in Seq(Frames) /\ \A f \in Frames : <<f>> \in Seq(Frames)
        /\ \A f, g \in Frames : <<f, g>> \in Seq(Frames)
    OBVIOUS
  <2> QED  BY <2>1, <2>2, Zenon
<1>4. \/ todo' = <<>>
      \/ \E f : SettingsFrame(f) /\ todo' = <<f>>
      \/ \E f, g : SettingsFrame(f) /\ SettingsFrame(g) /\ todo' = <<f, g>>
      \/ ~options' /\ Quiet' /\ todo' = <<RunStored, RunItem>>
  <2>1. CASE Then(<<>>)
    BY <1>1, <1>3, <2>1 DEF Then
  <2>2. CASE \E f \in Frames : SettingsFrame(f) /\ Then(<<f>>)
    <3>1. PICK f \in Frames : SettingsFrame(f) /\ Then(<<f>>)
      BY <2>2
    <3>2. todo' = <<f>>
      BY <1>1, <1>3, <3>1, Zenon DEF Then
    <3> QED  BY <3>1, <3>2, Zenon
  <2>3. CASE \E f, g \in Frames : SettingsFrame(f) /\ SettingsFrame(g) /\ Then(<<f, g>>)
    <3>1. PICK f, g \in Frames : SettingsFrame(f) /\ SettingsFrame(g) /\ Then(<<f, g>>)
      BY <2>3
    <3>2. todo' = <<f, g>>
      BY <1>1, <1>3, <3>1, Zenon DEF Then
    <3> QED  BY <3>1, <3>2, Zenon
  <2>4. CASE ~options' /\ Quiet' /\ Then(<<RunStored, RunItem>>)
    <3>1. todo' = <<RunStored, RunItem>>
      BY <1>1, <1>3, <2>4, Zenon DEF Then
    <3> QED  BY <2>4, <3>1
  <2> QED  BY <2>1, <2>2, <2>3, <2>4
<1>5. SettingsPhases' /\ SettingsFrames' /\ ~Restores' /\ ~Flies(todo')
  BY <1>2, <1>4, SettingsStacks
<1>6. SettingsAsked'
  BY <1>5 DEF SettingsAsked
<1>7. SettingsFlown'
  <2>1. ~Flies(todo)
    BY SettingsTop
  <2> QED  BY <1>5, <2>1, StillFlown DEF SettingsInv
<1>8. SettingsSaved'
  BY DEF SettingsInv, SettingsSaved
<1> QED  BY <1>5, <1>6, <1>7, <1>8 DEF SettingsInv

\* runTrajectory()
LEMMA SettingsFly ==
  ASSUME CoreInv, SettingsInv, ~Idle, Carry(todo[1]),
         NEW from, NEW to, NEW c, Fly(from, to, c), NextSettings(c),
         c.k = "segment" => Applied,
         UNCHANGED <<level, sched, timer, later, index, stored, options, asked, itemState, file>>
  PROVE  SettingsInv'
<1>1. /\ \A fr \in Seq(Frames) : fr \o Tail(todo) = fr
      /\ ~SchedC /\ ~TimerC /\ ~LaterC /\ level' = 0
  BY TokenPush DEF CoreInv
<1>2. traj' = [at |-> from, end |-> to, options |-> options, done |-> c]
  BY Zenon DEF Fly
<1>3. /\ traj'.done = c /\ traj'.options = options
      /\ ~SchedC' /\ ~TimerC' /\ ~LaterC'
  BY <1>1, <1>2 DEF SchedC, TimerC, LaterC
<1> DEFINE f == Frame("flying", "", Nothing)
           m == RunMode("own", Nothing)
<1>4. todo' = <<f>> \/ todo' = <<m, f>>
  <2>1. Then((IF activeMode = "own" THEN <<>> ELSE <<RunMode("own", Nothing)>>)
             \o <<Frame("flying", "", Nothing)>>)
    BY Zenon DEF Fly
  <2> QED  BY <1>1, <2>1, FlyFrames, Zenon
<1>5. f.op = "flying" /\ f.done = Nothing /\ m.op = "mode" /\ m.done = Nothing
  BY DEF Frame, RunMode
<1> HIDE DEF f, m
<1>6. /\ \A i \in DOMAIN todo' : todo'[i].op \in {"mode", "flying"} /\ todo'[i].done = Nothing
      /\ todo' # <<>> => 1 \in DOMAIN todo'
  BY <1>4, <1>5
<1>7. SettingsPhases'
  <2>1. /\ \A i \in DOMAIN todo' : NextSettings(todo'[i].done)
        /\ NextSettings(sched'.done) /\ NextSettings(timer') /\ NextSettings(later')
        /\ NextSettings(traj'.done)
    BY <1>3, <1>6, NewSettings DEF SchedC, TimerC, LaterC, NextSettings
  <2> QED  BY <2>1, SettingsPhasesNow
<1>8. SettingsFrames' /\ ~Restores'
  BY <1>6 DEF SettingsFrames, HeadIs, Restores
<1>9. /\ GivenUp \/ ((asked = "changed") <=> HasSettings)
      /\ index # NoIndex /\ options \in BOOLEAN
  BY SettingsTop DEF NoIndex
<1>10. SettingsAsked'
  BY <1>8, <1>9 DEF SettingsAsked, GivenUp, HasSettings
<1>11. SettingsFlown'
  <2>1. c.k = "segment" => GivenUp \/ options = (asked = "changed")
    BY <1>9 DEF Applied
  <2> QED  BY <1>3, <2>1 DEF SettingsFlown, GivenUp
<1>12. SettingsSaved'
  BY DEF SettingsInv, SettingsSaved
<1> QED  BY <1>7, <1>8, <1>10, <1>11, <1>12 DEF SettingsInv

-----------------------------------------------------------------------------
\* The states of the settings that the steps below change.
LEMMA SettingsStored ==
  /\ StoreState("settings") => HasSettings'
  /\ CoreInv /\ KeepInv /\ Kept /\ active /\ StoreState("camera") => (HasSettings' <=> HasSettings)
  /\ CoreInv /\ KeepInv /\ Kept /\ stored' = Without(stored, {keeper["settings"]}) => ~HasSettings'
<1>1. ASSUME StoreState("settings") PROVE HasSettings'
  <2>1. stored' = Without(With(nextId, "settings"),
                          IF active THEN {keeper["settings"]} \ {nextId} ELSE {})
    BY <1>1 DEF StoreState
  <2>2. nextId \in DOMAIN stored' /\ stored'[nextId] = "settings"
    BY <2>1 DEF Without, With
  <2> QED  BY <2>2 DEF HasSettings
<1>2. ASSUME CoreInv, KeepInv, Kept, active, StoreState("camera")
      PROVE  HasSettings' <=> HasSettings
  <2>1. /\ nextId \in Nat /\ keeper \in [Continuous -> Nat \cup {NoId}] /\ NoId = -1
        /\ Restorable \subseteq Continuous
        /\ "camera" \in Restorable /\ "settings" \in Restorable
    BY <1>2 DEF CoreInv, TypeOK, Continuous, Restorable, NoId
  <2>2. /\ \A i \in DOMAIN stored : stored[i] \in Restorable /\ keeper[stored[i]] = i
        /\ \A m \in Continuous : keeper[m] < nextId
        /\ keeper["camera"] # NoId => stored[keeper["camera"]] = "camera"
    BY <1>2, <2>1 DEF KeepInv, StatesKept, KeepersOwnState, Kept
  <2>3. stored' = Without(With(nextId, "camera"), {keeper["camera"]} \ {nextId})
    BY <1>2 DEF StoreState
  <2>4. /\ DOMAIN stored' = (DOMAIN stored \cup {nextId}) \ ({keeper["camera"]} \ {nextId})
        /\ \A i \in DOMAIN stored' : stored'[i] = IF i = nextId THEN "camera" ELSE stored[i]
    BY <2>3 DEF With, Without
  <2>5. \A i \in DOMAIN stored : stored[i] = "settings" => i # nextId /\ i # keeper["camera"]
    <3>1. \A i \in DOMAIN stored : stored[i] = "settings" => keeper["settings"] = i
      BY <2>2
    <3>2. keeper["settings"] # nextId /\ keeper["settings"] \in Int
      BY <2>1, <2>2
    <3>3. \A i \in DOMAIN stored : stored[i] = "settings" => i # keeper["camera"]
      <4>1. SUFFICES ASSUME NEW i \in DOMAIN stored, stored[i] = "settings", i = keeper["camera"]
                     PROVE  FALSE
        OBVIOUS
      <4>2. i = keeper["settings"] /\ i \in Nat
        <5>1. i \in Nat
          BY <1>2 DEF CoreInv, TypeOK
        <5> QED  BY <3>1, <4>1, <5>1
      <4>3. keeper["camera"] # NoId
        BY <2>1, <4>1, <4>2
      <4> QED  BY <2>2, <4>1, <4>3
    <3> QED  BY <3>1, <3>2, <3>3
  <2> QED  BY <2>4, <2>5 DEF HasSettings
<1>3. ASSUME CoreInv, KeepInv, Kept, stored' = Without(stored, {keeper["settings"]})
      PROVE  ~HasSettings'
  <2>1. /\ DOMAIN stored' = DOMAIN stored \ {keeper["settings"]}
        /\ \A i \in DOMAIN stored' : stored'[i] = stored[i]
    BY <1>3 DEF Without
  <2> QED  BY <1>3, <2>1 DEF HasSettings, Kept
<1> QED  BY <1>1, <1>2, <1>3

\* A step of the frame with the token that leaves the settings as they are.
LEMMA SettingsLeft ==
  ASSUME CoreInv, SettingsInv, ~Idle, Carry(todo[1]), UNCHANGED <<stored, options, asked>>,
         traj' = traj, itemState' \in {itemState, "Other"}
  PROVE  /\ NextSettings(Done)
         /\ index # NoIndex
         /\ GivenUp' \/ ((asked' = "changed") <=> HasSettings')
<1>1. SettingsPhase(Done) /\ index >= 0 /\ (GivenUp \/ ((asked = "changed") <=> HasSettings))
  BY SettingsTop
<1>2. NextSettings(Done)
  BY <1>1, SameSettings
<1>3. GivenUp' \/ ((asked' = "changed") <=> HasSettings')
  BY <1>1 DEF GivenUp, HasSettings
<1>4. index # NoIndex
  BY <1>1 DEF NoIndex
<1> QED  BY <1>2, <1>3, <1>4

\* By onActivate() and runCurrentMissionItem().
LEMMA SettingsBegin ==
  ASSUME CoreInv, SettingsInv, Begin, Carry(todo[1])
  PROVE  SettingsInv'
<1> USE DEF missionVars, stateVars, runVars, pendingVars, worldVars, historyVars
<1>1. ~Idle
  BY DEF Begin, Top
<1>2. todo[1].op = "begin" /\ Done.valid /\ index \in Int /\ index >= 0
      /\ (GivenUp \/ ((asked = "changed") <=> HasSettings))
  <2>1. todo[1].op = "begin"
    BY <1>1, SettingsTop DEF Begin, Top
  <2> QED  BY <1>1, <2>1, SettingsTop DEF Continues
<1>3. ~options /\ Quiet
  <2>1. Done.k = "begin" /\ SettingsPhase(Done) /\ Continues(Done)
    BY <1>1, <1>2, SettingsTop, FrameTypes, CompletionTypes
  <2> QED  BY <2>1 DEF SettingsPhase, OfItem
<1>4. UNCHANGED <<active, index, file, options, asked, itemState, sched, timer, later, traj>>
  BY DEF Begin
<1>5. HasSettings' <=> HasSettings
  <2>1. \/ stored' = stored
        \/ \E ids \in SUBSET {i \in DOMAIN stored : stored[i] = "onResume"} :
             stored' = Without(stored, ids)
    BY <1>2 DEF Begin
  <2> QED  BY <2>1 DEF HasSettings, Without
<1>6. GivenUp' \/ ((asked' = "changed") <=> HasSettings')
  BY <1>2, <1>4, <1>5 DEF GivenUp
<1>7. ~options' /\ Quiet' /\ index' # NoIndex
  BY <1>2, <1>3, <1>4 DEF Quiet, NoIndex
<1> DEFINE c == [Closure("resumed") EXCEPT !.prev = index]
           f == RunAction("onResume", c)
<1>8. c \in Completions /\ c.k = "resumed"
  BY <1>2, ResumedClosure
<1>9. Then(<<RunStored, RunItem>>) \/ Then(<<f>>)
  BY <1>2 DEF Begin
<1> HIDE DEF c
<1>10. f \in Frames /\ f.op = "action" /\ f.done = c
  BY <1>8, NewAction
<1> HIDE DEF f
<1>11. SettingsFrame(f)
  BY <1>7, <1>8, <1>10 DEF SettingsFrame, NextSettings, OfItem
<1> QED  BY <1>1, <1>4, <1>6, <1>7, <1>9, <1>10, <1>11, SettingsReplaced

LEMMA SettingsItemRuns ==
  ASSUME CoreInv, SettingsInv, ItemRuns
  PROVE  SettingsInv'
<1> USE DEF missionVars, stateVars, runVars, pendingVars, worldVars, historyVars
<1>1. /\ ~Idle /\ todo[1].op = "item" /\ Carry(todo[1])
  BY TopFrame DEF CoreInv, ItemRuns, Top, Carry
<1>2. UNCHANGED <<active, index, stored, file, level, options, asked, itemState, sched, timer, later>>
  BY DEF ItemRuns
<1>3. Applied /\ Applied' /\ index' # NoIndex /\ (GivenUp' \/ ((asked' = "changed") <=> HasSettings'))
  <2>1. Applied /\ index >= 0 /\ (GivenUp \/ ((asked = "changed") <=> HasSettings))
    BY <1>1, SettingsTop
  <2>2. (Applied <=> Applied') /\ (GivenUp <=> GivenUp') /\ (HasSettings <=> HasSettings')
    BY <1>2 DEF Applied, GivenUp, HasSettings
  <2>3. index' # NoIndex
    BY <1>2, <2>1 DEF NoIndex
  <2> QED  BY <1>2, <2>1, <2>2, <2>3
<1>4. CASE /\ ~IndexValid(index)
           /\ Then(IF activeMode = "own" \/ index = NoIndex
                   THEN <<RunMode("Loiter", Nothing)>> ELSE <<>>)
           /\ UNCHANGED traj
  <2> DEFINE f == RunMode("Loiter", Nothing)
  <2>1. f \in Frames /\ SettingsFrame(f)
    <3>1. f \in Frames
      BY SimpleFrames, Zenon
    <3>2. SettingsFrame(f)
      BY NewSettings, Zenon
    <3> QED  BY <3>1, <3>2
  <2>2. Then(<<f>>) \/ Then(<<>>)
    BY <1>4
  <2> HIDE DEF f
  <2> QED  BY <1>1, <1>2, <1>3, <1>4, <2>1, <2>2, SettingsReplaced
<1>5. CASE index \in Waypoints /\ Fly(index, SegmentEnd(index), Closure("segment"))
  <2>1. NextSettings(Closure("segment"))
    BY <1>3, NewClosures DEF NextSettings, OfItem
  <2> QED  BY <1>1, <1>2, <1>3, <1>5, <2>1, SettingsFly
<1>6. CASE /\ IndexValid(index) /\ index \notin Waypoints
           /\ Then(<<RunAction(Item(index), Closure("next"))>>)
           /\ UNCHANGED traj
  <2>1. /\ mission \in Seq(Items) /\ Len0 \in Nat
        /\ \A i \in DOMAIN mission : mission[i] \in Items /\ mission[i] # "undefined"
    <3>1. valid
      BY <1>1, TokenPush DEF CoreInv
    <3> QED  BY <3>1, MissionTypes DEF CoreInv, TokenInv
  <2>2. Item(index) \in Actions
    BY <1>1, <1>6, <2>1, SettingsTop DEF IndexValid, Waypoints, Item, Items, Len0
  <2> DEFINE c == Closure("next")
             f == RunAction(Item(index), c)
  <2>3. c \in Completions /\ c.k = "next"
    BY NewClosures
  <2>4. Then(<<f>>)
    BY <1>6
  <2> HIDE DEF c
  <2>5. f \in Frames /\ f.op = "action" /\ f.done = c
    BY <2>2, <2>3, NewAction
  <2> HIDE DEF f
  <2>6. SettingsFrame(f)
    BY <1>3, <2>3, <2>5 DEF SettingsFrame, NextSettings, OfItem
  <2> QED  BY <1>1, <1>2, <1>3, <1>6, <2>4, <2>5, <2>6, SettingsReplaced
<1> QED  BY <1>4, <1>5, <1>6 DEF ItemRuns

\* By runMode() and the rest of a hold.
LEMMA SettingsModeRuns ==
  ASSUME CoreInv, SettingsInv, ModeRuns, Carry(todo[1])
  PROVE  SettingsInv'
<1> USE DEF missionVars, stateVars, runVars, pendingVars, worldVars, historyVars
<1>1. ~Idle
  BY DEF ModeRuns, Top
<1>2. /\ todo[1].op = "mode" /\ Done = todo[1].done
      /\ Continues(Done) /\ Done \in Closures
  <2>1. todo[1].op = "mode"
    BY <1>1, SettingsTop DEF ModeRuns, Top
  <2> QED  BY <1>1, <2>1, SettingsTop, FrameTypes
<1>3. UNCHANGED <<active, index, stored, file, options, asked, timer, later, traj>>
      /\ itemState' = "Other"
  BY DEF ModeRuns
<1>4. /\ NextSettings(Done) /\ index' # NoIndex
      /\ (GivenUp' \/ ((asked' = "changed") <=> HasSettings'))
  BY <1>1, <1>3, SettingsLeft
<1>5. ModeFailed(Done) = <<Abort>>
  BY <1>2, CompletionTypes DEF ModeFailed, Continues
<1>6. CASE sched' = [mode |-> Arg, done |-> Done] /\ Then(<<>>)
  <2>1. sched'.done = Done
    BY <1>6
  <2> QED  BY <1>1, <1>3, <1>4, <1>6, <2>1, SettingsReplaced
<1>7. CASE sched' = NoSched /\ Then(ModeFailed(Done))
  <2>1. SettingsFrame(Abort)
    BY NewSettings, Zenon
  <2>2. Abort \in Frames
    BY SimpleFrames, Zenon
  <2>3. Then(<<Abort>>)
    BY <1>5, <1>7, Zenon
  <2>4. NextSettings(sched'.done)
    BY <1>7, NewSettings, Zenon
  <2> QED  BY <1>1, <1>3, <1>4, <2>1, <2>2, <2>3, <2>4, SettingsReplaced
<1> QED  BY <1>6, <1>7 DEF ModeRuns

LEMMA SettingsHoldStarts ==
  ASSUME CoreInv, SettingsInv, HoldStarts, Carry(todo[1])
  PROVE  SettingsInv'
<1> USE DEF missionVars, stateVars, runVars, pendingVars, worldVars, historyVars
<1>1. ~Idle
  BY DEF HoldStarts, Top
<1>2. UNCHANGED <<active, index, stored, file, options, asked, itemState, sched, later, traj>>
  BY DEF HoldStarts
<1>3. /\ NextSettings(Done) /\ index' # NoIndex
      /\ (GivenUp' \/ ((asked' = "changed") <=> HasSettings'))
  BY <1>1, <1>2, SettingsLeft
<1>4. timer' = Done /\ Then(<<>>)
  BY DEF HoldStarts
<1> QED  BY <1>1, <1>2, <1>3, <1>4, SettingsReplaced

-----------------------------------------------------------------------------
\* An action that is run leaves the trajectory item.
LEMMA SettingsModeActionRuns ==
  ASSUME CoreInv, KeepInv, SettingsInv, ModeActionRuns, Carry(todo[1])
  PROVE  SettingsInv'
<1> USE DEF missionVars, stateVars, runVars, pendingVars, worldVars, historyVars
<1>1. PICK name \in DOMAIN ModeOf :
        Action(name) /\ Then(<<RunMode(ModeOf[name], Done)>>)
  BY DEF ModeActionRuns
<1>2. /\ UNCHANGED <<active, index, stored, file, options, asked, sched, timer, later, traj>>
      /\ ~Idle /\ Done \in Closures /\ itemState' = "Other"
  <2>1. ~Idle /\ todo[1].op = "action" /\ Done \in Closures
    BY <1>1, KeepActionTop
  <2>2. itemState' = "Other"
    BY <1>1, <2>1, ActionTop
  <2> QED  BY <2>1, <2>2 DEF ModeActionRuns, Unmoved
<1>3. /\ NextSettings(Done) /\ index' # NoIndex
      /\ (GivenUp' \/ ((asked' = "changed") <=> HasSettings'))
  BY <1>2, SettingsLeft
<1> DEFINE f == RunMode(ModeOf[name], Done)
<1>4. ModeOf[name] \in Modes \ {"own"}
  BY DEF ModeOf, Modes
<1>5. f \in Frames
  BY <1>2, <1>4, NewMode, Zenon
<1>6. SettingsFrame(f)
  BY <1>2, <1>3, <1>4, NewSettings, Zenon
<1>7. Then(<<f>>)
  BY <1>1
<1> HIDE DEF f
<1> QED  BY <1>2, <1>3, <1>5, <1>6, <1>7, SettingsReplaced

\* By the actions.
LEMMA SettingsHoldRuns ==
  ASSUME CoreInv, KeepInv, SettingsInv, HoldRuns, Carry(todo[1])
  PROVE  SettingsInv'
<1> USE DEF missionVars, stateVars, runVars, pendingVars, worldVars, historyVars
<1> DEFINE f == RunMode("Loiter", Nothing)
           g == Frame("hold", "", Done)
<1>1. Action("hold") /\ Then(<<f, g>>)
  BY Zenon DEF HoldRuns
<1>2. /\ UNCHANGED <<active, index, stored, file, options, asked, sched, timer, later, traj>>
      /\ ~Idle /\ Done \in Completions /\ itemState' = "Other"
  <2>1. ~Idle /\ todo[1].op = "action" /\ Done \in Completions
    BY <1>1, KeepActionTop
  <2>2. itemState' = "Other"
    BY <1>1, <2>1, ActionTop
  <2>3. Unmoved /\ UNCHANGED <<stateVars, options, later, asked, stops>>
    BY Zenon DEF HoldRuns
  <2> QED  BY <2>1, <2>2, <2>3 DEF Unmoved
<1>3. /\ NextSettings(Done) /\ index' # NoIndex
      /\ (GivenUp' \/ ((asked' = "changed") <=> HasSettings'))
  BY <1>2, SettingsLeft
<1>4. f \in Frames
  BY SimpleFrames, Zenon
<1>5. g \in Frames
  BY <1>2, NewHold, Zenon
<1>6. SettingsFrame(f)
  BY NewSettings, Zenon
<1>7. SettingsFrame(g)
  BY <1>2, <1>3, NewSettings, Zenon
<1> HIDE DEF f, g
<1> QED  BY <1>1, <1>2, <1>3, <1>4, <1>5, <1>6, <1>7, SettingsReplaced

\* An action that completes at once.
LEMMA SettingsCall ==
  ASSUME CoreInv, SettingsInv, ~Idle, Carry(todo[1]), file' = file,
         NEW c \in Closures, NextSettings(c), Then(<<Call(c)>>),
         UNCHANGED <<sched, timer, later, traj>>, index' # NoIndex,
         GivenUp' \/ ((asked' = "changed") <=> HasSettings'),
         itemState' = "Other" \/ Quiet' \/ UNCHANGED <<active, itemState, asked>>
  PROVE  SettingsInv'
<1>1. Call(c) \in Frames /\ SettingsFrame(Call(c))
  <2>1. Call(c) \in Frames
    BY NewCall, Zenon
  <2>2. SettingsFrame(Call(c))
    BY NewSettings, Zenon
  <2> QED  BY <2>1, <2>2
<1> QED  BY <1>1, SettingsReplaced

LEMMA SettingsChange ==
  ASSUME CoreInv, KeepInv, SettingsInv, ChangeSettingsRuns, Carry(todo[1])
  PROVE  SettingsInv'
<1> USE DEF missionVars, stateVars, runVars, pendingVars, worldVars, historyVars
<1>1. PICK name \in {"settings", "reset"} :
        /\ Action(name)
        /\ \/ name = "settings" /\ StoreState("settings") /\ options' = TRUE /\ asked' = "changed"
           \/ /\ name = "reset" /\ stored' = Without(stored, {keeper["settings"]})
              /\ options' = FALSE /\ asked' = "default"
  BY DEF ChangeSettingsRuns
<1>2. /\ UNCHANGED <<active, index, file, sched, timer, later, traj>> /\ Then(<<Call(Done)>>)
  BY DEF ChangeSettingsRuns, Unmoved
<1>3. /\ ~Idle /\ Done \in Closures /\ Kept /\ Done.k = "next" /\ itemState' = "Other"
  <2>1. ~Idle /\ todo[1].op = "action" /\ Done \in Closures /\ Kept /\ Done.k = "next"
    BY <1>1, KeepActionTop
  <2>2. itemState' = "Other"
    BY <1>1, <2>1, ActionTop
  <2> QED  BY <2>1, <2>2
<1>4. /\ (options' <=> HasSettings') /\ ((asked' = "changed") <=> HasSettings')
  BY <1>1, <1>3, SettingsStored
<1>5. NextSettings(Done)
  BY <1>3, <1>4 DEF NextSettings, OfItem, Applied
<1>6. index' # NoIndex
  BY <1>2, <1>3, SettingsTop DEF NoIndex
<1> QED  BY <1>2, <1>3, <1>4, <1>5, <1>6, SettingsCall

LEMMA SettingsCamera ==
  ASSUME CoreInv, KeepInv, SettingsInv, CameraRuns, Carry(todo[1])
  PROVE  SettingsInv'
<1> USE DEF missionVars, stateVars, runVars, pendingVars, worldVars, historyVars
<1>1. Action("camera")
  BY DEF CameraRuns
<1>2. UNCHANGED <<active, index, file, options, asked, sched, timer, later, traj>>
  BY DEF CameraRuns, Unmoved
<1>3. /\ ~Idle /\ active /\ Done \in Closures /\ Kept /\ Done.k = "next" /\ itemState' = "Other"
      /\ ~Top("restore")
  <2>1. ~Idle /\ active /\ todo[1].op = "action" /\ Done \in Closures /\ Kept /\ Done.k = "next"
    BY <1>1, KeepActionTop
  <2>2. itemState' = "Other" /\ ~Top("restore")
    BY <1>1, <2>1, ActionTop
  <2> QED  BY <2>1, <2>2
<1>4. StoreState("camera") /\ Then(<<Call(Done)>>)
  BY <1>3 DEF CameraRuns
<1>5. HasSettings' <=> HasSettings
  BY <1>3, <1>4, SettingsStored
<1>6. /\ SettingsPhase(Done) /\ Continues(Done) /\ index # NoIndex
      /\ (GivenUp \/ ((asked = "changed") <=> HasSettings))
  <2>1. todo[1].op = "action"
    BY <1>1, KeepActionTop
  <2> QED  BY <1>3, <2>1, SettingsTop DEF NoIndex
<1>7. Applied
  BY <1>3, <1>6 DEF SettingsPhase, OfItem
<1>8. Applied' /\ (GivenUp' \/ ((asked' = "changed") <=> HasSettings'))
  BY <1>2, <1>5, <1>6, <1>7 DEF Applied, GivenUp
<1>9. NextSettings(Done)
  BY <1>3, <1>8 DEF NextSettings, OfItem
<1> QED  BY <1>2, <1>3, <1>4, <1>6, <1>8, <1>9, SettingsCall

LEMMA SettingsCustom ==
  ASSUME CoreInv, KeepInv, SettingsInv, NEW outcome \in CustomOutcomes, CustomRuns(outcome),
         Carry(todo[1])
  PROVE  SettingsInv'
<1> USE DEF missionVars, stateVars, runVars, pendingVars, worldVars, historyVars
<1>1. Action("custom")
  BY DEF CustomRuns
<1>2. /\ UNCHANGED <<active, stored, file, options, asked, sched, timer, traj>>
      /\ ~Idle /\ Done \in Closures /\ itemState' = "Other"
  <2>1. ~Idle /\ todo[1].op = "action" /\ Done \in Closures
    BY <1>1, KeepActionTop
  <2>2. itemState' = "Other"
    BY <1>1, <2>1, ActionTop
  <2> QED  BY <2>1, <2>2 DEF CustomRuns, Unmoved
<1>3. /\ NextSettings(Done) /\ index # NoIndex
      /\ (GivenUp' \/ ((asked' = "changed") <=> HasSettings'))
  BY <1>2, SettingsLeft
<1>4. index' # NoIndex
  <2>1. index' = index \/ index' \in 0 .. Len0 - 1
    BY DEF CustomRuns
  <2> QED  BY <1>3, <2>1 DEF NoIndex
<1>5. later' = Done \/ later' = later
  BY DEF CustomRuns
<1> DEFINE f == Call(Done)
<1>6. Then(<<>>) \/ Then(<<Abort, f>>) \/ Then(<<f>>)
  BY DEF CustomRuns
<1>7. f \in Frames
  BY <1>2, NewCall, Zenon
<1>8. SettingsFrame(f)
  BY <1>2, <1>3, NewSettings, Zenon
<1>9. Abort \in Frames
  BY SimpleFrames, Zenon
<1>10. SettingsFrame(Abort)
  BY NewSettings, Zenon
<1> HIDE DEF f
<1>11. \/ Then(<<>>)
       \/ \E g \in Frames : SettingsFrame(g) /\ Then(<<g>>)
       \/ \E g, h \in Frames : SettingsFrame(g) /\ SettingsFrame(h) /\ Then(<<g, h>>)
  BY <1>6, <1>7, <1>8, <1>9, <1>10, Zenon
<1> QED  BY <1>2, <1>3, <1>4, <1>5, <1>11, SettingsReplaced

LEMMA SettingsOnResume ==
  ASSUME CoreInv, KeepInv, SettingsInv, NEW known \in LandedKnown, OnResumeRuns(known),
         Carry(todo[1])
  PROVE  SettingsInv'
<1> USE DEF missionVars, stateVars, runVars, pendingVars, worldVars, historyVars
<1>1. Action("onResume")
  BY DEF OnResumeRuns
<1>2. /\ UNCHANGED <<active, stored, file, options, asked, sched, timer, later, traj>>
      /\ ~Idle /\ Done \in Completions /\ Done \in Closures /\ Done.k = "resumed"
      /\ itemState' = "Other" /\ index \in Int /\ Len0 \in Nat /\ index >= 0 /\ index < Len0
  <2>1. ~Idle /\ todo[1].op = "action" /\ Done \in Completions /\ Done \in Closures
        /\ Done.k = "resumed"
    BY <1>1, KeepActionTop
  <2>2. itemState' = "Other" /\ index \in Int /\ Len0 \in Nat /\ index >= 0 /\ index < Len0
    BY <1>1, <2>1, ActionTop
  <2> QED  BY <2>1, <2>2 DEF OnResumeRuns, Unmoved
<1>3. /\ NextSettings(Done) /\ (GivenUp' \/ ((asked' = "changed") <=> HasSettings'))
  BY <1>2, SettingsLeft
<1>4. index' # NoIndex
  <2>1. index' = index \/ index' = (index + 1) % Len0
    BY DEF OnResumeRuns
  <2>2. (index + 1) % Len0 >= 0
    BY <1>2
  <2> QED  BY <1>2, <2>1, <2>2 DEF NoIndex
<1> DEFINE c == [Done EXCEPT !.k = "navigate"]
           f == RunAction("takeoff", c)
           g == Call(Done)
<1>5. c \in Completions /\ c.k = "navigate" /\ c.valid = Done.valid
  BY <1>2, RenamedClosure DEF Completions
<1>6. Then(<<g>>) \/ Then(<<f>>)
  BY DEF OnResumeRuns
<1>7. g \in Frames
  BY <1>2, NewCall, Zenon
<1>8. SettingsFrame(g)
  BY <1>2, <1>3, NewSettings, Zenon
<1>9. NextSettings(c)
  <2> HIDE DEF c
  <2> QED  BY <1>2, <1>3, <1>5 DEF NextSettings, OfItem, Continues
<1> HIDE DEF c
<1>10. f \in Frames /\ f.op = "action" /\ f.done = c
  BY <1>5, NewAction DEF Actions
<1> HIDE DEF f, g
<1>11. SettingsFrame(f)
  BY <1>9, <1>10 DEF SettingsFrame
<1> QED  BY <1>2, <1>3, <1>4, <1>6, <1>7, <1>8, <1>10, <1>11, SettingsReplaced

LEMMA SettingsOnFailure ==
  ASSUME CoreInv, KeepInv, SettingsInv, OnFailureRuns, Carry(todo[1])
  PROVE  SettingsInv'
<1> USE DEF missionVars, stateVars, runVars, pendingVars, worldVars, historyVars
<1>1. Action("onFailure")
  BY Zenon DEF OnFailureRuns
<1>2. /\ UNCHANGED <<active, index, stored, file, options, asked, sched, timer, later, traj>>
      /\ ~Idle /\ itemState' = "Other"
  <2>1. ~Idle /\ todo[1].op = "action"
    BY <1>1, KeepActionTop
  <2>2. itemState' = "Other"
    BY <1>1, <2>1, ActionTop
  <2>3. Unmoved /\ UNCHANGED <<stateVars, options, later, asked, stops>>
    BY Zenon DEF OnFailureRuns
  <2> QED  BY <2>1, <2>2, <2>3 DEF Unmoved
<1>3. /\ index' # NoIndex /\ (GivenUp' \/ ((asked' = "changed") <=> HasSettings'))
  BY <1>2, SettingsLeft
<1> DEFINE c == [Closure("failure") EXCEPT !.fail = "descend"]
           f == RunMode("Rtl", c)
<1>4. c \in Closures /\ ~Continues(c)
  BY NewClosures
<1>5. Then(<<f>>) \/ Then(<<Abort>>)
  BY Zenon DEF OnFailureRuns
<1> HIDE DEF c
<1>6. NextSettings(c)
  BY <1>4 DEF NextSettings
<1>7. "Rtl" \in Modes \ {"own"}
  BY DEF Modes
<1>8. f \in Frames
  BY <1>4, <1>7, NewMode, Zenon
<1>9. SettingsFrame(f)
  BY <1>4, <1>6, <1>7, NewSettings, Zenon
<1>10. Abort \in Frames
  BY SimpleFrames, Zenon
<1>11. SettingsFrame(Abort)
  BY NewSettings, Zenon
<1> HIDE DEF f
<1> QED  BY <1>2, <1>3, <1>5, <1>8, <1>9, <1>10, <1>11, SettingsReplaced

\* By the completion callbacks.
LEMMA SettingsCallRuns ==
  ASSUME CoreInv, SettingsInv, CallRuns, Carry(todo[1])
  PROVE  SettingsInv'
<1> USE DEF missionVars, stateVars, runVars, pendingVars, worldVars, historyVars
<1>1. ~Idle
  BY DEF CallRuns, Top
<1>2. /\ todo[1].op = "call" /\ active /\ Continues(Done) /\ Done \in Closures
      /\ SettingsPhase(Done) /\ index \in Int /\ index >= 0
      /\ (GivenUp \/ ((asked = "changed") <=> HasSettings))
  <2>1. todo[1].op = "call"
    BY <1>1, SettingsTop DEF CallRuns, Top
  <2> QED  BY <1>1, <2>1, SettingsTop, FrameTypes
<1>3. Done.valid /\ Done \in Completions /\ Done.k \in {"next", "resumed", "navigate"}
  BY <1>2, CompletionTypes DEF Continues
<1>4. (Done.k = "next" => Applied) /\ (Done.k # "next" => ~options /\ Quiet)
  BY <1>2, <1>3 DEF SettingsPhase, OfItem
<1>5. UNCHANGED <<active, file, level, options, itemState, sched, timer, later>>
  BY DEF CallRuns
<1>6. RunItem \in Frames
  BY SimpleFrames, Zenon
<1>7. Applied' => SettingsFrame(RunItem)
  BY NewSettings, Zenon
<1>8. CASE Done.k = "next"
  <2>1. Then(<<RunItem>>) /\ UNCHANGED <<stored, asked, traj>> /\ index' = index + 1
    BY <1>3, <1>8 DEF CallRuns
  <2>2. Applied' /\ (GivenUp' \/ ((asked' = "changed") <=> HasSettings'))
    BY <1>2, <1>4, <1>5, <1>8, <2>1 DEF Applied, GivenUp, HasSettings
  <2>3. index' # NoIndex
    BY <1>2, <2>1 DEF NoIndex
  <2> QED  BY <1>1, <1>5, <1>6, <1>7, <2>1, <2>2, <2>3, SettingsReplaced
<1>9. CASE Done.k = "resumed"
  <2>1. Resumed /\ UNCHANGED <<index, traj>>
    BY <1>3, <1>9 DEF CallRuns
  <2>2. ~options' /\ Quiet' /\ index' # NoIndex
    BY <1>2, <1>4, <1>5, <1>9, <2>1 DEF Quiet, NoIndex
  <2>3. CASE Then(<<RunStored, RunItem>>) /\ UNCHANGED <<stored, asked>>
    <3>1. GivenUp' \/ ((asked' = "changed") <=> HasSettings')
      BY <1>2, <2>3 DEF GivenUp, HasSettings
    <3> QED  BY <1>1, <1>5, <2>1, <2>2, <2>3, <3>1, SettingsReplaced
  <2>4. CASE Then(<<RunItem>>) /\ stored' = <<>> /\ asked' = "default"
    <3>1. DOMAIN stored' = {}
      <4>1. DOMAIN <<>> = {}
        OBVIOUS
      <4> QED  BY <2>4, <4>1
    <3>2. ~HasSettings' /\ Applied' /\ ((asked' = "changed") <=> HasSettings')
      BY <2>2, <2>4, <3>1 DEF HasSettings, Applied
    <3> QED  BY <1>1, <1>5, <1>6, <1>7, <2>1, <2>2, <2>4, <3>2, SettingsReplaced
  <2> QED  BY <2>1, <2>3, <2>4 DEF Resumed
<1>10. CASE Done.k = "navigate"
  <2>1. Navigates /\ UNCHANGED <<index, stored, asked>>
    BY <1>3, <1>10 DEF CallRuns
  <2>2. ~options' /\ options' = options /\ index' # NoIndex
    BY <1>2, <1>4, <1>5, <1>10, <2>1 DEF NoIndex
  <2> DEFINE c == [Done EXCEPT !.k = "resumed"]
  <2>3. c \in Completions /\ c.k = "resumed"
    BY <1>3, RenamedClosure
  <2>4. Fly(0, 0, c) \/ (Then(<<Call(c)>>) /\ UNCHANGED traj)
    BY <2>1 DEF Navigates
  <2> HIDE DEF c
  <2>5. c \in Closures /\ c.k # "segment" /\ ~OfItem(c)
    BY <2>3, CompletionTypes DEF OfItem
  <2>6. CASE Fly(0, 0, c)
    <3>1. traj' = [at |-> 0, end |-> 0, options |-> options, done |-> c]
      BY <2>6, Zenon DEF Fly
    <3>2. traj'.done = c
      BY <3>1
    <3>3. NextSettings(c)
      BY <2>2, <2>5, <3>2 DEF NextSettings, Quiet
    <3> QED  BY <1>1, <1>5, <2>1, <2>5, <2>6, <3>3, SettingsFly
  <2>7. CASE Then(<<Call(c)>>) /\ UNCHANGED traj
    <3>1. Quiet' /\ (GivenUp' \/ ((asked' = "changed") <=> HasSettings'))
      BY <1>2, <1>4, <1>5, <1>10, <2>1, <2>7 DEF Quiet, GivenUp, HasSettings
    <3>2. NextSettings(c)
      BY <2>2, <2>5, <3>1 DEF NextSettings
    <3> QED  BY <1>1, <1>5, <2>1, <2>2, <2>5, <2>7, <3>1, <3>2, SettingsCall
  <2> QED  BY <2>4, <2>6, <2>7
<1> QED  BY <1>3, <1>8, <1>9, <1>10

-----------------------------------------------------------------------------
\* The frames below the first one stay in the stack.
LEMMA StayBelow ==
  ASSUME TypeOK, ~Idle, NEW fr \in Seq(Frames), todo' = fr \o Tail(todo),
         NEW j \in DOMAIN todo, j # 1
  PROVE  \E i \in DOMAIN todo' : todo'[i] = todo[j]
<1>1. /\ todo \in Seq(Frames) /\ todo # <<>> /\ Len(todo) \in Nat /\ DOMAIN todo = 1 .. Len(todo)
      /\ Len(fr) \in Nat
  BY TopFrame
<1>2. /\ todo' \in Seq(Frames) /\ Len(todo') = Len(fr) + Len(todo) - 1
      /\ \A i \in 2 .. Len(todo) : todo'[i + Len(fr) - 1] = todo[i]
  BY <1>1, Replaced
<1>3. j \in 2 .. Len(todo) /\ j + Len(fr) - 1 \in 1 .. Len(todo')
  BY <1>1, <1>2
<1>4. DOMAIN todo' = 1 .. Len(todo')
  BY <1>2
<1> QED  BY <1>2, <1>3, <1>4

\* The stored actions that wait in the stack, when the frames of the calls
\* that the first one makes are none.
LEMMA RestoresBelow ==
  ASSUME CoreInv, ~Idle, NEW fr \in Seq(Frames), todo' = fr \o Tail(todo),
         \A j \in DOMAIN fr : fr[j].op # "restore",
         ~(todo[1].op = "restore" /\ todo[1].arg = "settings")
  PROVE  Restores' <=> Restores
<1>1. /\ \A i \in DOMAIN todo' : \/ \E j \in DOMAIN fr : todo'[i] = fr[j]
                                 \/ \E j \in DOMAIN todo : j # 1 /\ todo'[i] = todo[j]
      /\ \A j \in DOMAIN todo : j # 1 => \E i \in DOMAIN todo' : todo'[i] = todo[j]
  BY PushedFrames, StayBelow, Zenon DEF CoreInv
<1>2. ASSUME Restores' PROVE Restores
  <2>1. PICK i \in DOMAIN todo' : todo'[i].op = "restore" /\ todo'[i].arg = "settings"
    BY <1>2 DEF Restores
  <2>2. PICK j \in DOMAIN todo : todo'[i] = todo[j]
    BY <1>1, <2>1
  <2> QED  BY <2>1, <2>2 DEF Restores
<1>3. ASSUME Restores PROVE Restores'
  <2>1. PICK j \in DOMAIN todo : todo[j].op = "restore" /\ todo[j].arg = "settings"
    BY <1>3 DEF Restores
  <2>2. PICK i \in DOMAIN todo' : todo'[i] = todo[j]
    BY <1>1, <2>1
  <2> QED  BY <2>1, <2>2 DEF Restores
<1> QED  BY <1>2, <1>3

\* What waits below a first frame.
LEMMA WaitingFrames ==
  ASSUME CoreInv, SettingsInv, ~Idle, todo[1].op # "stored",
         NEW fr \in Seq(Frames), todo' = fr \o Tail(todo),
         \A j \in DOMAIN fr : fr[j].op \in {"abort", "mode", "call", "action"},
         Applied => Applied', Quiet => Quiet' \/ todo' = <<>>
  PROVE  SettingsFrames'
<1>1. /\ todo \in Seq(Frames) /\ todo # <<>> /\ Shape(todo) /\ DOMAIN todo = 1 .. Len(todo)
  BY TopFrame DEF CoreInv, StackInv
<1>2. \A i \in DOMAIN todo' : \/ \E j \in DOMAIN fr : todo'[i] = fr[j]
                              \/ \E j \in DOMAIN todo : j # 1 /\ todo'[i] = todo[j]
  BY PushedFrames, Zenon DEF CoreInv
<1>3. \A j \in DOMAIN todo : j # 1 => todo[j].op \in Parked
  BY <1>1 DEF Shape
<1>4. todo' # <<>> => 1 \in DOMAIN todo'
  <2>1. todo' \in Seq(Frames)
    BY <1>1, Replaced
  <2> QED  BY <2>1
<1>5. ~HeadIs("stored")'
  BY <1>2, <1>3, <1>4 DEF HeadIs, Parked
<1>6. \A i \in DOMAIN todo' : todo'[i].op = "item" => Applied'
  BY <1>2 DEF SettingsInv, SettingsFrames, HeadIs
<1>7. \A i \in DOMAIN todo' : todo'[i].op \in {"restore", "stored"} => Quiet'
  <2>1. SUFFICES ASSUME NEW i \in DOMAIN todo', todo'[i].op \in {"restore", "stored"}
                 PROVE  Quiet'
    OBVIOUS
  <2>2. PICK j \in DOMAIN todo : todo[j].op \in {"restore", "stored"}
    BY <1>2, <2>1
  <2>3. Quiet
    BY <2>2 DEF SettingsInv, SettingsFrames
  <2>4. todo' # <<>>
    BY <2>1
  <2> QED  BY <2>3, <2>4
<1> QED  BY <1>5, <1>6, <1>7 DEF SettingsFrames

\* The rest of runTrajectory() is the last frame.
LEMMA FlyingAlone ==
  ASSUME CoreInv, ~Idle, todo[1].op = "flying", NEW fr \in Seq(Frames), todo' = fr \o Tail(todo)
  PROVE  Flies(todo) /\ todo' = fr
<1>1. todo \in Seq(Frames) /\ todo # <<>> /\ Shape(todo)
  BY TopFrame DEF CoreInv, StackInv
<1> QED  BY <1>1, CarrierAlone DEF Flies

\* A step of a frame without the token that leaves the settings as they are.
LEMMA SettingsQuiet ==
  ASSUME CoreInv, SettingsInv, ~Idle, active, ~Carry(todo[1]),
         todo[1].op \notin {"stored", "restore"},
         NEW fr, QuietFrames(fr), todo' = fr \o Tail(todo),
         \A j \in DOMAIN fr : fr[j].op \in {"abort", "mode", "call", "action"},
         todo[1].op = "flying" => fr = <<>>,
         UNCHANGED <<active, index, stored, options, asked, file, traj, later>>,
         SchedC' => SchedC /\ sched' = sched, TimerC' => TimerC /\ timer' = timer,
         itemState' = (IF todo[1].op = "flying" THEN "Trajectory" ELSE itemState)
           \/ itemState' = "Other"
  PROVE  SettingsInv'
<1>1. fr \in Seq(Frames) /\ Shape(fr) /\ ~Carries(fr) /\ ~Flies(fr)
  BY DEF QuietFrames
<1>2. todo \in Seq(Frames) /\ todo # <<>> /\ Shape(todo)
  BY TopFrame DEF CoreInv, StackInv
<1>3. /\ GivenUp' <=> GivenUp
      /\ HasSettings' <=> HasSettings
      /\ Applied' <=> Applied
  BY DEF GivenUp, HasSettings, Applied
<1>4. Restores' <=> Restores
  BY <1>1, RestoresBelow
<1>5. SettingsAsked' /\ SettingsSaved'
  BY <1>3, <1>4 DEF SettingsInv, SettingsAsked, SettingsSaved
<1>6. todo[1].op = "flying" => Flies(todo) /\ todo' = <<>>
  BY <1>1, FlyingAlone
<1>7. Quiet => Quiet' \/ todo[1].op = "flying"
  BY DEF Quiet
<1>8. SettingsFrames'
  BY <1>1, <1>3, <1>6, <1>7, WaitingFrames
<1>9. SettingsPhases'
  <2>1. \A i \in DOMAIN todo' : \/ \E j \in DOMAIN fr : todo'[i] = fr[j]
                                \/ \E j \in DOMAIN todo : j # 1 /\ todo'[i] = todo[j]
    BY <1>1, PushedFrames, Zenon DEF CoreInv
  <2>2. \A j \in DOMAIN fr : NextSettings(fr[j].done)
    BY <1>1 DEF Carries, Carry, NextSettings
  <2>3. CASE Quiet => Quiet'
    <3>1. \A c : SettingsPhase(c) => NextSettings(c)
      BY <1>3, <2>3 DEF SettingsPhase, NextSettings
    <3>2. \A j \in DOMAIN todo : NextSettings(todo[j].done)
      BY <3>1 DEF SettingsInv, SettingsPhases
    <3>3. NextSettings(sched'.done) /\ NextSettings(timer')
      <4>1. NextSettings(sched.done) /\ NextSettings(timer)
        BY <3>1 DEF SettingsInv, SettingsPhases
      <4> QED  BY <4>1 DEF SchedC, TimerC, NextSettings
    <3>4. NextSettings(later') /\ (traj'.at # NoIndex => NextSettings(traj'.done))
      BY <3>1 DEF SettingsInv, SettingsPhases
    <3> QED  BY <2>1, <2>2, <3>2, <3>3, <3>4, SettingsPhasesNow
  <2>4. CASE todo[1].op = "flying"
    <3>1. ~SchedC /\ ~TimerC /\ ~LaterC /\ DOMAIN todo' = {}
      <4>1. DOMAIN <<>> = {}
        OBVIOUS
      <4> QED  BY <1>6, <2>4, <4>1 DEF SettingsInv, SettingsFlown
    <3>2. NextSettings(sched'.done) /\ NextSettings(timer') /\ NextSettings(later')
      BY <3>1 DEF SchedC, TimerC, LaterC, NextSettings
    <3>3. traj'.at # NoIndex => NextSettings(traj'.done)
      <4>1. traj.at # NoIndex => SettingsPhase(traj.done)
        BY DEF SettingsInv, SettingsPhases
      <4>2. CASE OfItem(traj.done)
        BY <1>3, <4>1, <4>2 DEF SettingsPhase, NextSettings
      <4>3. CASE ~OfItem(traj.done)
        <5>1. Quiet'
          BY <4>3 DEF Quiet, OfItem
        <5> QED  BY <1>3, <4>1, <4>3, <5>1 DEF SettingsPhase, NextSettings
      <4> QED  BY <4>2, <4>3
    <3> QED  BY <3>1, <3>2, <3>3, SettingsPhasesNow
  <2> QED  BY <1>7, <2>3, <2>4
<1>10. SettingsFlown'
  <2>1. Flies(todo') => Flies(todo)
    BY <1>1, <1>2, Pushed
  <2>2. itemState' = "Trajectory" => itemState = "Trajectory" \/ Flies(todo)
    BY <1>6
  <2>3. Flies(todo') => ~SchedC' /\ ~TimerC' /\ ~LaterC'
    BY <2>1 DEF SettingsInv, SettingsFlown, LaterC
  <2> QED  BY <1>3, <2>1, <2>2, <2>3 DEF SettingsInv, SettingsFlown
<1> QED  BY <1>5, <1>8, <1>9, <1>10 DEF SettingsInv

\* By every step without the token that neither aborts nor restores.
LEMMA SettingsQuietStep ==
  ASSUME CoreInv, SettingsInv, ~Idle, active, ~Carry(todo[1]), QuietResult,
         todo[1].op \notin {"abort", "aborted", "stored", "restore"}
  PROVE  SettingsInv'
<1>1. PICK fr : Pushes(fr)
  BY DEF QuietResult
<1>2. QuietFrames(fr) /\ todo' = fr \o Tail(todo)
  BY <1>1 DEF Pushes
<1>3. \A j \in DOMAIN fr : fr[j].op \in {"abort", "mode", "call", "action"}
  <2>1. DOMAIN <<>> = {} /\ \A f : DOMAIN <<f>> = {1} /\ <<f>>[1] = f
    OBVIOUS
  <2>2. Call(Nothing).op = "call" /\ Abort.op = "abort"
    BY SimpleFrames, NewCall, CompletionTypes
  <2> QED  BY <1>1, <2>1, <2>2 DEF Pushes
<1>4. todo[1].op = "flying" => fr = <<>>
  BY <1>1 DEF Pushes
<1>5. /\ UNCHANGED <<active, index, stored, options, asked, file, traj, later>>
      /\ SchedC' => SchedC /\ sched' = sched
      /\ TimerC' => TimerC /\ timer' = timer
      /\ itemState' = (IF todo[1].op = "flying" THEN "Trajectory" ELSE itemState)
           \/ itemState' = "Other"
  BY DEF QuietResult
<1> QED  BY <1>2, <1>3, <1>4, <1>5, SettingsQuiet

\* By the end of abort().
LEMMA SettingsAbortReturns ==
  ASSUME CoreInv, SettingsInv, AbortReturns
  PROVE  SettingsInv'
<1> USE DEF missionVars, stateVars, runVars, pendingVars, worldVars, historyVars
<1>1. ~Idle /\ active /\ todo[1].op = "aborted" /\ todo[1] \in Frames
  BY TopFrame DEF CoreInv, AbortReturns, Top
<1>2. ~Carry(todo[1])
  BY <1>1, FrameTypes, CompletionTypes DEF Carry
<1>3. /\ UNCHANGED <<active, index, stored, options, asked, file, traj, later, sched, timer,
                     itemState>>
      /\ todo' = <<>> \o Tail(todo)
  BY DEF AbortReturns, Then
<1>4. (SchedC' <=> SchedC) /\ (TimerC' <=> TimerC)
  BY <1>3 DEF SchedC, TimerC
<1> DEFINE fr == <<>>
<1>5. QuietFrames(fr) /\ todo' = fr \o Tail(todo) /\ DOMAIN fr = {} /\ fr = <<>>
  <2>1. DOMAIN <<>> = {}
    OBVIOUS
  <2> QED  BY <1>3, <2>1, QuietStacks
<1> HIDE DEF fr
<1> QED  BY <1>1, <1>2, <1>3, <1>4, <1>5, SettingsQuiet

-----------------------------------------------------------------------------
\* While an action is restored, its item waits below it.
LEMMA SettingsRestore ==
  ASSUME CoreInv, KeepInv, SettingsInv, Step, todo[1].op = "restore", CoreInv'
  PROVE  SettingsInv'
<1> USE DEF missionVars, stateVars, runVars, pendingVars, worldVars, historyVars
<1>1. /\ ~Idle /\ active /\ todo[1] \in Frames /\ 1 \in DOMAIN todo /\ todo # <<>>
      /\ todo \in Seq(Frames) /\ Len(todo) \in Nat /\ Len(todo) \in DOMAIN todo
      /\ DOMAIN todo = 1 .. Len(todo)
  <2>1. ~Idle /\ active /\ todo[1] \in Frames /\ 1 \in DOMAIN todo
    BY StepRuns
  <2> QED  BY <2>1, TopFrame DEF CoreInv
<1>2. ~Carry(todo[1])
  BY <1>1, FrameTypes, CompletionTypes DEF Carry
<1>3. QuietResult
  BY <1>2, QuietSteps
<1>4. PICK fr : Pushes(fr)
  BY <1>3 DEF QuietResult
<1>5. UNCHANGED <<active, index, file, traj, itemState>>
  BY <1>1, <1>3 DEF QuietResult
<1>6. Kept /\ todo[Len(todo)].op = "item" /\ Applied /\ Quiet
  <2>1. Kept /\ todo[Len(todo)].op = "item"
    BY <1>1 DEF KeepInv, FramesKept
  <2>2. ~HeadIs("stored") /\ Len(todo) \in DOMAIN todo
    BY <1>1 DEF HeadIs
  <2> QED  BY <1>1, <2>1, <2>2 DEF SettingsInv, SettingsFrames
<1>7. /\ fr \in Seq(Frames) /\ todo' = fr \o Tail(todo) /\ Len(fr) = 1
      /\ \A j \in DOMAIN fr : fr[j].op \in {"abort", "call"}
  <2>1. \A f : DOMAIN <<f>> = {1} /\ <<f>>[1] = f /\ Len(<<f>>) = 1
    OBVIOUS
  <2>2. Call(Nothing).op = "call" /\ Abort.op = "abort"
    BY DEF Call, Abort, Frame
  <2>3. fr = <<Call(Nothing)>> \/ fr = <<Abort>>
    BY <1>1, <1>4 DEF Pushes
  <2> QED  BY <1>4, <2>1, <2>2, <2>3 DEF Pushes, QuietFrames
<1>8. /\ Applied'
      /\ GivenUp' \/ ((asked' = "changed") <=> (HasSettings' \/ Restores'))
  <2>1. ChangeSettingsRuns \/ CameraRuns
    BY RestoreRuns
  <2>2. CASE ChangeSettingsRuns
    <3>1. ~Action("reset")
      BY ActionTop DEF Restorable
    <3>2. StoreState("settings") /\ options' = TRUE /\ asked' = "changed"
      BY <2>2, <3>1 DEF ChangeSettingsRuns
    <3>3. HasSettings'
      BY <3>2, SettingsStored
    <3> QED  BY <3>2, <3>3 DEF Applied
  <2>3. CASE CameraRuns
    <3>1. UNCHANGED <<options, asked>> /\ Action("camera")
      BY <2>3 DEF CameraRuns
    <3>2. ~(todo[1].op = "restore" /\ todo[1].arg = "settings")
      <4>1. Head(todo) = todo[1]
        BY <1>1
      <4> QED  BY <3>1, <4>1 DEF Action, Arg
    <3>3. Restores' <=> Restores
      BY <1>1, <1>7, <3>2, RestoresBelow
    <3>4. HasSettings' <=> HasSettings
      <4>1. CASE StoreState("camera")
        BY <1>1, <1>6, <4>1, SettingsStored
      <4>2. CASE stored' = stored
        BY <4>2 DEF HasSettings
      <4> QED  BY <2>3, <4>1, <4>2 DEF CameraRuns
    <3>5. GivenUp' <=> GivenUp
      BY <3>1 DEF GivenUp
    <3> QED  BY <1>6, <3>1, <3>3, <3>4, <3>5 DEF Applied, SettingsInv, SettingsAsked
  <2> QED  BY <2>1, <2>2, <2>3
<1>9. index # NoIndex
  <2>1. Carries(todo)
    BY <1>1, <1>6 DEF Carries, Carry
  <2> QED  BY <2>1 DEF CoreInv, TokenInv, Token, NoIndex
<1>10. SettingsAsked' /\ SettingsSaved'
  <2>1. SettingsAsked'
    BY <1>5, <1>8, <1>9 DEF SettingsAsked
  <2> QED  BY <1>5, <2>1 DEF SettingsInv, SettingsSaved
<1>11. Quiet'
  BY <1>5, <1>6 DEF Quiet
<1>12. SettingsFrames'
  BY <1>1, <1>7, <1>8, <1>11, WaitingFrames
<1>13. todo' # <<>> /\ todo'[Len(todo')].op = "item"
  <2>1. /\ todo' \in Seq(Frames) /\ Len(todo') = Len(fr) + Len(todo) - 1
        /\ \A i \in 2 .. Len(todo) : todo'[i + Len(fr) - 1] = todo[i]
    BY <1>1, <1>7, Replaced
  <2>2. Len(todo) > 1
    BY <1>1, <1>6
  <2>3. Len(todo') = Len(todo) /\ Len(todo) \in 2 .. Len(todo) /\ Len(todo) + Len(fr) - 1 = Len(todo)
    BY <1>1, <1>7, <2>1, <2>2
  <2> QED  BY <1>1, <1>6, <2>1, <2>2, <2>3
<1>14. SettingsPhases'
  <2>1. (CoreInv /\ todo # <<>> /\ todo[Len(todo)].op = "item" => Phases /\ SettingsPhases)'
    BY ItemPhases, PTL
  <2> QED  BY <1>13, <2>1
<1>15. SettingsFlown'
  <2>1. ~Flies(todo')
    BY <1>13 DEF Flies
  <2> QED  BY <1>11, <2>1 DEF SettingsFlown, Quiet
<1> QED  BY <1>10, <1>12, <1>14, <1>15 DEF SettingsInv

\* runStoredActions(): the settings that are stored are to be restored.
LEMMA SettingsStoredRun ==
  ASSUME CoreInv, KeepInv, SettingsInv, StoredRun, CoreInv'
  PROVE  SettingsInv'
<1> USE DEF missionVars, stateVars, runVars, pendingVars, worldVars, historyVars
<1>1. /\ ~Idle /\ todo # <<>> /\ todo[1].op = "stored" /\ todo \in Seq(Frames) /\ 1 \in DOMAIN todo
  BY TopFrame DEF StoredRun, Top, CoreInv
<1>2. /\ Len(todo) = 2 /\ todo[2].op = "item" /\ DOMAIN todo = {1, 2}
      /\ ~options /\ Quiet
  <2>1. Len(todo) = 2 /\ todo[2].op = "item"
    BY <1>1 DEF KeepInv, FramesKept, HeadIs
  <2>2. ~options /\ Quiet
    BY <1>1 DEF SettingsInv, SettingsFrames, HeadIs
  <2>3. DOMAIN todo = {1, 2}
    BY <1>1, <2>1
  <2> QED  BY <2>1, <2>2, <2>3
<1>3. /\ DOMAIN stored' = {} /\ UNCHANGED <<active, index, options, asked, itemState, traj, file>>
  <2>1. DOMAIN <<>> = {}
    OBVIOUS
  <2> QED  BY <2>1 DEF StoredRun
<1> DEFINE names == InOrder(Without(stored, {i \in DOMAIN stored : stored[i] = "onResume"}))
           fr    == [i \in DOMAIN names |-> Frame("restore", names[i], Nothing)]
<1>4. /\ fr \in Seq(Frames) /\ DOMAIN fr = DOMAIN names
      /\ \A i \in DOMAIN fr : fr[i].op = "restore" /\ fr[i].arg = names[i]
      /\ \A i \in DOMAIN stored :
           stored[i] # "onResume" => \E n \in DOMAIN names : names[n] = stored[i]
      /\ \A n \in DOMAIN names : \E i \in DOMAIN stored : names[n] = stored[i]
  <2>1. StoredTypes(stored)
    BY DEF CoreInv, TypeOK, StoredTypes
  <2> QED  BY <2>1, RestoreFrames DEF QuietFrames
<1>5. todo' = fr \o Tail(todo)
  BY DEF StoredRun, Then
<1> HIDE DEF fr, names
<1>6. /\ \A i \in DOMAIN todo' : \/ \E j \in DOMAIN fr : todo'[i] = fr[j]
                                 \/ todo'[i] = todo[2]
      /\ \A j \in DOMAIN fr : j \in DOMAIN todo' /\ todo'[j] = fr[j]
      /\ todo' # <<>> /\ 1 \in DOMAIN todo' /\ todo'[Len(todo')] = todo[2]
  <2>1. /\ todo' \in Seq(Frames) /\ Len(todo') = Len(fr) + Len(todo) - 1
        /\ \A i \in 1 .. Len(fr) : todo'[i] = fr[i]
        /\ \A i \in 2 .. Len(todo) : todo'[i + Len(fr) - 1] = todo[i]
    BY <1>1, <1>4, <1>5, Replaced
  <2>2. Len(fr) \in Nat /\ Len(todo') = Len(fr) + 1 /\ DOMAIN fr = 1 .. Len(fr)
        /\ DOMAIN todo' = 1 .. Len(todo') /\ 2 \in 2 .. Len(todo)
    BY <1>2, <1>4, <2>1
  <2>3. todo'[2 + Len(fr) - 1] = todo[2] /\ 2 + Len(fr) - 1 = Len(todo')
    BY <2>1, <2>2
  <2>4. todo' # <<>> /\ 1 \in DOMAIN todo'
    BY <2>1, <2>2
  <2> QED  BY <2>1, <2>2, <2>3, <2>4
<1>7. Restores' <=> HasSettings
  <2>1. ASSUME HasSettings PROVE Restores'
    <3>1. PICK i \in DOMAIN stored : stored[i] = "settings"
      BY <2>1 DEF HasSettings
    <3>2. PICK n \in DOMAIN names : names[n] = "settings"
      BY <1>4, <3>1
    <3> QED  BY <1>4, <1>6, <3>2 DEF Restores
  <2>2. ASSUME Restores' PROVE HasSettings
    <3>1. PICK i \in DOMAIN todo' : todo'[i].op = "restore" /\ todo'[i].arg = "settings"
      BY <2>2 DEF Restores
    <3>2. PICK n \in DOMAIN fr : todo'[i] = fr[n]
      BY <1>2, <1>6, <3>1
    <3> QED  BY <1>4, <3>1, <3>2 DEF HasSettings
  <2> QED  BY <2>1, <2>2
<1>8. ~HasSettings' /\ Applied' /\ Quiet'
  BY <1>2, <1>3 DEF HasSettings, Applied, Quiet
<1>9. ~Restores
  BY <1>1, <1>2 DEF Restores
<1>10. SettingsAsked' /\ SettingsSaved'
  <2>1. GivenUp' \/ ((asked' = "changed") <=> Restores')
    BY <1>3, <1>7, <1>9 DEF SettingsInv, SettingsAsked, GivenUp
  <2> QED  BY <1>3, <1>8, <2>1 DEF SettingsInv, SettingsAsked, SettingsSaved
<1>11. SettingsFrames'
  <2>1. ~HeadIs("stored")'
    BY <1>2, <1>4, <1>6 DEF HeadIs
  <2> QED  BY <1>8, <2>1 DEF SettingsFrames
<1>12. SettingsPhases'
  <2>1. (CoreInv /\ todo # <<>> /\ todo[Len(todo)].op = "item" => Phases /\ SettingsPhases)'
    BY ItemPhases, PTL
  <2> QED  BY <1>2, <1>6, <2>1
<1>13. SettingsFlown'
  <2>1. ~Flies(todo')
    BY <1>2, <1>6 DEF Flies
  <2> QED  BY <1>8, <2>1 DEF SettingsFlown, Quiet
<1> QED  BY <1>10, <1>11, <1>12, <1>13 DEF SettingsInv

\* By abort(), which may give the settings up.
LEMMA SettingsAborts ==
  ASSUME CoreInv, KeepInv, SettingsInv, Aborts, CoreInv'
  PROVE  SettingsInv'
<1> USE DEF missionVars, stateVars, runVars, pendingVars, worldVars, historyVars
<1>1. /\ ~Idle /\ active /\ todo[1].op = "abort" /\ todo # <<>> /\ todo \in Seq(Frames)
      /\ ~Continues(traj'.done) /\ ~Continues(sched'.done) /\ ~Continues(later')
      /\ ~Continues(timer')
      /\ \A i \in DOMAIN todo' :
           /\ ~Continues(todo'[i].done)
           /\ \/ todo'[i].op \in {"action", "aborted"}
              \/ \E n \in DOMAIN todo : n # 1 /\ todo'[i].op = todo[n].op
  BY AbortResult, TopFrame DEF CoreInv
<1>2. /\ UNCHANGED <<index, itemState, file>> /\ asked' = "given up" /\ traj' = WithInvalid(traj)
  <2>1. UNCHANGED <<missionVars, index, nextId, active, itemState, activeMode, options, worldVars,
                    file, stops>>
    BY Zenon DEF Aborts
  <2>2. asked' = "given up" /\ InvalidateRest
    BY Zenon DEF Aborts
  <2> QED  BY <2>1, <2>2 DEF InvalidateRest
<1>3. GivenUp' /\ Applied'
  BY <1>2 DEF GivenUp, Applied
<1>4. traj'.done.k = traj.done.k
  <2>1. traj \in [at : Int, end : Int, options : BOOLEAN, done : Completions \cup Segments]
    BY DEF CoreInv, TypeOK
  <2>2. traj'.done = Invalid(traj.done)
    BY <1>2, <2>1 DEF WithInvalid
  <2>3. traj.done = Nothing \/ Invalid(traj.done).k = traj.done.k
    BY <2>1 DEF Invalid, Completions, Segments
  <2> QED  BY <2>2, <2>3 DEF Invalid
<1>5. HasSettings' => HasSettings
  BY AbortStates DEF HasSettings, Without
<1>6. SettingsAsked' /\ SettingsSaved'
  BY <1>2, <1>3, <1>5 DEF SettingsInv, SettingsAsked, SettingsSaved
<1>7. SettingsPhases'
  BY <1>1 DEF SettingsPhases, SettingsPhase
<1>8. SettingsFrames'
  <2>1. todo' # <<>> => 1 \in DOMAIN todo'
    BY DEF CoreInv, TypeOK
  <2>2. \A n \in DOMAIN todo : n # 1 => todo[n].op \in Parked
    BY <1>1 DEF CoreInv, StackInv, Shape
  <2>3. ~HeadIs("stored")'
    BY <1>1, <2>1, <2>2 DEF HeadIs, Parked
  <2>4. \A i \in DOMAIN todo' : todo'[i].op \in {"restore", "stored"} => Quiet
    BY <1>1 DEF SettingsInv, SettingsFrames
  <2>5. Quiet => Quiet'
    BY <1>2, <1>4 DEF Quiet
  <2> QED  BY <1>3, <2>3, <2>4, <2>5 DEF SettingsFrames
<1>9. SettingsFlown'
  BY <1>1, <1>3 DEF SettingsFlown, SchedC, TimerC, LaterC
<1> QED  BY <1>6, <1>7, <1>8, <1>9 DEF SettingsInv

\* By every step of a callback.
LEMMA SettingsStep ==
  ASSUME CoreInv, KeepInv, SettingsInv, Step, CoreInv'
  PROVE  SettingsInv'
<1>1. /\ ~Idle /\ active /\ todo[1] \in Frames /\ 1 \in DOMAIN todo
      /\ todo[1].op = "abort" => Aborts
      /\ todo[1].op = "aborted" => AbortReturns
  BY StepRuns
<1>2. CASE Carry(todo[1])
  <2>1. \/ Begin \/ ItemRuns \/ ModeRuns \/ ModeActionRuns \/ HoldRuns \/ HoldStarts
        \/ ChangeSettingsRuns \/ CameraRuns \/ OnFailureRuns \/ CallRuns
        \/ \E outcome \in CustomOutcomes : CustomRuns(outcome)
        \/ \E known \in LandedKnown : OnResumeRuns(known)
    BY <1>2, TokenRuns
  <2> QED  BY <1>2, <2>1, SettingsBegin, SettingsItemRuns, SettingsModeRuns, SettingsModeActionRuns,
              SettingsHoldRuns, SettingsHoldStarts, SettingsChange, SettingsCamera,
              SettingsOnFailure, SettingsCallRuns, SettingsCustom, SettingsOnResume
<1>3. CASE ~Carry(todo[1]) /\ todo[1].op \notin {"abort", "aborted", "stored", "restore"}
  BY <1>1, <1>3, QuietSteps, SettingsQuietStep
<1>4. CASE todo[1].op = "restore"
  BY <1>4, SettingsRestore
<1>5. CASE todo[1].op = "stored"
  BY <1>5, StoredRuns, SettingsStoredRun
<1>6. CASE todo[1].op = "abort"
  BY <1>1, <1>6, SettingsAborts
<1>7. CASE todo[1].op = "aborted"
  BY <1>1, <1>7, SettingsAbortReturns
<1> QED  BY <1>2, <1>3, <1>4, <1>5, <1>6, <1>7

-----------------------------------------------------------------------------
\* By what the mission waits for.
LEMMA SettingsWaypointReached ==
  ASSUME CoreInv, SettingsInv, WaypointReached
  PROVE  SettingsInv'
<1> USE DEF missionVars, stateVars, runVars, pendingVars, worldVars, historyVars
<1>1. /\ UNCHANGED <<active, stored, options, asked, itemState, file, sched, timer, later>>
      /\ traj.at # NoIndex /\ traj'.done = traj.done /\ traj'.options = traj.options
      /\ traj.done \in Completions \cup Segments /\ Idle
      /\ index' = index \/ index' # NoIndex
  <2>1. traj.at >= 0 /\ traj.at \in Int
    BY Reached
  <2>2. index' = index \/ index' # NoIndex
    BY <2>1, Reached DEF NoIndex
  <2> QED  BY <2>2, Reached
<1>2. \A c : SettingsPhase(c) => NextSettings(c)
  BY <1>1, SameSettings
<1>3. SettingsPhase(traj.done)
  BY <1>1 DEF SettingsInv, SettingsPhases
<1>4. CASE LastReached /\ ~OnSegment
  <2>1. traj.done \in Closures /\ todo' = <<Call(traj.done)>>
    BY <1>1, <1>4, CompletionTypes, Reached DEF OnSegment
  <2>2. SettingsFrame(Call(traj.done))
    <3>1. NextSettings(traj.done)
      BY <1>2, <1>3
    <3> QED  BY <2>1, <3>1, NewSettings, Zenon
  <2> QED  BY <1>1, <2>1, <2>2, SettingsComes
<1>5. CASE LastReached /\ OnSegment /\ traj.done.valid
  <2>1. todo' = <<RunItem>>
    BY <1>5, Reached
  <2>2. Applied
    BY <1>3, <1>5 DEF OnSegment, SettingsPhase, OfItem, Continues
  <2>3. SettingsFrame(RunItem)
    <3>1. Applied'
      BY <1>1, <2>2 DEF Applied, GivenUp, HasSettings
    <3> QED  BY <3>1, NewSettings, Zenon
  <2> QED  BY <1>1, <2>1, <2>3, SettingsComes
<1>6. CASE ~LastReached \/ (OnSegment /\ ~traj.done.valid)
  <2>1. todo' = <<>>
    BY <1>6, Reached
  <2> QED  BY <1>1, <2>1, SettingsComes
<1> QED  BY <1>4, <1>5, <1>6

LEMMA SettingsModeCompletes ==
  ASSUME CoreInv, SettingsInv, NEW ok \in BOOLEAN, ModeCompletes(ok)
  PROVE  SettingsInv'
<1> USE DEF missionVars, stateVars, runVars, pendingVars, worldVars, historyVars
<1>1. /\ UNCHANGED <<active, index, stored, options, asked, itemState, file, timer, later, traj>>
      /\ sched' = NoSched /\ Idle
      /\ todo' = <<Call(sched.done)>> \/ todo' = ModeFailed(sched.done)
  BY DEF ModeCompletes
<1>2. sched.done \in Closures
  BY DEF CoreInv, TypeOK
<1>3. NextSettings(sched'.done)
  BY <1>1, NewSettings, Zenon
<1>4. NextSettings(sched.done)
  BY <1>1, SameSettings DEF SettingsInv, SettingsPhases
<1>5. CASE todo' = <<Call(sched.done)>>
  <2>1. SettingsFrame(Call(sched.done))
    BY <1>2, <1>4, NewSettings, Zenon
  <2> QED  BY <1>1, <1>3, <1>5, <2>1, SettingsComes
<1>6. CASE todo' = ModeFailed(sched.done)
  <2> DEFINE d == [sched.done EXCEPT !.fail = "ignore"]
             f == RunMode("Descend", d)
  <2>1. \/ todo' = <<Abort>> \/ todo' = <<>>
        \/ sched.done.fail = "descend" /\ todo' = <<f>>
    BY <1>6 DEF ModeFailed
  <2>2. SettingsFrame(Abort)
    BY NewSettings, Zenon
  <2>3. ASSUME sched.done.fail = "descend" PROVE SettingsFrame(f)
    <3>1. sched.done.k = "failure"
      BY <1>2, <2>3, CompletionTypes
    <3>2. d \in Closures /\ ~Continues(d)
      BY <1>2, <3>1, IgnoringClosure
    <3> HIDE DEF d
    <3>3. NextSettings(d) /\ "Descend" \in Modes \ {"own"}
      BY <3>2 DEF NextSettings, Modes
    <3> QED  BY <3>2, <3>3, NewSettings, Zenon
  <2> HIDE DEF f
  <2> QED  BY <1>1, <1>3, <2>1, <2>2, <2>3, SettingsComes
<1> QED  BY <1>1, <1>5, <1>6

LEMMA SettingsAnswers ==
  ASSUME CoreInv, SettingsInv,
         \/ TimerExpires \/ LaterCompletes \/ StatusUpdate \/ LandedChanges
         \/ UserAbort \/ PositionInvalid
  PROVE  SettingsInv'
<1> USE DEF missionVars, stateVars, runVars, pendingVars, worldVars, historyVars
<1>1. UNCHANGED <<active, index, stored, options, asked, itemState, file, sched, traj>> /\ Idle
  BY DEF TimerExpires, LaterCompletes, StatusUpdate, LandedChanges, UserAbort, PositionInvalid
<1>2. timer \in Closures /\ later \in Closures
  BY CompletionTypes DEF CoreInv, TypeOK
<1>3. NextSettings(timer) /\ NextSettings(later) /\ NextSettings(Nothing)
  <2>1. NextSettings(Nothing)
    BY NewSettings, Zenon
  <2> QED  BY <1>1, <2>1, SameSettings DEF SettingsInv, SettingsPhases
<1>4. SettingsFrame(Abort)
  BY NewSettings, Zenon
<1>5. SettingsFrame(Call(timer))
  BY <1>2, <1>3, NewSettings, Zenon
<1>6. SettingsFrame(Call(later))
  BY <1>2, <1>3, NewSettings, Zenon
<1>7. /\ todo' \in {<<>>, <<Abort>>, <<Call(timer)>>, <<Call(later)>>}
      /\ timer' \in {timer, Nothing} /\ later' \in {later, Nothing}
  BY DEF TimerExpires, LaterCompletes, StatusUpdate, LandedChanges, UserAbort, PositionInvalid,
         Idle
<1>8. todo' = <<>> \/ \E f : SettingsFrame(f) /\ todo' = <<f>>
  BY <1>4, <1>5, <1>6, <1>7
<1> QED  BY <1>1, <1>3, <1>7, <1>8, SettingsComes

\* A mission that is no longer active has no token.
LEMMA SettingsInactive ==
  ASSUME CoreInv', active' = FALSE, SettingsAsked', SettingsSaved'
  PROVE  SettingsInv'
<1>1. todo' = <<>> /\ DOMAIN todo' = {} /\ ~Token'
  <2>1. DOMAIN <<>> = {}
    OBVIOUS
  <2> QED  BY <2>1 DEF CoreInv, TypeOK, TokenInv, Idle
<1>2. SettingsPhases'
  BY <1>1 DEF SettingsPhases, SettingsPhase, Token, Waits, SchedC, TimerC, LaterC, TrajC
<1>3. SettingsFrames' /\ SettingsFlown'
  BY <1>1 DEF SettingsFrames, SettingsFlown, HeadIs, Flies
<1> QED  BY <1>2, <1>3 DEF SettingsInv

\* A mission without stored states has not changed the settings.
LEMMA NoSettings ==
  ASSUME stored' = <<>>, todo' = <<>>, asked' = "default"
  PROVE  SettingsAsked'
<1>1. DOMAIN <<>> = {}
  OBVIOUS
<1> QED  BY <1>1 DEF SettingsAsked, HasSettings, Restores

\* What the files without a mission say.
LEMMA SavedNothing ==
  ASSUME SettingsSaved, file' \in {file, NoFile, Garbage}
  PROVE  SettingsSaved'
<1>1. /\ DOMAIN <<>> = {} /\ NoFile.actions = <<>> /\ Garbage.actions = <<>>
      /\ NoFile.asked = "default" /\ Garbage.asked = "default"
  BY DEF NoFile, Garbage
<1> QED  BY <1>1 DEF SettingsSaved

\* By what interferes with the mission.
LEMMA SettingsSetMission ==
  ASSUME CoreInv, SettingsInv, NEW m \in Missions, SetMission(m), CoreInv'
  PROVE  SettingsInv'
<1> USE DEF missionVars, stateVars, runVars, pendingVars, worldVars, historyVars
<1>1. active' = FALSE /\ file' = file /\ todo' = <<>>
  <2>1. active \in BOOLEAN
    BY DEF CoreInv, TypeOK
  <2> QED  BY <2>1 DEF SetMission, Idle
<1> DEFINE st == [i \in 0 .. Len(file.actions) - 1 |-> file.actions[i + 1]]
<1>2. SettingsAsked'
  <2>1. CASE /\ file.index \in 0 .. Len(m) - 1 /\ index' = file.index
             /\ stored' = st /\ asked' = file.asked
    <3>1. /\ file.actions \in Seq(Continuous) /\ Len(file.actions) \in Nat
          /\ DOMAIN file.actions = 1 .. Len(file.actions)
      BY DEF CoreInv, TypeOK, Files
    <3>2. HasSettings' <=> \E i \in DOMAIN file.actions : file.actions[i] = "settings"
      <4>1. ASSUME HasSettings'
            PROVE  \E i \in DOMAIN file.actions : file.actions[i] = "settings"
        <5>1. PICK i \in 0 .. Len(file.actions) - 1 : file.actions[i + 1] = "settings"
          BY <2>1, <4>1 DEF HasSettings
        <5>2. i + 1 \in DOMAIN file.actions
          BY <3>1, <5>1
        <5> QED  BY <5>1, <5>2
      <4>2. ASSUME NEW i \in DOMAIN file.actions, file.actions[i] = "settings"
            PROVE  HasSettings'
        <5>1. i - 1 \in 0 .. Len(file.actions) - 1 /\ (i - 1) + 1 = i
          BY <3>1
        <5>2. i - 1 \in DOMAIN stored' /\ stored'[i - 1] = "settings"
          BY <2>1, <4>2, <5>1
        <5> QED  BY <5>2 DEF HasSettings
      <4> QED  BY <4>1, <4>2
    <3>3. ~Restores' /\ index' # NoIndex
      <4>1. DOMAIN <<>> = {}
        OBVIOUS
      <4> QED  BY <1>1, <2>1, <4>1 DEF Restores, NoIndex
    <3> QED  BY <2>1, <3>2, <3>3 DEF SettingsInv, SettingsSaved, SettingsAsked, GivenUp
  <2>2. CASE stored' = <<>> /\ asked' = "default"
    BY <1>1, <2>2, NoSettings
  <2> QED  BY <2>1, <2>2 DEF SetMission
<1>3. SettingsSaved'
  BY <1>1, SavedNothing DEF SettingsInv
<1> QED  BY <1>1, <1>2, <1>3, SettingsInactive

LEMMA SettingsResetMission ==
  ASSUME CoreInv, SettingsInv, ResetMission, CoreInv'
  PROVE  SettingsInv'
<1> USE DEF missionVars, stateVars, runVars, pendingVars, worldVars, historyVars
<1>1. active' = FALSE /\ file' = file /\ todo' = <<>> /\ stored' = <<>> /\ asked' = "default"
  <2>1. active \in BOOLEAN
    BY DEF CoreInv, TypeOK
  <2> QED  BY <2>1 DEF ResetMission, Idle
<1>2. SettingsAsked' /\ SettingsSaved'
  BY <1>1, NoSettings, SavedNothing DEF SettingsInv
<1> QED  BY <1>1, <1>2, SettingsInactive

LEMMA SettingsDeactivate ==
  ASSUME CoreInv, SettingsInv, OnResume # "storing",
         NEW mode \in {"own", "Loiter"}, NEW known \in LandedKnown,
         NEW result \in SaveResults, Deactivate(mode, known, result), CoreInv'
  PROVE  SettingsInv'
<1> USE DEF missionVars, stateVars, runVars, pendingVars, worldVars, historyVars
<1>1. active' = FALSE /\ todo' = <<>> /\ todo = <<>>
  BY DEF Deactivate, Idle
<1>2. \/ stored' = <<>> /\ asked' = "default" /\ file' = NoFile
      \/ /\ UNCHANGED <<stored, index, asked>>
         /\ file' \in {file, NoFile, Garbage} \/ file' = Saved(stored)
  BY MissionAssumption DEF Deactivate
<1>3. SettingsAsked'
  <2>1. CASE stored' = <<>> /\ asked' = "default"
    BY <1>1, <2>1, NoSettings
  <2>2. CASE UNCHANGED <<stored, index, asked>>
    BY <1>1, <2>2 DEF SettingsInv, SettingsAsked, GivenUp, HasSettings, Restores
  <2> QED  BY <1>2, <2>1, <2>2
<1>4. SettingsSaved'
  <2>1. CASE file' \in {file, NoFile, Garbage}
    BY <2>1, SavedNothing DEF SettingsInv
  <2>2. CASE file' = Saved(stored)
    <3>1. file'.asked = asked /\ file'.actions = InOrder(stored)
      BY <2>2 DEF Saved
    <3>2. StoredTypes(stored)
      BY DEF CoreInv, TypeOK, StoredTypes
    <3>3. /\ \A n \in DOMAIN InOrder(stored) : \E i \in DOMAIN stored : InOrder(stored)[n] = stored[i]
          /\ \A i \in DOMAIN stored : \E n \in DOMAIN InOrder(stored) : InOrder(stored)[n] = stored[i]
      BY <3>2, StoredInOrder
    <3>4. HasSettings <=> \E n \in DOMAIN InOrder(stored) : InOrder(stored)[n] = "settings"
      BY <3>3 DEF HasSettings
    <3>5. ~Restores
      <4>1. DOMAIN <<>> = {}
        OBVIOUS
      <4> QED  BY <1>1, <4>1 DEF Restores
    <3>6. asked = "given up" \/ ((asked = "changed") <=> HasSettings)
      BY <3>5 DEF SettingsInv, SettingsAsked, GivenUp
    <3> QED  BY <3>1, <3>4, <3>6 DEF SettingsSaved
  <2> QED  BY <1>2, <2>1, <2>2
<1> QED  BY <1>1, <1>3, <1>4, SettingsInactive

LEMMA SettingsCrash ==
  ASSUME CoreInv, SettingsInv, Crash, CoreInv'
  PROVE  SettingsInv'
<1>1. /\ active' = FALSE /\ stored' = <<>> /\ asked' = "default" /\ todo' = <<>>
      /\ file' \in {file, Garbage}
  BY DEF Crash, Idle
<1>2. SettingsAsked' /\ SettingsSaved'
  BY <1>1, NoSettings, SavedNothing DEF SettingsInv
<1> QED  BY <1>1, <1>2, SettingsInactive

LEMMA SettingsActivate ==
  ASSUME CoreInv, SettingsInv, Activate
  PROVE  SettingsInv'
<1> USE DEF missionVars, stateVars, runVars, pendingVars, worldVars, historyVars
<1>1. /\ ~active /\ UNCHANGED <<stored, file, sched, timer, later, traj>> /\ Idle
      /\ options' = FALSE /\ itemState' = "Other"
      /\ \/ index' = 0 /\ index = NoIndex /\ asked' = "default"
         \/ index' = index /\ asked' = asked
  BY DEF Activate
<1>2. ~options' /\ Quiet'
  BY <1>1 DEF Quiet
<1>3. /\ NextSettings(sched'.done) /\ NextSettings(timer') /\ NextSettings(later')
      /\ traj'.at # NoIndex => NextSettings(traj'.done)
  BY <1>1 DEF CoreInv, TokenInv, Token, Waits, SchedC, TimerC, LaterC, TrajC, NextSettings
<1> DEFINE f == Frame("begin", "start", Closure("begin"))
           g == Frame("begin", "resume", Closure("begin"))
<1>4. \/ todo' = <<f>> \/ todo' = <<g>> \/ todo' = <<Abort, g>> \/ todo' = <<Abort>>
  BY DEF Activate
<1>5. SettingsFrame(Abort)
  BY NewSettings, Zenon
<1>6. NextSettings(Closure("begin"))
  BY <1>2, NewClosures DEF NextSettings, OfItem
<1>7. f.op = "begin" /\ f.done = Closure("begin") /\ g.op = "begin" /\ g.done = Closure("begin")
  BY DEF Frame
<1> HIDE DEF f, g
<1>8. SettingsFrame(f) /\ SettingsFrame(g)
  BY <1>6, <1>7 DEF SettingsFrame
<1>9. SettingsPhases' /\ SettingsFrames' /\ ~Restores' /\ ~Flies(todo')
  BY <1>3, <1>4, <1>5, <1>8, SettingsStacks
<1>10. ~Restores
  BY <1>1, IdleStack DEF Restores
<1>11. SettingsAsked'
  <2>1. HasSettings' <=> HasSettings
    BY <1>1 DEF HasSettings
  <2> QED  BY <1>1, <1>9, <1>10, <2>1 DEF SettingsInv, SettingsAsked, GivenUp, NoIndex
<1>12. SettingsSaved' /\ SettingsFlown'
  BY <1>1, <1>9 DEF SettingsInv, SettingsSaved, SettingsFlown
<1> QED  BY <1>9, <1>11, <1>12 DEF SettingsInv

\* The first process starts with nothing stored.
LEMMA SettingsInit == Init => SettingsInv
<1> SUFFICES ASSUME Init PROVE SettingsInv
  OBVIOUS
<1>1. /\ active = FALSE /\ stored = <<>> /\ todo = <<>> /\ traj = NoTraj /\ itemState = "Other"
      /\ sched = NoSched /\ timer = Nothing /\ later = Nothing /\ file = NoFile
      /\ asked = "default"
  BY DEF Init, Memory
<1>2. DOMAIN <<>> = {} /\ NoFile.actions = <<>> /\ NoFile.asked = "default"
  BY DEF NoFile
<1>3. SettingsAsked /\ SettingsSaved
  BY <1>1, <1>2 DEF SettingsAsked, SettingsSaved, HasSettings, Restores
<1>4. SettingsPhases
  BY <1>1, <1>2, CompletionTypes DEF SettingsPhases, SettingsPhase, NoSched, NoTraj
<1>5. SettingsFrames /\ SettingsFlown
  BY <1>1, <1>2 DEF SettingsFrames, SettingsFlown, HeadIs, Flies
<1> QED  BY <1>3, <1>4, <1>5 DEF SettingsInv

LEMMA SettingsStuttering ==
  ASSUME SettingsInv, UNCHANGED vars
  PROVE  SettingsInv'
<1>1. UNCHANGED <<active, index, stored, options, asked, itemState, file, sched, timer, later,
                  traj, todo>>
  BY DEF vars, missionVars, stateVars, runVars, pendingVars, worldVars, historyVars
<1>2. /\ HasSettings' <=> HasSettings
      /\ Restores' <=> Restores
      /\ GivenUp' <=> GivenUp
      /\ Quiet' <=> Quiet
      /\ Flies(todo)' <=> Flies(todo)
  BY <1>1 DEF HasSettings, Restores, GivenUp, Quiet, Flies
<1>3. /\ Applied' <=> Applied
      /\ \A op : HeadIs(op)' <=> HeadIs(op)
  BY <1>1, <1>2 DEF Applied, HeadIs
<1>4. SettingsAsked'
  BY <1>1, <1>2 DEF SettingsInv, SettingsAsked
<1>5. SettingsSaved'
  BY <1>1 DEF SettingsInv, SettingsSaved
<1>6. SettingsPhases'
  <2>1. \A c : SettingsPhase(c)' <=> SettingsPhase(c)
    BY <1>1, <1>2, <1>3 DEF SettingsPhase
  <2> QED  BY <1>1, <2>1 DEF SettingsInv, SettingsPhases
<1>7. SettingsFrames'
  <2>1. HeadIs("stored")' <=> HeadIs("stored")
    BY <1>3
  <2> QED  BY <1>1, <1>2, <1>3, <2>1 DEF SettingsInv, SettingsFrames
<1>8. SettingsFlown'
  BY <1>1, <1>2 DEF SettingsInv, SettingsFlown, SchedC, TimerC, LaterC
<1> QED  BY <1>4, <1>5, <1>6, <1>7, <1>8 DEF SettingsInv

\* The settings are stored, in the process or in the file, exactly if the
\* mission has changed them, and every item is run with the settings that are
\* stored (ChangeSettings, storeState(), runStoredActions(), the persistent
\* file), if the user's onResume stores no state.  With one that does, ids of
\* restored states collide: see the run mission_settings_restart.
THEOREM SettingsHold == OnResume # "storing" /\ Spec => []SettingsInv
<1> SUFFICES ASSUME OnResume # "storing" PROVE Spec => []SettingsInv
  OBVIOUS
<1>1. Init => SettingsInv
  BY SettingsInit
<1>2. CoreInv /\ KeepInv /\ SettingsInv /\ [Next]_vars /\ CoreInv' => SettingsInv'
  <2> SUFFICES ASSUME CoreInv, KeepInv, SettingsInv, [Next]_vars, CoreInv'
               PROVE  SettingsInv'
    OBVIOUS
  <2>1. CASE Step
    BY <2>1, SettingsStep
  <2>2. CASE Answers
    BY <2>2, SettingsWaypointReached, SettingsModeCompletes, SettingsAnswers DEF Answers
  <2>3. CASE Interference
    BY <2>3, SettingsSetMission, SettingsResetMission, SettingsAnswers, SettingsActivate,
       SettingsDeactivate, SettingsCrash, SettingsModeCompletes DEF Interference
  <2>4. CASE UNCHANGED vars
    BY <2>4, SettingsStuttering
  <2> QED  BY <2>1, <2>2, <2>3, <2>4 DEF Next
<1> QED  BY <1>1, <1>2, CoreHolds, KeepHolds, PTL DEF Spec

\* A waypoint segment is flown with the settings the mission has asked for,
\* unless an abort has given them up, also after an interruption and a
\* restart, under the same condition (ChangeSettings, runStoredActions()).
THEOREM SettingsAreKept == OnResume # "storing" /\ Spec => []SettingsKept
<1> SUFFICES ASSUME OnResume # "storing" PROVE Spec => []SettingsKept
  OBVIOUS
<1>1. SettingsInv => SettingsKept
  BY DEF SettingsInv, SettingsFlown, SettingsKept, GivenUp
<1>2. Spec => []SettingsInv
  BY SettingsHold
<1> QED  BY <1>1, <1>2, PTL

=============================================================================
