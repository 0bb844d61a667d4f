------------------------ MODULE MissionExecutorProofs ------------------------
(***************************************************************************)
(* What TLAPS proves of MissionExecutor, for every set of missions, every  *)
(* choice of what the user's callbacks do and every bound.                 *)
(*                                                                         *)
(* Everything rests on CoreInv: the calls that are left of a callback are  *)
(* a stack in which only the last frame, or else one of the four things a  *)
(* mission can wait for, carries the mission on.  From it follow CalmInv   *)
(* (a mission that is not aborted has such a token), and from both         *)
(* AbortInv (an aborted one has none) and FlightInv (a mission flies in    *)
(* its own mode).  MissionExecutorStatesProofs has the rest: the states of *)
(* the continuous actions.                                                 *)
(***************************************************************************)
EXTENDS MissionExecutor, FiniteSetTheorems, SequenceTheorems, WellFoundedInduction, TLAPS

\* The frames that may lie below another one: a call that is being made puts
\* only the rest of its caller below the calls it makes.
Parked == {"item", "hold", "flying", "restore", "call", "begin", "aborted"}

\* A token carries the mission on.  A frame holds it, or a callback.
Carry(f)   == f.op = "item" \/ Continues(f.done)
Carries(s) == \E i \in DOMAIN s : Carry(s[i])
SchedC == Continues(sched.done)
TimerC == Continues(timer)
LaterC == Continues(later)
TrajC  == traj.at # NoIndex /\ Continues(traj.done)
Waits  == SchedC \/ TimerC \/ LaterC \/ TrajC
Token  == Carries(todo) \/ Waits

\* The frame that holds the token is the last one, and so is the rest of
\* runTrajectory().
Shape(s) ==
  /\ \A i \in 2 .. Len(s) : s[i].op \in Parked
  /\ \A i \in 1 .. Len(s) - 1 : ~Carry(s[i]) /\ s[i].op # "flying"
Flies(s) == s # <<>> /\ s[Len(s)].op = "flying"
HeadIs(op) == todo # <<>> /\ todo[1].op = op

OneToken ==
  /\ Carries(todo) => ~Waits
  /\ SchedC => ~TimerC /\ ~LaterC /\ ~TrajC
  /\ TimerC => ~LaterC /\ ~TrajC
  /\ LaterC => ~TrajC

Level(s) == Cardinality({i \in DOMAIN s : s[i].op = "aborted"})

StackInv ==
  /\ level = Level(todo)
  /\ Shape(todo)
  /\ HeadIs("action") /\ todo[1].arg # "onFailure" => Carry(todo[1])

TokenInv ==
  /\ valid => mission # <<>> /\ \A i \in DOMAIN mission : mission[i] # "undefined"
  /\ ~active => index < Len0 /\ ~Token
  /\ ownActive => active
  /\ Token => valid /\ index >= 0
  /\ Waits => index < Len0
  /\ \A i \in DOMAIN todo : Continues(todo[i].done) => index < Len0
  /\ OneToken
  /\ TrajC => traj.end < Len0

CoreInv == TypeOK /\ StackInv /\ TokenInv

Ops(s, ops) == \A i \in DOMAIN s : s[i].op \in ops

\* As long as the mission is not aborted it waits for its one token.
CalmRun ==
  /\ sched.done.k # "failure"
  /\ \A i \in DOMAIN todo : /\ todo[i].op # "aborted"
                            /\ todo[i].arg # "onFailure"
                            /\ todo[i].done.k # "failure"
  /\ SchedC \/ TimerC \/ LaterC => Ops(todo, {"abort", "call"})
  /\ TrajC => \/ itemState = "Trajectory" /\ Ops(todo, {"abort", "call"})
              \/ Flies(todo) /\ Ops(todo, {"abort", "mode", "flying"})
  /\ active /\ valid /\ ~HeadIs("abort") /\ IndexValid(index) => Token

CalmInv ==
  /\ ~active => sched = NoSched
  /\ ~aborted => CalmRun

\* A mission that is not aborted flies in its own mode, which it has made the
\* active one before it says that it flies.
InMode   == active => activeMode \in {nav, NoMode}
InFlight == active /\ ~HeadIs("abort") /\ itemState = "Trajectory" => activeMode = "own"
ToFlight ==
  Flies(todo) =>
    \/ HeadIs("flying") /\ activeMode = "own"
    \/ Len(todo) = 2 /\ (HeadIs("abort") \/ (HeadIs("mode") /\ todo[1].arg = "own"))
FlightInv == InMode /\ (~aborted => InFlight /\ ToFlight)

\* An item is run by nothing that may be aborted, and an aborted mission has
\* lost its token.
ItemsAside ==
  \A i \in DOMAIN todo : todo[i].op = "item" => Ops(todo, {"item", "stored", "restore", "call"})
AbortInv == (aborted => ~Token) /\ ItemsAside
-----------------------------------------------------------------------------
(* Frames and closures.                                                    *)

\* What every closure is, and the closure that does nothing.
LEMMA CompletionTypes ==
  /\ Completions \subseteq Closures
  /\ Nothing \in Completions /\ ~Continues(Nothing) /\ Nothing.k = "nothing"
  /\ Nothing.valid = TRUE /\ Nothing.fail = "abort"
  /\ \A c \in Closures :
       /\ c.k \in {"nothing", "next", "resumed", "navigate", "failure"}
       /\ c.valid \in BOOLEAN
       /\ c.k # "failure" => c \in Completions /\ c.fail = "abort"
       /\ c.fail \in {"abort", "descend", "ignore"}
  /\ \A c \in Completions : c.k # "failure" /\ c.fail = "abort" /\ c.k # "segment" /\ c.k # "begin"
  /\ \A c \in Segments : c.k = "segment" /\ c.valid \in BOOLEAN
  /\ \A c \in Begins : c.k = "begin" /\ c.valid \in BOOLEAN
<1>1. Completions \subseteq Closures
  BY DEF Closures
<1>2. /\ Nothing \in Completions /\ ~Continues(Nothing) /\ Nothing.k = "nothing"
      /\ Nothing.valid = TRUE /\ Nothing.fail = "abort"
  BY DEF Completions, Nothing, Continues, NoIndex
<1>3. \A c \in Completions :
        /\ c.k \in {"nothing", "next", "resumed", "navigate"}
        /\ c.valid \in BOOLEAN /\ c.fail = "abort"
        /\ c.k # "failure" /\ c.k # "segment" /\ c.k # "begin"
  BY DEF Completions
<1>4. \A c \in Closures :
        \/ c \in Completions
        \/ c.k = "failure" /\ c.valid \in BOOLEAN /\ c.fail \in {"abort", "descend", "ignore"}
  BY DEF Closures
<1>5. \A c \in Segments : c.k = "segment" /\ c.valid \in BOOLEAN
  BY DEF Segments
<1>6. \A c \in Begins : c.k = "begin" /\ c.valid \in BOOLEAN
  BY DEF Begins
<1> QED  BY <1>1, <1>2, <1>3, <1>4, <1>5, <1>6

\* The closures that carry the mission on, as they are made.
LEMMA NewClosures ==
  /\ Closure("next") \in Completions
  /\ Continues(Closure("next")) /\ Closure("next").k = "next"
  /\ Closure("segment") \in Segments
  /\ Continues(Closure("segment")) /\ Closure("segment").k = "segment"
  /\ Closure("begin") \in Begins
  /\ Continues(Closure("begin")) /\ Closure("begin").k = "begin"
  /\ Closure("begin").valid
  /\ [Closure("failure") EXCEPT !.fail = "descend"] \in Closures
  /\ ~Continues([Closure("failure") EXCEPT !.fail = "descend"])
  /\ [Closure("failure") EXCEPT !.fail = "descend"].k = "failure"
<1>1. \A c \in Completions :
        /\ \A k \in {"next", "resumed"} : [c EXCEPT !.k = k] \in Completions
        /\ [c EXCEPT !.k = "segment"] \in Segments
        /\ [c EXCEPT !.k = "begin"] \in Begins
        /\ [[c EXCEPT !.k = "failure"] EXCEPT !.fail = "descend"] \in Closures
  BY DEF Completions, Segments, Begins, Closures
<1>2. /\ \A k : Closure(k).k = k /\ Closure(k).valid = TRUE
      /\ [Closure("failure") EXCEPT !.fail = "descend"].k = "failure"
  BY DEF Closure, Nothing
<1>3. \A k : Closure(k) = [Nothing EXCEPT !.k = k]
  BY DEF Closure
<1>4. /\ Closure("next") \in Completions /\ Closure("segment") \in Segments
      /\ Closure("begin") \in Begins
      /\ [Closure("failure") EXCEPT !.fail = "descend"] \in Closures
  BY <1>1, <1>3, CompletionTypes
<1> QED  BY <1>2, <1>4 DEF Continues

\* The closure of an onResume action.
LEMMA ResumedClosure ==
  ASSUME NEW i \in Int
  PROVE  LET c == [Closure("resumed") EXCEPT !.prev = i]
         IN  c \in Completions /\ Continues(c) /\ c.k = "resumed"
<1> DEFINE c == [Closure("resumed") EXCEPT !.prev = i]
<1>1. c = [[Nothing EXCEPT !.k = "resumed"] EXCEPT !.prev = i]
  BY DEF Closure
<1>2. \A d \in Completions : [[d EXCEPT !.k = "resumed"] EXCEPT !.prev = i] \in Completions
  BY DEF Completions
<1>3. c.k = "resumed" /\ c.valid = TRUE
  BY <1>1, CompletionTypes DEF Nothing
<1> QED  BY <1>1, <1>2, <1>3, CompletionTypes DEF Continues

\* A completion that is wrapped keeps its handler.
LEMMA RenamedClosure ==
  ASSUME NEW c \in Completions, NEW k \in {"resumed", "navigate"}
  PROVE  LET d == [c EXCEPT !.k = k]
         IN  d \in Completions /\ (Continues(d) <=> c.valid) /\ d.k = k
BY DEF Completions, Continues

\* The closure of the Descend mode of a failure carries nothing on.
LEMMA IgnoringClosure ==
  ASSUME NEW c \in Closures, c.k = "failure"
  PROVE  LET d == [c EXCEPT !.fail = "ignore"]
         IN  d \in Closures /\ ~Continues(d) /\ d.k = "failure"
BY DEF Completions, Closures, Continues

\* A closure whose handler is invalid carries nothing on.
LEMMA InvalidClosure ==
  /\ \A c \in Closures :
       /\ Invalid(c) \in Closures
       /\ ~Continues(Invalid(c))
       /\ Invalid(c).k = c.k
  /\ \A c \in Completions \cup Segments :
       /\ Invalid(c) \in Completions \cup Segments
       /\ ~Continues(Invalid(c))
       /\ Invalid(c).k = c.k
  /\ \A c \in Completions : Invalid(c) \in Completions
  /\ \A c \in Begins : /\ Invalid(c) \in Begins
                       /\ ~Continues(Invalid(c))
                       /\ Invalid(c).k = c.k
  /\ Invalid(Nothing) = Nothing
<1>1. Invalid(Nothing) = Nothing /\ ~Continues(Nothing)
  BY CompletionTypes DEF Invalid
<1>2. \A c : c # Nothing => Invalid(c) = [c EXCEPT !.valid = FALSE]
  BY DEF Invalid
<1>3. \A c \in Completions : /\ [c EXCEPT !.valid = FALSE] \in Completions
                             /\ [c EXCEPT !.valid = FALSE].valid = FALSE
                             /\ [c EXCEPT !.valid = FALSE].k = c.k
  BY DEF Completions
<1>4. \A c \in Segments : /\ [c EXCEPT !.valid = FALSE] \in Segments
                          /\ [c EXCEPT !.valid = FALSE].valid = FALSE
                          /\ [c EXCEPT !.valid = FALSE].k = c.k
  BY DEF Segments
<1>5. \A c \in Begins : /\ [c EXCEPT !.valid = FALSE] \in Begins
                        /\ [c EXCEPT !.valid = FALSE].valid = FALSE
                        /\ [c EXCEPT !.valid = FALSE].k = c.k
  BY DEF Begins
<1>6. \A c \in Closures \ Completions : /\ [c EXCEPT !.valid = FALSE] \in Closures
                                         /\ [c EXCEPT !.valid = FALSE].valid = FALSE
                                         /\ [c EXCEPT !.valid = FALSE].k = c.k
  BY DEF Closures
<1>7. \A c : c.valid = FALSE => ~Continues(c)
  BY DEF Continues
<1>8. \A c \in Completions : /\ Invalid(c) \in Completions
                             /\ ~Continues(Invalid(c))
                             /\ Invalid(c).k = c.k
  BY <1>1, <1>2, <1>3, <1>7
<1>9. \A c \in Segments : /\ Invalid(c) \in Segments
                          /\ ~Continues(Invalid(c))
                          /\ Invalid(c).k = c.k
  BY <1>1, <1>2, <1>4, <1>7
<1>10. \A c \in Begins : /\ Invalid(c) \in Begins
                         /\ ~Continues(Invalid(c))
                         /\ Invalid(c).k = c.k
  BY <1>1, <1>2, <1>5, <1>7
<1>11. \A c \in Closures \ Completions : /\ Invalid(c) \in Closures
                                          /\ ~Continues(Invalid(c))
                                          /\ Invalid(c).k = c.k
  BY <1>1, <1>2, <1>6, <1>7
<1> QED  BY <1>1, <1>8, <1>9, <1>10, <1>11, CompletionTypes

\* The fields of a frame, by its operation.
LEMMA FrameTypes ==
  ASSUME NEW f \in Frames
  PROVE  /\ f.op \in {"mode", "action", "begin", "call", "hold", "restore", "item",
                      "stored", "abort", "aborted", "flying"}
         /\ f.op = "mode" => f.arg \in Modes /\ f.done \in Closures
         /\ f.op = "action" => /\ f.arg \in Actions \cup {"onResume", "onFailure"}
                               /\ f.done \in Completions
         /\ f.op = "begin" => f.done \in Begins
         /\ f.op = "call" => f.done \in Closures
         /\ f.op = "hold" => f.done \in Completions
         /\ f.op = "restore" => f.arg \in Restorable /\ f.done = Nothing
         /\ f.op \in {"item", "stored", "abort", "aborted", "flying"} => f.done = Nothing
         /\ f.op # "action" => f.arg # "onFailure"
<1>1. CASE f \in [op : {"mode"}, arg : Modes \ {"own"}, done : Closures]
  BY <1>1 DEF Modes
<1>2. CASE f \in [op : {"mode"}, arg : {"own"}, done : {Nothing}]
  BY <1>2, CompletionTypes DEF Modes
<1>3. CASE f \in [op : {"action"}, arg : Actions \cup {"onResume", "onFailure"},
                  done : Completions]
  BY <1>3
<1>4. CASE f \in [op : {"begin"}, arg : {"start", "resume"}, done : Begins]
  BY <1>4
<1>5. CASE \/ f \in [op : {"call"}, arg : {""}, done : Closures]
           \/ f \in [op : {"hold"}, arg : {""}, done : Completions]
  BY <1>5
<1>6. CASE f \in [op : {"restore"}, arg : Restorable, done : {Nothing}]
  BY <1>6 DEF Restorable
<1>7. CASE f \in [op : {"item", "stored", "abort", "aborted", "flying"}, arg : {""},
                  done : {Nothing}]
  BY <1>7
<1> QED  BY <1>1, <1>2, <1>3, <1>4, <1>5, <1>6, <1>7 DEF Frames

\* The frames that the steps make.
LEMMA NewMode ==
  ASSUME NEW m \in Modes \ {"own"}, NEW c \in Closures
  PROVE  LET f == RunMode(m, c)
         IN  f \in Frames /\ f.op = "mode" /\ f.arg = m /\ f.done = c
BY DEF Frames, Frame, RunMode

LEMMA NewAction ==
  ASSUME NEW a \in Actions \cup {"onResume", "onFailure"}, NEW c \in Completions
  PROVE  LET f == RunAction(a, c)
         IN  f \in Frames /\ f.op = "action" /\ f.arg = a /\ f.done = c
BY DEF Frames, Frame, RunAction

LEMMA NewCall ==
  ASSUME NEW c \in Closures
  PROVE  LET f == Call(c)
         IN  f \in Frames /\ f.op = "call" /\ f.done = c /\ f.arg = ""
BY DEF Frames, Frame, Call

LEMMA NewHold ==
  ASSUME NEW c \in Completions
  PROVE  LET f == Frame("hold", "", c)
         IN  f \in Frames /\ f.op = "hold" /\ f.done = c /\ f.arg = ""
BY DEF Frames, Frame

LEMMA NewBegin ==
  ASSUME NEW a \in {"start", "resume"}, NEW c \in Begins
  PROVE  LET f == Frame("begin", a, c)
         IN  f \in Frames /\ f.op = "begin" /\ f.done = c /\ f.arg = a
BY DEF Frames, Frame

LEMMA NewRestore ==
  ASSUME NEW n \in Restorable
  PROVE  LET f == Frame("restore", n, Nothing)
         IN  f \in Frames /\ f.op = "restore" /\ f.done = Nothing /\ f.arg = n
BY DEF Frames, Frame

\* The frames without a closure.
LEMMA SimpleFrames ==
  /\ RunStored \in Frames /\ RunStored.op = "stored" /\ RunStored.done = Nothing
  /\ RunItem \in Frames /\ RunItem.op = "item" /\ RunItem.done = Nothing
  /\ Abort \in Frames /\ Abort.op = "abort" /\ Abort.done = Nothing /\ Abort.arg = ""
  /\ LET f == Frame("flying", "", Nothing)
     IN  f \in Frames /\ f.op = "flying" /\ f.done = Nothing
  /\ LET f == Frame("aborted", "", Nothing)
     IN  f \in Frames /\ f.op = "aborted" /\ f.done = Nothing
  /\ LET f == RunMode("own", Nothing)
     IN  f \in Frames /\ f.op = "mode" /\ f.arg = "own" /\ f.done = Nothing
  /\ LET f == RunMode("Loiter", Nothing)
     IN  f \in Frames /\ f.op = "mode" /\ f.arg = "Loiter" /\ f.done = Nothing
  /\ LET f == RunAction("onFailure", Nothing)
     IN  f \in Frames /\ f.op = "action" /\ f.arg = "onFailure" /\ f.done = Nothing
<1>1. Nothing \in Completions /\ Nothing \in Closures
  BY CompletionTypes
<1> QED  BY <1>1 DEF Frames, Frame, RunMode, RunAction, RunStored, RunItem, Abort, Modes

\* A frame whose handler is invalid differs in its closure only.
LEMMA InvalidFrame ==
  ASSUME NEW f \in Frames
  PROVE  /\ WithInvalid(f) \in Frames
         /\ WithInvalid(f).op = f.op /\ WithInvalid(f).arg = f.arg
         /\ ~Continues(WithInvalid(f).done)
         /\ WithInvalid(f).done.k = f.done.k
<1>2. CASE f \in [op : {"mode"}, arg : Modes \ {"own"}, done : Closures]
  BY <1>2, InvalidClosure DEF WithInvalid, Frames
<1>3. CASE f \in [op : {"mode"}, arg : {"own"}, done : {Nothing}]
  BY <1>3, InvalidClosure, CompletionTypes DEF WithInvalid, Frames
<1>4. CASE f \in [op : {"action"}, arg : Actions \cup {"onResume", "onFailure"},
                  done : Completions]
  BY <1>4, InvalidClosure, CompletionTypes DEF WithInvalid, Frames
<1>5. CASE f \in [op : {"begin"}, arg : {"start", "resume"}, done : Begins]
  BY <1>5, InvalidClosure DEF WithInvalid, Frames
<1>6. CASE f \in [op : {"call"}, arg : {""}, done : Closures]
  BY <1>6, InvalidClosure DEF WithInvalid, Frames
<1>7. CASE f \in [op : {"hold"}, arg : {""}, done : Completions]
  BY <1>7, InvalidClosure, CompletionTypes DEF WithInvalid, Frames
<1>8. CASE f \in [op : {"restore"}, arg : Restorable, done : {Nothing}]
  BY <1>8, InvalidClosure, CompletionTypes DEF WithInvalid, Frames
<1>9. CASE f \in [op : {"item", "stored", "abort", "aborted", "flying"}, arg : {""},
                  done : {Nothing}]
  BY <1>9, InvalidClosure, CompletionTypes DEF WithInvalid, Frames
<1> QED  BY <1>2, <1>3, <1>4, <1>5, <1>6, <1>7, <1>8, <1>9 DEF Frames

-----------------------------------------------------------------------------
(* The stack.  A step replaces its first frame by the frames of the calls  *)
(* it makes.                                                               *)

\* The elements of the stack after its first frame is replaced.
LEMMA Replaced ==
  ASSUME NEW s \in Seq(Frames), s # <<>>, NEW fr \in Seq(Frames)
  PROVE  LET t == fr \o Tail(s)
         IN  /\ t \in Seq(Frames)
             /\ Len(t) = Len(fr) + Len(s) - 1
             /\ \A i \in 1 .. Len(fr) : t[i] = fr[i]
             /\ \A i \in Len(fr) + 1 .. Len(t) : t[i] = s[i - Len(fr) + 1]
             /\ \A i \in 2 .. Len(s) : t[i + Len(fr) - 1] = s[i]
<1>1. /\ Tail(s) \in Seq(Frames) /\ Len(Tail(s)) = Len(s) - 1
      /\ \A i \in 1 .. Len(s) - 1 : Tail(s)[i] = s[i + 1]
  OBVIOUS
<1>2. /\ fr \o Tail(s) \in Seq(Frames)
      /\ Len(fr \o Tail(s)) = Len(fr) + Len(Tail(s))
      /\ \A i \in 1 .. Len(fr) : (fr \o Tail(s))[i] = fr[i]
      /\ \A i \in Len(fr) + 1 .. Len(fr) + Len(Tail(s)) :
           (fr \o Tail(s))[i] = Tail(s)[i - Len(fr)]
  BY <1>1
<1> QED  BY <1>1, <1>2

\* The stacks of a callback that comes.
LEMMA Single ==
  ASSUME NEW f
  PROVE  <<>> \o <<f>> = <<f>>
<1>1. <<f>> \in Seq({f})
  OBVIOUS
<1> QED  BY <1>1, ConcatEmptySeq

LEMMA Pair ==
  ASSUME NEW f, NEW g
  PROVE  <<f>> \o <<g>> = <<f, g>>
<1> DEFINE S == {f, g}
<1>1. <<f>> \in Seq(S) /\ <<g>> \in Seq(S) /\ <<f, g>> \in Seq(S)
  OBVIOUS
<1>2. /\ Len(<<f>>) = 1 /\ <<f>>[1] = f /\ Len(<<g>>) = 1 /\ <<g>>[1] = g
      /\ Len(<<f, g>>) = 2 /\ <<f, g>>[1] = f /\ <<f, g>>[2] = g
  OBVIOUS
<1> DEFINE t == <<f>> \o <<g>>
<1>4. t \in Seq(S) /\ Len(t) = 2
      /\ \A i \in 1 .. 2 : t[i] = IF i <= 1 THEN <<f>>[i] ELSE <<g>>[i - 1]
  BY <1>1, <1>2, ConcatProperties
<1> HIDE DEF t, S
<1>5. t[1] = f /\ t[2] = g
  BY <1>2, <1>4
<1>6. t = <<f, g>>
  BY <1>1, <1>2, <1>4, <1>5, SeqEqual
<1> QED  BY <1>6 DEF t

\* What the short stacks carry.
LEMMA Stacks ==
  /\ <<>> \in Seq(Frames) /\ Shape(<<>>) /\ ~Carries(<<>>) /\ ~Flies(<<>>)
  /\ \A f \in Frames :
       /\ <<f>> \in Seq(Frames) /\ Len(<<f>>) = 1 /\ <<f>>[1] = f /\ <<f>> # <<>>
       /\ Shape(<<f>>)
       /\ Carries(<<f>>) <=> Carry(f)
       /\ Flies(<<f>>) <=> f.op = "flying"
  /\ \A f, g \in Frames :
       /\ <<f, g>> \in Seq(Frames) /\ Len(<<f, g>>) = 2 /\ <<f, g>> # <<>>
       /\ <<f, g>>[1] = f /\ <<f, g>>[2] = g
       /\ Shape(<<f, g>>) <=> g.op \in Parked /\ ~Carry(f) /\ f.op # "flying"
       /\ Carries(<<f, g>>) <=> Carry(f) \/ Carry(g)
       /\ Flies(<<f, g>>) <=> g.op = "flying"
<1>1. <<>> \in Seq(Frames) /\ Shape(<<>>) /\ ~Carries(<<>>) /\ ~Flies(<<>>)
  BY DEF Shape, Carries, Flies
<1>2. ASSUME NEW f \in Frames
      PROVE  /\ <<f>> \in Seq(Frames) /\ Len(<<f>>) = 1 /\ <<f>>[1] = f /\ <<f>> # <<>>
             /\ Shape(<<f>>)
             /\ Carries(<<f>>) <=> Carry(f)
             /\ Flies(<<f>>) <=> f.op = "flying"
  <2>1. <<f>> \in Seq(Frames) /\ Len(<<f>>) = 1 /\ <<f>>[1] = f /\ <<f>> # <<>>
    OBVIOUS
  <2>2. DOMAIN <<f>> = {1}
    BY <2>1
  <2> QED  BY <2>1, <2>2 DEF Shape, Carries, Flies
<1>3. ASSUME NEW f \in Frames, NEW g \in Frames
      PROVE  /\ <<f, g>> \in Seq(Frames) /\ Len(<<f, g>>) = 2 /\ <<f, g>> # <<>>
             /\ <<f, g>>[1] = f /\ <<f, g>>[2] = g
             /\ Shape(<<f, g>>) <=> g.op \in Parked /\ ~Carry(f) /\ f.op # "flying"
             /\ Carries(<<f, g>>) <=> Carry(f) \/ Carry(g)
             /\ Flies(<<f, g>>) <=> g.op = "flying"
  <2>1. /\ <<f, g>> \in Seq(Frames) /\ Len(<<f, g>>) = 2 /\ <<f, g>> # <<>>
        /\ <<f, g>>[1] = f /\ <<f, g>>[2] = g
    OBVIOUS
  <2>2. DOMAIN <<f, g>> = {1, 2}
    BY <2>1
  <2> DEFINE s == <<f, g>>
  <2>3. /\ Len(s) = 2 /\ s # <<>> /\ s[1] = f /\ s[2] = g /\ DOMAIN s = {1, 2}
    BY <2>1, <2>2
  <2> HIDE DEF s
  <2>4. /\ 2 .. Len(s) = {2} /\ 1 .. Len(s) - 1 = {1}
    BY <2>3
  <2>5. Shape(s) <=> g.op \in Parked /\ ~Carry(f) /\ f.op # "flying"
    BY <2>3, <2>4 DEF Shape
  <2>6. Carries(s) <=> Carry(f) \/ Carry(g)
    BY <2>3 DEF Carries
  <2>7. Flies(s) <=> g.op = "flying"
    BY <2>3 DEF Flies
  <2> QED  BY <2>1, <2>5, <2>6, <2>7 DEF s
<1> QED  BY <1>1, <1>2, <1>3

\* Below the first frame there is no token, or it is the token of the stack.
LEMMA Pushed ==
  ASSUME NEW s \in Seq(Frames), s # <<>>, Shape(s),
         NEW fr \in Seq(Frames), Shape(fr), ~Carries(fr), ~Flies(fr)
  PROVE  LET t == fr \o Tail(s)
         IN  /\ Shape(t)
             /\ Carries(t) => Carries(s)
             /\ Carries(s) /\ ~Carry(s[1]) => Carries(t)
             /\ Flies(t) => Flies(s) /\ Len(s) > 1
             /\ Flies(s) /\ Len(s) > 1 => Flies(t)
<1> DEFINE t == fr \o Tail(s)
<1>1. /\ t \in Seq(Frames)
      /\ Len(t) = Len(fr) + Len(s) - 1
      /\ \A i \in 1 .. Len(fr) : t[i] = fr[i]
      /\ \A i \in Len(fr) + 1 .. Len(t) : t[i] = s[i - Len(fr) + 1]
      /\ \A i \in 2 .. Len(s) : t[i + Len(fr) - 1] = s[i]
  BY Replaced
<1>2. Len(fr) \in Nat /\ Len(s) \in Nat /\ Len(s) > 0
  OBVIOUS
<1>3. DOMAIN fr = 1 .. Len(fr) /\ DOMAIN s = 1 .. Len(s) /\ DOMAIN t = 1 .. Len(t)
  BY <1>1
<1> HIDE DEF t
<1>4. \A i \in 1 .. Len(fr) : ~Carry(fr[i]) /\ fr[i].op # "flying"
  BY <1>2, <1>3 DEF Shape, Carries, Flies
<1>5. Shape(t)
  <2>1. \A i \in 2 .. Len(t) : t[i].op \in Parked
    BY <1>1, <1>2 DEF Shape
  <2>2. \A i \in 1 .. Len(t) - 1 : ~Carry(t[i]) /\ t[i].op # "flying"
    <3>1. TAKE i \in 1 .. Len(t) - 1
    <3>2. CASE i \in 1 .. Len(fr)
      BY <3>2, <1>1, <1>4
    <3>3. CASE i \notin 1 .. Len(fr)
      <4>1. /\ i \in Len(fr) + 1 .. Len(t)
            /\ i - Len(fr) + 1 \in 1 .. Len(s) - 1
        BY <3>3, <1>1, <1>2
      <4> QED  BY <4>1, <1>1 DEF Shape
    <3> QED  BY <3>2, <3>3
  <2> QED  BY <2>1, <2>2 DEF Shape
<1>6. Carries(t) => Carries(s)
  <2>1. SUFFICES ASSUME NEW i \in DOMAIN t, Carry(t[i])
                 PROVE  Carries(s)
    BY DEF Carries
  <2>2. i \in Len(fr) + 1 .. Len(t) /\ i - Len(fr) + 1 \in DOMAIN s
    BY <2>1, <1>1, <1>2, <1>3, <1>4
  <2> QED  BY <2>1, <2>2, <1>1 DEF Carries
<1>7. Carries(s) /\ ~Carry(s[1]) => Carries(t)
  <2>1. SUFFICES ASSUME NEW i \in DOMAIN s, Carry(s[i]), ~Carry(s[1])
                 PROVE  Carries(t)
    BY DEF Carries
  <2>2. i \in 2 .. Len(s)
    BY <2>1, <1>2, <1>3
  <2>3. i + Len(fr) - 1 \in DOMAIN t /\ t[i + Len(fr) - 1] = s[i]
    BY <2>2, <1>1, <1>2, <1>3
  <2> QED  BY <2>1, <2>3 DEF Carries
<1>8. Flies(t) => Flies(s) /\ Len(s) > 1
  BY <1>1, <1>2, <1>4 DEF Flies
<1>9. Flies(s) /\ Len(s) > 1 => Flies(t)
  BY <1>1, <1>2 DEF Flies
<1> QED  BY <1>5, <1>6, <1>7, <1>8, <1>9 DEF t

\* The frame that holds the token is alone.
LEMMA CarrierAlone ==
  ASSUME NEW s \in Seq(Frames), s # <<>>, Shape(s), Carry(s[1]) \/ s[1].op = "flying"
  PROVE  /\ Len(s) = 1 /\ Tail(s) = <<>>
         /\ \A fr \in Seq(Frames) : fr \o Tail(s) = fr
<1>1. Len(s) \in Nat /\ Len(s) > 0
  OBVIOUS
<1>2. Len(s) = 1
  <2>1. Len(s) > 1 => 1 \in 1 .. Len(s) - 1
    BY <1>1
  <2>2. ~(1 \in 1 .. Len(s) - 1)
    BY DEF Shape
  <2>3. ~(Len(s) > 1)
    BY <2>1, <2>2, Zenon
  <2>4. \A n \in Nat : n > 0 /\ ~(n > 1) => n = 1
    OBVIOUS
  <2> QED  BY <1>1, <2>3, <2>4, Zenon
<1>3. Tail(s) = <<>>
  <2>1. Tail(s) \in Seq(Frames) /\ Len(Tail(s)) = 0
    BY <1>2
  <2> QED  BY <2>1, EmptySeq
<1>4. \A fr \in Seq(Frames) : fr \o <<>> = fr
  OBVIOUS
<1> QED  BY <1>2, <1>3, <1>4

\* Moving a set of numbers does not change its size.
LEMMA Shifted ==
  ASSUME NEW A, A \subseteq Int, IsFiniteSet(A), NEW B, B \subseteq Int, NEW k \in Int,
         \A i \in A : i + k \in B, \A j \in B : j - k \in A
  PROVE  IsFiniteSet(B) /\ Cardinality(B) = Cardinality(A)
<1> DEFINE f == [i \in A |-> i + k]
<1>1. f \in Injection(A, B)
  BY DEF Injection, IsInjective
<1>2. f \in Surjection(A, B)
  <2>1. \A j \in B : j - k \in A /\ f[j - k] = j
    OBVIOUS
  <2> QED  BY <2>1 DEF Surjection
<1>3. f \in Bijection(A, B)
  BY <1>1, <1>2 DEF Bijection
<1>4. ExistsBijection(A, B)
  BY <1>3 DEF ExistsBijection
<1> QED  BY <1>4, FS_Bijection

\* The aborts that are running, after the first frame has been replaced.
LEMMA LevelPushed ==
  ASSUME NEW s \in Seq(Frames), s # <<>>, NEW fr \in Seq(Frames)
  PROVE  /\ Level(fr) \in Nat /\ Level(s) \in Nat
         /\ s[1].op = "aborted" => Level(s) > 0
         /\ Level(fr \o Tail(s)) =
              Level(fr) + Level(s) - (IF s[1].op = "aborted" THEN 1 ELSE 0)
<1> DEFINE t == fr \o Tail(s)
           S == {i \in DOMAIN s : s[i].op = "aborted"}
           F == {i \in DOMAIN fr : fr[i].op = "aborted"}
           A == {i \in 2 .. Len(s) : s[i].op = "aborted"}
           B == {i \in Len(fr) + 1 .. Len(t) : t[i].op = "aborted"}
           T == {i \in DOMAIN t : t[i].op = "aborted"}
<1>1. /\ t \in Seq(Frames)
      /\ Len(t) = Len(fr) + Len(s) - 1
      /\ \A i \in 1 .. Len(fr) : t[i] = fr[i]
      /\ \A i \in Len(fr) + 1 .. Len(t) : t[i] = s[i - Len(fr) + 1]
      /\ \A i \in 2 .. Len(s) : t[i + Len(fr) - 1] = s[i]
  BY Replaced
<1>2. Len(fr) \in Nat /\ Len(s) \in Nat /\ Len(s) > 0
  OBVIOUS
<1>3. DOMAIN fr = 1 .. Len(fr) /\ DOMAIN s = 1 .. Len(s) /\ DOMAIN t = 1 .. Len(t)
  BY <1>1
<1>0. Level(fr) = Cardinality(F) /\ Level(s) = Cardinality(S) /\ Level(t) = Cardinality(T)
  BY DEF Level
<1> HIDE DEF t
<1>4. /\ IsFiniteSet(1 .. Len(fr)) /\ IsFiniteSet(1 .. Len(s)) /\ IsFiniteSet(2 .. Len(s))
  BY <1>2, FS_Interval
<1>5. /\ IsFiniteSet(F) /\ IsFiniteSet(S) /\ IsFiniteSet(A)
  BY <1>3, <1>4, FS_Subset
<1>6. /\ Cardinality(F) \in Nat /\ Cardinality(S) \in Nat /\ Cardinality(A) \in Nat
  BY <1>5, FS_CardinalityType
<1>7. IsFiniteSet(B) /\ Cardinality(B) = Cardinality(A)
  <2> DEFINE k == Len(fr) - 1
  <2>1. A \subseteq Int /\ B \subseteq Int /\ k \in Int
    BY <1>1, <1>2
  <2>2. \A i \in A : i + k \in B
    BY <1>1, <1>2
  <2>3. \A j \in B : j - k \in A
    BY <1>1, <1>2
  <2> HIDE DEF A, B, k
  <2> QED  BY <1>5, <2>1, <2>2, <2>3, Shifted
<1>8. T = F \cup B /\ F \cap B = {}
  BY <1>1, <1>2, <1>3
<1>9. s[1].op = "aborted" => S = A \cup {1} /\ 1 \notin A
  BY <1>2, <1>3
<1>10. s[1].op # "aborted" => S = A
  BY <1>2, <1>3
<1> HIDE DEF S, F, A, B, T
<1>11. Cardinality(T) = Cardinality(F) + Cardinality(A)
  <2>1. Cardinality(F \cup B) = Cardinality(F) + Cardinality(B) - Cardinality(F \cap B)
    BY <1>5, <1>7, FS_Union
  <2>2. Cardinality({}) = 0
    BY FS_EmptySet
  <2>3. Cardinality(F \cap B) = 0
    BY <2>2, <1>8
  <2>4. Cardinality(T) = Cardinality(F \cup B)
    BY <1>8
  <2> QED  BY <2>1, <2>3, <2>4, <1>6, <1>7
<1>12. s[1].op = "aborted" => Cardinality(S) = Cardinality(A) + 1
  BY <1>5, <1>9, FS_AddElement
<1>13. Level(t) = Level(fr) + Level(s) - (IF s[1].op = "aborted" THEN 1 ELSE 0)
  BY <1>0, <1>6, <1>10, <1>11, <1>12
<1>14. /\ Level(fr) \in Nat /\ Level(s) \in Nat
       /\ s[1].op = "aborted" => Level(s) > 0
  BY <1>0, <1>6, <1>12
<1> QED  BY <1>13, <1>14 DEF t

\* A stack without rests of aborts has level 0.
LEMMA NoLevel ==
  ASSUME NEW s \in Seq(Frames), \A i \in DOMAIN s : s[i].op # "aborted"
  PROVE  Level(s) = 0
<1>1. {i \in DOMAIN s : s[i].op = "aborted"} = {}
  OBVIOUS
<1> QED  BY <1>1, FS_EmptySet DEF Level

\* The frames below an abort, with their handlers invalid.
Invalidated(s) == [i \in DOMAIN s |-> WithInvalid(s[i])]

\* An abort keeps the stack and makes its closures invalid.
LEMMA InvalidatedStack ==
  ASSUME NEW s \in Seq(Frames), s # <<>>
  PROVE  LET t == Invalidated(s)
         IN  /\ t \in Seq(Frames) /\ t # <<>> /\ Len(t) = Len(s) /\ DOMAIN t = DOMAIN s
             /\ Tail(t) = Invalidated(Tail(s))
             /\ \A i \in DOMAIN s : /\ t[i].op = s[i].op /\ t[i].arg = s[i].arg
                                    /\ t[i].done.k = s[i].done.k
                                    /\ ~Continues(t[i].done)
             /\ Level(t) = Level(s)
             /\ Shape(s) => Shape(t)
             /\ Flies(t) <=> Flies(s)
             /\ Carries(t) => Carries(s)
<1> DEFINE t == Invalidated(s)
<1>1. Len(s) \in Nat \ {0} /\ DOMAIN s = 1 .. Len(s)
  BY EmptySeq
<1>2. \A i \in 1 .. Len(s) : WithInvalid(s[i]) \in Frames
  BY InvalidFrame
<1>3. t = [i \in 1 .. Len(s) |-> WithInvalid(s[i])]
  BY <1>1 DEF Invalidated
<1>4. t \in Seq(Frames) /\ Len(t) = Len(s) /\ DOMAIN t = DOMAIN s /\ t # <<>>
  BY <1>1, <1>2, <1>3
<1>5. \A i \in DOMAIN s : t[i] = WithInvalid(s[i])
  BY DEF Invalidated
<1>6. Tail(t) = Invalidated(Tail(s))
  <2>1. /\ Tail(s) \in Seq(Frames) /\ Len(Tail(s)) = Len(s) - 1
        /\ \A i \in 1 .. Len(s) - 1 : Tail(s)[i] = s[i + 1]
    OBVIOUS
  <2> HIDE DEF t
  <2>2. /\ Tail(t) \in Seq(Frames) /\ Len(Tail(t)) = Len(s) - 1
        /\ \A i \in 1 .. Len(s) - 1 : Tail(t)[i] = t[i + 1]
    BY <1>4
  <2> DEFINE u == Invalidated(Tail(s))
  <2>3. u = [i \in 1 .. Len(s) - 1 |-> WithInvalid(Tail(s)[i])]
    <3>1. DOMAIN Tail(s) = 1 .. Len(s) - 1
      BY <2>1, LenProperties
    <3> QED  BY <3>1 DEF Invalidated
  <2>4. \A i \in 1 .. Len(s) - 1 : Tail(s)[i] \in Frames /\ WithInvalid(Tail(s)[i]) \in Frames
    BY <2>1, <1>1, InvalidFrame
  <2>5. u \in Seq(Frames) /\ Len(u) = Len(s) - 1
    <3>1. Len(s) - 1 \in Nat
      BY <1>1
    <3> QED  BY <3>1, <2>3, <2>4
  <2>6. \A i \in 1 .. Len(s) - 1 : u[i] = Tail(t)[i]
    BY <1>1, <1>5, <2>1, <2>2, <2>3
  <2> HIDE DEF u
  <2> QED  BY <2>2, <2>5, <2>6, SeqEqual DEF u
<1>7. \A i \in DOMAIN s : /\ t[i].op = s[i].op /\ t[i].arg = s[i].arg
                          /\ t[i].done.k = s[i].done.k
                          /\ ~Continues(t[i].done)
  BY <1>1, <1>5, InvalidFrame
<1> HIDE DEF t
<1>8. Level(t) = Level(s)
  <2>1. {i \in DOMAIN t : t[i].op = "aborted"} = {i \in DOMAIN s : s[i].op = "aborted"}
    BY <1>4, <1>7
  <2> QED  BY <2>1 DEF Level
<1>9. Shape(s) => Shape(t)
  <2>1. Len(t) = Len(s) /\ DOMAIN s = 1 .. Len(s)
    BY <1>1, <1>4
  <2>2. \A i \in DOMAIN s : t[i].op = s[i].op /\ (Carry(t[i]) => Carry(s[i]))
    BY <1>7 DEF Carry
  <2>3. /\ \A i \in 2 .. Len(s) : i \in DOMAIN s
        /\ \A i \in 1 .. Len(s) - 1 : i \in DOMAIN s
    BY <1>1
  <2> QED  BY <2>1, <2>2, <2>3 DEF Shape
<1>10. Flies(t) <=> Flies(s)
  BY <1>1, <1>4, <1>7 DEF Flies
<1>11. Carries(t) => Carries(s)
  BY <1>4, <1>7 DEF Carries, Carry
<1> QED  BY <1>4, <1>6, <1>7, <1>8, <1>9, <1>10, <1>11 DEF t

-----------------------------------------------------------------------------
(* Numbers: the end of a trajectory and the order of the stored states.    *)

\* No action but onResume is in a list twice.
Distinct(f) == \A i, j \in DOMAIN f : f[i] = f[j] => i = j \/ f[i] = "onResume"

\* A set of numbers has a least element.
LEMMA Least ==
  ASSUME NEW T, T \subseteq Nat, T # {}
  PROVE  \E x \in T : \A y \in T : x <= y
<1>1. IsWellFoundedOn(OpToRel(<, Nat), Nat)
  BY NatLessThanWellFounded, Zenon
<1>2. PICK x \in T : \A y \in T : ~(<<y, x>> \in OpToRel(<, Nat))
  BY <1>1, WFMin, Zenon
<1>3. \A y \in T : ~(y < x)
  BY <1>2 DEF OpToRel
<1> QED  BY <1>3

\* The trajectory from a waypoint ends at the last waypoint in a row.
LEMMA SegmentEnds ==
  ASSUME Len0 \in Nat, NEW i \in Waypoints
  PROVE  SegmentEnd(i) \in i .. Len0 - 1
<1> DEFINE Ends == {e \in i .. Len0 - 1 : e + 1 \notin Waypoints}
<1>1. i \in 0 .. Len0 - 1
  BY DEF Waypoints
<1>2. Ends \subseteq Nat /\ Len0 - 1 \in Ends
  BY <1>1 DEF Waypoints
<1>3. PICK e \in Ends : \A y \in Ends : e <= y
  <2> HIDE DEF Ends
  <2> QED  BY <1>2, Least
<1>4. i .. e \subseteq Waypoints
  <2>1. SUFFICES ASSUME NEW j \in i .. e, j # i
                 PROVE  j \in Waypoints
    OBVIOUS
  <2>2. j - 1 \notin Ends
    BY <1>1, <1>3, <2>1
  <2>3. j - 1 \in i .. Len0 - 1 /\ (j - 1) + 1 = j
    BY <1>1, <2>1
  <2> QED  BY <2>2, <2>3
<1> QED  BY <1>3, <1>4 DEF SegmentEnd

\* InOrder() lists every state once.
LEMMA InOrderLists ==
  ASSUME NEW V, NEW f, IsFiniteSet(DOMAIN f), DOMAIN f \subseteq Nat, f \in [DOMAIN f -> V]
  PROVE  LET q == InOrder(f)
         IN  /\ q \in Seq(V)
             /\ \A n \in DOMAIN q : \E i \in DOMAIN f : q[n] = f[i]
             /\ \A i \in DOMAIN f : \E n \in DOMAIN q : q[n] = f[i]
             /\ Distinct(f) => Distinct(q)
<1> DEFINE D == DOMAIN f
           N == Cardinality(D)
           upto(i) == {j \in D : j <= i}
           rank(i) == Cardinality(upto(i))
           pick(n) == CHOOSE i \in D : rank(i) = n
           r == [i \in D |-> rank(i)]
           q == InOrder(f)
<1>1. N \in Nat
  BY FS_CardinalityType
<1>2. \A i \in D : rank(i) \in 1 .. N
  <2>1. TAKE i \in D
  <2>2. upto(i) \in SUBSET D /\ i \in upto(i)
    OBVIOUS
  <2>3. IsFiniteSet(upto(i)) /\ rank(i) <= N
    BY <2>2, FS_Subset
  <2>4. rank(i) \in Nat /\ rank(i) # 0
    BY <2>2, <2>3, FS_CardinalityType, FS_EmptySet
  <2> HIDE DEF rank, N
  <2> QED  BY <1>1, <2>3, <2>4
<1>3. \A i, j \in D : i < j => rank(i) # rank(j)
  <2>1. SUFFICES ASSUME NEW i \in D, NEW j \in D, i < j
                 PROVE  rank(i) # rank(j)
    OBVIOUS
  <2>2. upto(i) \in SUBSET upto(j) /\ j \in upto(j) /\ j \notin upto(i)
    BY <2>1
  <2>3. upto(j) \in SUBSET D
    OBVIOUS
  <2>4. IsFiniteSet(upto(j))
    BY <2>3, FS_Subset
  <2> HIDE DEF upto
  <2> QED  BY <2>2, <2>4, FS_Subset
<1>4. \A i, j \in D : rank(i) = rank(j) => i = j
  <2> HIDE DEF rank
  <2> QED  BY <1>3
<1>5. r \in Surjection(D, 1 .. N)
  <2>1. r \in Injection(D, 1 .. N)
    <3> HIDE DEF rank
    <3> QED  BY <1>2, <1>4 DEF Injection, IsInjective
  <2>2. IsFiniteSet(1 .. N) /\ Cardinality(1 .. N) = N
    BY <1>1, FS_Interval
  <2> HIDE DEF r
  <2> QED  BY <2>1, <2>2, FS_Injection
<1>6. \A n \in 1 .. N : pick(n) \in D /\ rank(pick(n)) = n
  <2>1. TAKE n \in 1 .. N
  <2>2. \E i \in D : rank(i) = n
    <3> HIDE DEF rank, N
    <3> QED  BY <1>5 DEF Surjection
  <2> HIDE DEF rank
  <2> QED  BY <2>2
<1>7. q = [n \in 1 .. N |-> f[pick(n)]]
  BY DEF InOrder
<1> HIDE DEF pick, rank, q, N
<1>8. q \in Seq(V) /\ DOMAIN q = 1 .. N
  <2>1. \A n \in 1 .. N : f[pick(n)] \in V
    BY <1>6
  <2> QED  BY <1>1, <1>7, <2>1
<1>9. \A n \in DOMAIN q : pick(n) \in D /\ q[n] = f[pick(n)]
  BY <1>6, <1>7, <1>8
<1>10. \A i \in D : rank(i) \in DOMAIN q /\ q[rank(i)] = f[i]
  BY <1>2, <1>4, <1>6, <1>7, <1>8
<1>11. Distinct(f) => Distinct(q)
  <2>1. SUFFICES ASSUME Distinct(f), NEW n \in DOMAIN q, NEW m \in DOMAIN q, q[n] = q[m]
                 PROVE  n = m \/ q[n] = "onResume"
    BY DEF Distinct
  <2>2. pick(n) = pick(m) \/ q[n] = "onResume"
    BY <2>1, <1>9 DEF Distinct
  <2> QED  BY <2>2, <1>6, <1>8
<1> QED  BY <1>8, <1>9, <1>10, <1>11 DEF q

-----------------------------------------------------------------------------
(* What a step does to the stack and to the token.                         *)

\* Frames that hold no token.
QuietFrames(fr) ==
  /\ fr \in Seq(Frames) /\ Shape(fr) /\ ~Carries(fr) /\ ~Flies(fr)
  /\ \A i \in DOMAIN fr : /\ fr[i].op # "aborted"
                          /\ fr[i].op = "action" => fr[i].arg = "onFailure"

\* The frames without a token that the steps push.
LEMMA QuietStacks ==
  /\ QuietFrames(<<>>)
  /\ \A f \in Frames : f.op \notin {"item", "aborted", "action", "flying"} /\ ~Continues(f.done)
       => QuietFrames(<<f>>)
  /\ QuietFrames(<<RunAction("onFailure", Nothing)>>)
  /\ QuietFrames(<<Abort>>)
<1>1. DOMAIN <<>> = {} /\ \A f : DOMAIN <<f>> = {1} /\ <<f>>[1] = f
  OBVIOUS
<1>2. QuietFrames(<<>>)
  BY <1>1, Stacks DEF QuietFrames
<1>3. ASSUME NEW f \in Frames,
             f.op \notin {"item", "aborted", "flying"},
             f.op = "action" => f.arg = "onFailure", ~Continues(f.done)
      PROVE  QuietFrames(<<f>>)
  <2>1. ~Carry(f)
    BY <1>3 DEF Carry
  <2> QED  BY <1>1, <1>3, <2>1, Stacks DEF QuietFrames
<1>4. QuietFrames(<<RunAction("onFailure", Nothing)>>)
  <2> DEFINE f == RunAction("onFailure", Nothing)
  <2>1. f \in Frames /\ f.op = "action" /\ f.arg = "onFailure" /\ ~Continues(f.done)
    BY SimpleFrames, CompletionTypes
  <2> HIDE DEF f
  <2>2. QuietFrames(<<f>>)
    BY <2>1, <1>3
  <2> QED  BY <2>2 DEF f
<1>5. QuietFrames(<<Abort>>)
  BY <1>3, SimpleFrames, CompletionTypes
<1> QED  BY <1>2, <1>3, <1>4, <1>5

\* The stack as the proofs below use it.
LEMMA TopFrame ==
  ASSUME TypeOK, ~Idle
  PROVE  /\ todo \in Seq(Frames) /\ todo # <<>>
         /\ Len(todo) \in Nat /\ Len(todo) > 0 /\ DOMAIN todo = 1 .. Len(todo) /\ 1 \in DOMAIN todo
         /\ Head(todo) = todo[1] /\ todo[1] \in Frames
         /\ active
BY DEF TypeOK, Idle

\* A frame that holds no token is replaced by such frames.
LEMMA QuietPush ==
  ASSUME TypeOK, StackInv, ~Idle, todo[1].op # "aborted", ~Carry(todo[1]),
         NEW fr, QuietFrames(fr), todo' = fr \o Tail(todo)
  PROVE  /\ todo' \in Seq(Frames)
         /\ Level(todo') = Level(todo)
         /\ Shape(todo')
         /\ (HeadIs("action") /\ todo[1].arg # "onFailure" => Carry(todo[1]))'
         /\ Carries(todo') <=> Carries(todo)
         /\ \A i \in DOMAIN todo' : Continues(todo'[i].done) =>
              \E j \in DOMAIN todo : Continues(todo[j].done)
<1>1. /\ todo \in Seq(Frames) /\ todo # <<>> /\ Len(todo) \in Nat /\ Len(todo) > 0
      /\ DOMAIN todo = 1 .. Len(todo)
  BY TopFrame
<1>2. fr \in Seq(Frames) /\ Shape(fr) /\ ~Carries(fr) /\ ~Flies(fr)
  BY DEF QuietFrames
<1>3. Shape(todo)
  BY DEF StackInv
<1>4. /\ todo' \in Seq(Frames)
      /\ Len(todo') = Len(fr) + Len(todo) - 1
      /\ \A i \in 1 .. Len(fr) : todo'[i] = fr[i]
      /\ \A i \in Len(fr) + 1 .. Len(todo') : todo'[i] = todo[i - Len(fr) + 1]
  BY <1>1, <1>2, Replaced
<1>5. /\ Shape(todo')
      /\ Carries(todo') => Carries(todo)
      /\ Carries(todo) => Carries(todo')
  BY <1>1, <1>2, <1>3, Pushed
<1>6. Level(todo') = Level(todo)
  <2>1. Level(fr) = 0
    BY <1>2, NoLevel DEF QuietFrames
  <2>2. /\ Level(todo) \in Nat
        /\ Level(fr \o Tail(todo)) = Level(fr) + Level(todo)
                                     - (IF todo[1].op = "aborted" THEN 1 ELSE 0)
    BY <1>1, <1>2, LevelPushed
  <2> QED  BY <2>1, <2>2
<1>7. DOMAIN todo' = 1 .. Len(todo') /\ Len(fr) \in Nat /\ DOMAIN fr = 1 .. Len(fr)
  BY <1>2, <1>4
<1>8. \A i \in DOMAIN todo' : i \in DOMAIN fr \/ i - Len(fr) + 1 \in 2 .. Len(todo)
  BY <1>1, <1>4, <1>7
<1>9. (HeadIs("action") /\ todo[1].arg # "onFailure" => Carry(todo[1]))'
  <2>1. SUFFICES ASSUME todo' # <<>>, todo'[1].op = "action"
                 PROVE  todo'[1].arg = "onFailure"
    BY DEF HeadIs
  <2>2. 1 \in DOMAIN todo'
    BY <1>4, <2>1
  <2>3. CASE 1 \in DOMAIN fr
    BY <2>1, <2>3, <1>4, <1>7 DEF QuietFrames
  <2>4. CASE 1 \notin DOMAIN fr
    <3>1. Len(fr) = 0 /\ 2 \in 2 .. Len(todo) /\ 1 \in Len(fr) + 1 .. Len(todo')
      BY <2>2, <2>4, <1>1, <1>4, <1>7
    <3>2. todo'[1] = todo[2]
      BY <3>1, <1>4
    <3>3. todo[2].op # "action"
      BY <3>1, <1>3 DEF Shape, Parked
    <3> QED  BY <2>1, <3>2, <3>3
  <2> QED  BY <2>3, <2>4
<1>10. ASSUME NEW i \in DOMAIN todo', Continues(todo'[i].done)
       PROVE  \E j \in DOMAIN todo : Continues(todo[j].done)
  <2>1. i \notin DOMAIN fr
    <3>1. \A j \in DOMAIN fr : ~Continues(fr[j].done)
      BY <1>2 DEF Carries, Carry
    <3> QED  BY <3>1, <1>10, <1>4, <1>7
  <2>2. i \in Len(fr) + 1 .. Len(todo') /\ i - Len(fr) + 1 \in DOMAIN todo
    BY <2>1, <1>1, <1>4, <1>7
  <2> QED  BY <2>2, <1>4, <1>10
<1> QED  BY <1>4, <1>5, <1>6, <1>9, <1>10

\* The frame that holds the token is the whole stack.
LEMMA TokenPush ==
  ASSUME TypeOK, StackInv, TokenInv, ~Idle, Carry(todo[1])
  PROVE  /\ Len(todo) = 1 /\ Tail(todo) = <<>>
         /\ \A fr \in Seq(Frames) : fr \o Tail(todo) = fr
         /\ Level(todo) = 0 /\ level = 0
         /\ Carries(todo) /\ ~SchedC /\ ~TimerC /\ ~LaterC /\ ~TrajC
         /\ active /\ valid /\ index >= 0
         /\ Continues(todo[1].done) => index < Len0
<1>1. /\ todo \in Seq(Frames) /\ todo # <<>> /\ 1 \in DOMAIN todo /\ active
      /\ todo[1] \in Frames /\ DOMAIN todo = 1 .. Len(todo)
  BY TopFrame
<1>2. /\ Len(todo) = 1 /\ Tail(todo) = <<>>
      /\ \A fr \in Seq(Frames) : fr \o Tail(todo) = fr
  BY <1>1, CarrierAlone DEF StackInv
<1>3. Carries(todo)
  BY <1>1 DEF Carries
<1>4. todo[1].op # "aborted"
  BY <1>1, FrameTypes, CompletionTypes DEF Carry
<1>5. Level(todo) = 0
  BY <1>1, <1>2, <1>4, NoLevel
<1> QED  BY <1>1, <1>2, <1>3, <1>5 DEF StackInv, TokenInv, OneToken, Token, Waits

\* No token appears in a step that moves none.
LEMMA TokensStay ==
  ASSUME TokenInv, UNCHANGED <<mission, valid, active, ownActive, index>>,
         Carries(todo') => Carries(todo),
         SchedC' => SchedC, TimerC' => TimerC, LaterC' => LaterC,
         TrajC' => TrajC /\ traj'.end = traj.end,
         \A i \in DOMAIN todo' : Continues(todo'[i].done) =>
              \E j \in DOMAIN todo : Continues(todo[j].done)
  PROVE  TokenInv'
<1>1. Len0' = Len0
  BY DEF Len0
<1>2. Waits' => Waits
  BY DEF Waits
<1>3. Token' => Token
  BY <1>2 DEF Token
<1>4. OneToken'
  BY <1>2 DEF OneToken, TokenInv
<1>5. (\A i \in DOMAIN todo : Continues(todo[i].done) => index < Len0)'
  BY <1>1 DEF TokenInv
<1>6. TrajC' => traj'.end < Len0'
  BY <1>1 DEF TokenInv
<1> QED  BY <1>1, <1>2, <1>3, <1>4, <1>5, <1>6 DEF TokenInv

-----------------------------------------------------------------------------
(* The core of the invariant: every step keeps the types, the shape of the *)
(* stack and the one token.                                                *)

\* A step that replaces a frame without a token, and changes neither the
\* mission nor the index.
LEMMA QuietStep ==
  ASSUME CoreInv, ~Idle, todo[1].op # "aborted", ~Carry(todo[1]),
         NEW fr, QuietFrames(fr), todo' = fr \o Tail(todo),
         UNCHANGED <<mission, valid, active, ownActive, index, level>>,
         SchedC' => SchedC, TimerC' => TimerC, LaterC' => LaterC,
         TrajC' => TrajC /\ traj'.end = traj.end
  PROVE  /\ todo' \in Seq(Frames) /\ (Idle \/ active)'
         /\ StackInv' /\ TokenInv'
<1>1. /\ todo' \in Seq(Frames)
      /\ Level(todo') = Level(todo)
      /\ Shape(todo')
      /\ (HeadIs("action") /\ todo[1].arg # "onFailure" => Carry(todo[1]))'
      /\ Carries(todo') <=> Carries(todo)
      /\ \A i \in DOMAIN todo' : Continues(todo'[i].done) =>
           \E j \in DOMAIN todo : Continues(todo[j].done)
  BY QuietPush DEF CoreInv
<1>2. StackInv'
  BY <1>1 DEF StackInv, CoreInv
<1>3. TokenInv'
  BY <1>1, TokensStay DEF CoreInv
<1>4. active'
  BY TopFrame DEF CoreInv
<1> QED  BY <1>1, <1>2, <1>3, <1>4

\* A step that leaves no frame, one or two.
LEMMA NoFrame ==
  ASSUME todo' = <<>>, level' = 0
  PROVE  /\ StackInv' /\ todo' \in Seq(Frames) /\ ~Carries(todo') /\ DOMAIN todo' = {}
         /\ Idle'
<1>1. <<>> \in Seq(Frames) /\ Shape(<<>>) /\ ~Carries(<<>>)
  BY Stacks
<1>2. DOMAIN <<>> = {}
  OBVIOUS
<1>3. Level(<<>>) = 0
  BY <1>1, <1>2, NoLevel
<1> QED  BY <1>1, <1>2, <1>3 DEF StackInv, HeadIs, Idle

\* A callback that comes calls one function, or one and then another.
LEMMA OneFrame ==
  ASSUME NEW f \in Frames, todo' = <<f>>, level' = 0, f.op # "aborted",
         f.op = "action" /\ f.arg # "onFailure" => Carry(f)
  PROVE  /\ StackInv' /\ todo' \in Seq(Frames)
         /\ Carries(todo') <=> Carry(f)
         /\ DOMAIN todo' = {1} /\ todo'[1] = f
<1>1. /\ <<f>> \in Seq(Frames) /\ <<f>>[1] = f /\ <<f>> # <<>> /\ Shape(<<f>>)
      /\ Carries(<<f>>) <=> Carry(f)
  BY Stacks
<1>2. DOMAIN <<f>> = {1}
  OBVIOUS
<1>3. Level(<<f>>) = 0
  BY <1>1, <1>2, NoLevel
<1> QED  BY <1>1, <1>2, <1>3 DEF StackInv, HeadIs

LEMMA TwoFrames ==
  ASSUME NEW f \in Frames, NEW g \in Frames, todo' = <<f, g>>, level' = 0,
         f.op \notin {"action", "aborted", "flying"}, ~Carry(f),
         g.op # "aborted", g.op \in Parked
  PROVE  /\ StackInv' /\ todo' \in Seq(Frames)
         /\ Carries(todo') <=> Carry(g)
         /\ DOMAIN todo' = {1, 2} /\ todo'[1] = f /\ todo'[2] = g
<1>1. /\ <<f, g>> \in Seq(Frames) /\ Len(<<f, g>>) = 2
      /\ <<f, g>>[1] = f /\ <<f, g>>[2] = g /\ <<f, g>> # <<>>
      /\ Shape(<<f, g>>)
      /\ Carries(<<f, g>>) <=> Carry(g)
  BY Stacks
<1>2. DOMAIN <<f, g>> = {1, 2}
  BY <1>1
<1>3. Level(<<f, g>>) = 0
  <2>1. \A i \in DOMAIN <<f, g>> : <<f, g>>[i].op # "aborted"
    BY <1>1, <1>2
  <2> QED  BY <1>1, <2>1, NoLevel
<1> QED  BY <1>1, <1>2, <1>3 DEF StackInv, HeadIs

\* The rests of runTrajectory() and of a hold keep CoreInv.
LEMMA CoreFlying == CoreInv /\ Flying => CoreInv'
<1> SUFFICES ASSUME CoreInv, Flying PROVE CoreInv'
  OBVIOUS
<1> USE DEF vars, missionVars, stateVars, runVars, pendingVars, worldVars, historyVars
<1>1. /\ ~Idle /\ Head(todo) = todo[1] /\ todo[1] \in Frames /\ todo[1].op = "flying"
  BY TopFrame DEF Flying, Top, CoreInv
<1>2. ~Carry(todo[1])
  BY <1>1, FrameTypes, CompletionTypes DEF Carry
<1>3. todo' = <<>> \o Tail(todo)
  BY DEF Flying, Then
<1>4. /\ todo' \in Seq(Frames) /\ (Idle \/ active)'
      /\ StackInv' /\ TokenInv'
  BY <1>1, <1>2, <1>3, QuietStep, QuietStacks
     DEF Flying, SchedC, TimerC, LaterC, TrajC
<1>5. TypeOK'
  BY <1>4 DEF Flying, TypeOK, CoreInv, Idle, Len0
<1> QED  BY <1>4, <1>5 DEF CoreInv

LEMMA CoreHoldStarts == CoreInv /\ HoldStarts => CoreInv'
<1> SUFFICES ASSUME CoreInv, HoldStarts PROVE CoreInv'
  OBVIOUS
<1> USE DEF vars, missionVars, stateVars, runVars, pendingVars, worldVars, historyVars
<1>1. /\ ~Idle /\ Head(todo) = todo[1] /\ todo[1] \in Frames /\ todo[1].op = "hold"
      /\ active
  BY TopFrame DEF HoldStarts, Top, CoreInv
<1>2. todo[1].done \in Completions
  BY <1>1, FrameTypes
<1>3. CASE Carry(todo[1])
  <2>1. /\ \A fr \in Seq(Frames) : fr \o Tail(todo) = fr
        /\ level = 0 /\ valid /\ index >= 0
        /\ ~SchedC /\ ~LaterC /\ ~TrajC
        /\ Continues(todo[1].done) /\ index < Len0
    BY <1>1, <1>3, TokenPush DEF CoreInv, Carry
  <2>2. todo' = <<>>
    BY <2>1, Stacks DEF HoldStarts, Then
  <2>3. StackInv'
    BY <2>1, <2>2, NoFrame DEF HoldStarts
  <2>4. TokenInv'
    BY <1>1, <2>1, <2>2, Stacks
       DEF HoldStarts, TokenInv, CoreInv, OneToken, Token, Waits, SchedC, TimerC, LaterC,
           TrajC, Len0, Done
  <2>5. TypeOK'
    BY <1>1, <1>2, <2>2, Stacks DEF HoldStarts, TypeOK, CoreInv, Idle, Len0, Done
  <2> QED  BY <2>3, <2>4, <2>5 DEF CoreInv
<1>4. CASE ~Carry(todo[1])
  <2>1. ~TimerC'
    BY <1>1, <1>4 DEF HoldStarts, Done, TimerC, Carry
  <2>2. todo' = <<>> \o Tail(todo)
    BY DEF HoldStarts, Then
  <2>3. /\ todo' \in Seq(Frames) /\ (Idle \/ active)'
        /\ StackInv' /\ TokenInv'
    BY <1>1, <1>4, <2>1, <2>2, QuietStep, QuietStacks
       DEF HoldStarts, SchedC, TimerC, LaterC, TrajC
  <2>4. TypeOK'
    BY <1>1, <1>2, <2>3 DEF HoldStarts, TypeOK, CoreInv, Idle, Len0, Done
  <2> QED  BY <2>3, <2>4 DEF CoreInv
<1> QED  BY <1>3, <1>4

\* The token stays in the stack.
LEMMA TokenMoves ==
  ASSUME CoreInv, ~Idle, Carry(todo[1]),
         UNCHANGED <<mission, valid, active, ownActive, sched, timer, later, traj>>,
         index' \in Int, index' >= 0,
         \A i \in DOMAIN todo' : Continues(todo'[i].done) => index' < Len0
  PROVE  TokenInv'
<1>1. /\ ~SchedC /\ ~TimerC /\ ~LaterC /\ ~TrajC /\ active /\ valid
  BY TokenPush DEF CoreInv
<1>2. ~SchedC' /\ ~TimerC' /\ ~LaterC' /\ ~TrajC' /\ Len0' = Len0
  BY <1>1 DEF SchedC, TimerC, LaterC, TrajC, Len0
<1> QED  BY <1>1, <1>2 DEF TokenInv, CoreInv, OneToken, Token, Waits

\* The states that are stored.
StoredTypes(st) ==
  IsFiniteSet(DOMAIN st) /\ DOMAIN st \subseteq Nat /\ st \in [DOMAIN st -> Continuous]

\* The stored states in the order of their ids.
LEMMA StoredInOrder ==
  ASSUME NEW f, StoredTypes(f)
  PROVE  /\ InOrder(f) \in Seq(Continuous)
         /\ \A n \in DOMAIN InOrder(f) : \E i \in DOMAIN f : InOrder(f)[n] = f[i]
         /\ \A i \in DOMAIN f : \E n \in DOMAIN InOrder(f) : InOrder(f)[n] = f[i]
         /\ Distinct(f) => Distinct(InOrder(f))
<1>1. IsFiniteSet(DOMAIN f) /\ DOMAIN f \subseteq Nat /\ f \in [DOMAIN f -> Continuous]
  BY DEF StoredTypes
<1>2. InOrder(f) \in Seq(Continuous)
  BY <1>1, InOrderLists
<1>3. \A n \in DOMAIN InOrder(f) : \E i \in DOMAIN f : InOrder(f)[n] = f[i]
  BY <1>1, InOrderLists
<1>4. \A i \in DOMAIN f : \E n \in DOMAIN InOrder(f) : InOrder(f)[n] = f[i]
  BY <1>1, InOrderLists
<1>5. Distinct(f) => Distinct(InOrder(f))
  BY <1>1, InOrderLists
<1> QED  BY <1>2, <1>3, <1>4, <1>5

\* Removing and adding states keeps the types of what is stored.
LEMMA StoredWithout ==
  ASSUME NEW f, StoredTypes(f), NEW ids
  PROVE  LET g == Without(f, ids)
         IN  /\ StoredTypes(g)
             /\ DOMAIN g = DOMAIN f \ ids
             /\ \A i \in DOMAIN g : g[i] = f[i]
<1>1. DOMAIN f \ ids \in SUBSET DOMAIN f
  OBVIOUS
<1>2. IsFiniteSet(DOMAIN f \ ids)
  BY <1>1, FS_Subset DEF StoredTypes
<1> QED  BY <1>2 DEF StoredTypes, Without

LEMMA StoredWith ==
  ASSUME StoredTypes(stored), NEW id \in Nat, NEW name \in Continuous
  PROVE  LET g == With(id, name)
         IN  /\ StoredTypes(g)
             /\ DOMAIN g = DOMAIN stored \cup {id}
             /\ g[id] = name
             /\ \A i \in DOMAIN stored : i # id => g[i] = stored[i]
<1>1. IsFiniteSet(DOMAIN stored \cup {id})
  BY FS_AddElement DEF StoredTypes
<1> QED  BY <1>1 DEF StoredTypes, With

LEMMA NothingStored == StoredTypes(<<>>) /\ DOMAIN <<>> = {}
BY FS_EmptySet DEF StoredTypes

\* storeState() keeps the types.
LEMMA StateStored ==
  ASSUME TypeOK, NEW name \in Continuous, StoreState(name)
  PROVE  /\ StoredTypes(stored')
         /\ nextId' \in Nat
         /\ keeper' \in [Continuous -> Nat \cup {NoId}]
<1>1. StoredTypes(stored) /\ nextId \in Nat
  BY DEF TypeOK, StoredTypes
<1>2. StoredTypes(With(nextId, name))
  BY <1>1, StoredWith
<1>3. StoredTypes(stored')
  BY <1>2, StoredWithout DEF StoreState
<1>4. keeper' \in [Continuous -> Nat \cup {NoId}]
  BY <1>1 DEF StoreState, TypeOK
<1> QED  BY <1>1, <1>3, <1>4 DEF StoreState

\* The items of the mission.
LEMMA MissionTypes ==
  ASSUME TypeOK
  PROVE  /\ mission \in Seq(Items) /\ Len0 \in Nat /\ index \in Int
         /\ \A i \in DOMAIN mission : mission[i] \in Items
<1>1. Missions \subseteq Seq(Items)
  BY MissionAssumption
<1>2. <<>> \in Seq(Items)
  OBVIOUS
<1>3. mission \in Seq(Items)
  BY <1>1, <1>2 DEF TypeOK
<1>4. Len0 \in Nat /\ \A i \in DOMAIN mission : mission[i] \in Items
  BY <1>3 DEF Len0
<1>5. index \in Int
  BY <1>4 DEF TypeOK, NoIndex
<1> QED  BY <1>3, <1>4, <1>5

\* runTrajectory() puts its own mode, if need be, before its rest.
LEMMA FlyFrames ==
  ASSUME \A fr \in Seq(Frames) : fr \o Tail(todo) = fr, level' = 0,
         Then((IF activeMode = "own" THEN <<>> ELSE <<RunMode("own", Nothing)>>)
              \o <<Frame("flying", "", Nothing)>>)
  PROVE  /\ StackInv' /\ todo' \in Seq(Frames) /\ ~Carries(todo') /\ Flies(todo')
         /\ \A i \in DOMAIN todo' : ~Continues(todo'[i].done)
         /\ \/ activeMode = "own" /\ todo' = <<Frame("flying", "", Nothing)>>
            \/ todo' = <<RunMode("own", Nothing), Frame("flying", "", Nothing)>>
<1> DEFINE f == Frame("flying", "", Nothing)
           m == RunMode("own", Nothing)
<1>1. /\ f \in Frames /\ f.op = "flying" /\ f.done = Nothing /\ ~Continues(Nothing)
      /\ m \in Frames /\ m.op = "mode" /\ m.done = Nothing
  BY SimpleFrames, CompletionTypes
<1>2. todo' = ((IF activeMode = "own" THEN <<>> ELSE <<m>>) \o <<f>>) \o Tail(todo)
  BY DEF Then
<1> HIDE DEF f, m
<1>3. ~Carry(f) /\ ~Carry(m)
  BY <1>1 DEF Carry
<1>4. CASE activeMode = "own"
  <2>1. <<>> \o <<f>> = <<f>>
    BY Single, Zenon
  <2>2. <<f>> \in Seq(Frames)
    BY <1>1, Stacks
  <2>3. todo' = <<f>>
    BY <1>2, <1>4, <2>1, <2>2
  <2>4. /\ StackInv' /\ todo' \in Seq(Frames) /\ ~Carries(todo')
        /\ DOMAIN todo' = {1} /\ todo'[1] = f
    BY <1>1, <1>3, <2>3, OneFrame
  <2>5. Flies(todo')
    BY <1>1, <2>3, Stacks
  <2>6. \A i \in DOMAIN todo' : ~Continues(todo'[i].done)
    BY <1>1, <2>4
  <2> QED  BY <1>4, <2>3, <2>4, <2>5, <2>6 DEF f
<1>5. CASE activeMode # "own"
  <2>1. <<m>> \o <<f>> = <<m, f>>
    BY Pair, Zenon
  <2>2. <<m, f>> \in Seq(Frames)
    BY <1>1, Stacks
  <2>3. todo' = <<m, f>>
    BY <1>2, <1>5, <2>1, <2>2
  <2>4. f.op \in Parked /\ f.op # "aborted" /\ Flies(todo')
    BY <1>1, <2>3, Stacks DEF Parked
  <2>5. /\ StackInv' /\ todo' \in Seq(Frames) /\ ~Carries(todo')
        /\ DOMAIN todo' = {1, 2} /\ todo'[1] = m /\ todo'[2] = f
    BY <1>1, <1>3, <2>3, <2>4, TwoFrames
  <2>6. \A i \in DOMAIN todo' : ~Continues(todo'[i].done)
    BY <1>1, <2>5
  <2> QED  BY <2>3, <2>4, <2>5, <2>6 DEF f, m
<1> QED  BY <1>4, <1>5

-----------------------------------------------------------------------------
\* The steps of onActivate() and runCurrentMissionItem() keep CoreInv.
LEMMA CoreBegin == CoreInv /\ Begin => CoreInv'
<1> SUFFICES ASSUME CoreInv, Begin PROVE CoreInv'
  OBVIOUS
<1> USE DEF missionVars, stateVars, runVars, pendingVars, worldVars, historyVars
<1>1. /\ ~Idle /\ Head(todo) = todo[1] /\ todo[1] \in Frames /\ todo[1].op = "begin"
      /\ active
  BY TopFrame DEF Begin, Top, CoreInv
<1>2. /\ todo[1].done \in Begins
      /\ Continues(todo[1].done) <=> todo[1].done.valid
  BY <1>1, FrameTypes, CompletionTypes DEF Continues
<1>3. StoredTypes(stored')
  <2>1. StoredTypes(stored)
    BY DEF CoreInv, TypeOK, StoredTypes
  <2> DEFINE kept == {i \in DOMAIN stored : stored[i] = "onResume"}
             ids  == {i \in kept : \A j \in kept : i <= j}
  <2>2. stored' = stored \/ stored' = Without(stored, ids)
    BY DEF Begin
  <2> HIDE DEF ids
  <2>3. StoredTypes(Without(stored, ids))
    BY <2>1, StoredWithout
  <2> QED  BY <2>1, <2>2, <2>3
<1>4. CASE ~todo[1].done.valid
  <2>1. ~Carry(todo[1]) /\ todo' = <<>> \o Tail(todo)
    BY <1>1, <1>2, <1>4 DEF Carry, Begin, Then, Done
  <2>2. /\ todo' \in Seq(Frames) /\ (Idle \/ active)'
        /\ StackInv' /\ TokenInv'
    BY <1>1, <2>1, QuietStep, QuietStacks DEF Begin, SchedC, TimerC, LaterC, TrajC
  <2>3. TypeOK'
    BY <2>2, <1>3 DEF Begin, TypeOK, CoreInv, Idle, Len0, StoredTypes
  <2> QED  BY <2>2, <2>3 DEF CoreInv
<1>5. CASE todo[1].done.valid
  <2>1. Carry(todo[1])
    BY <1>2, <1>5 DEF Carry
  <2>2. /\ \A fr \in Seq(Frames) : fr \o Tail(todo) = fr
        /\ level = 0 /\ valid /\ index >= 0 /\ index < Len0
    BY <1>1, <1>2, <1>5, <2>1, TokenPush DEF CoreInv
  <2>3. index \in Int
    BY DEF CoreInv, TypeOK
  <2>4. /\ StackInv' /\ todo' \in Seq(Frames)
    <3>1. CASE OnResume = "none" \/ Arg = "start"
      <4>1. /\ RunStored \in Frames /\ RunStored.op = "stored" /\ ~Carry(RunStored)
            /\ RunItem \in Frames /\ RunItem.op = "item"
        BY SimpleFrames, CompletionTypes DEF Carry
      <4>2. <<RunStored, RunItem>> \in Seq(Frames)
        BY <4>1
      <4>3. todo' = <<RunStored, RunItem>> /\ level' = 0
        BY <2>2, <3>1, <4>2, <1>1, <1>5 DEF Begin, Then, Done
      <4>4. /\ RunStored.op \notin {"action", "aborted", "flying"}
            /\ RunItem.op # "aborted" /\ RunItem.op \in Parked
        BY <4>1 DEF Parked
      <4> QED  BY <4>1, <4>3, <4>4, TwoFrames
    <3>2. CASE ~(OnResume = "none" \/ Arg = "start")
      <4> DEFINE f == RunAction("onResume", [Closure("resumed") EXCEPT !.prev = index])
      <4>1. f \in Frames /\ f.op = "action" /\ Carry(f)
        <5> DEFINE c == [Closure("resumed") EXCEPT !.prev = index]
        <5>1. c \in Completions /\ Continues(c)
          BY <2>3, ResumedClosure
        <5> HIDE DEF c
        <5>2. /\ RunAction("onResume", c) \in Frames
              /\ RunAction("onResume", c).op = "action" /\ RunAction("onResume", c).done = c
          BY <5>1, NewAction
        <5> QED  BY <5>1, <5>2 DEF Carry, c
      <4>2. todo' = <<f>> \o Tail(todo) /\ level' = 0
        BY <1>5, <2>2, <3>2 DEF Begin, Then, Done
      <4> HIDE DEF f
      <4>3. <<f>> \in Seq(Frames)
        BY <4>1
      <4>4. todo' = <<f>>
        BY <4>2, <4>3, <2>2
      <4> QED  BY <4>1, <4>2, <4>4, OneFrame
    <3> QED  BY <3>1, <3>2
  <2>5. TokenInv'
    BY <1>1, <2>1, <2>2, <2>3, TokenMoves DEF Begin
  <2>6. TypeOK'
    BY <1>1, <2>4, <1>3 DEF Begin, TypeOK, CoreInv, Idle, Len0, StoredTypes
  <2> QED  BY <2>4, <2>5, <2>6 DEF CoreInv
<1> QED  BY <1>4, <1>5

LEMMA CoreItemRuns == CoreInv /\ ItemRuns => CoreInv'
<1> SUFFICES ASSUME CoreInv, ItemRuns PROVE CoreInv'
  OBVIOUS
<1> USE DEF missionVars, stateVars, runVars, pendingVars, worldVars, historyVars
<1>1. /\ ~Idle /\ Head(todo) = todo[1] /\ todo[1] \in Frames /\ todo[1].op = "item"
      /\ active
  BY TopFrame DEF ItemRuns, Top, CoreInv
<1>2. Carry(todo[1])
  BY <1>1 DEF Carry
<1>3. /\ \A fr \in Seq(Frames) : fr \o Tail(todo) = fr
      /\ level = 0 /\ valid /\ index >= 0
      /\ ~SchedC /\ ~TimerC /\ ~LaterC /\ ~TrajC
  BY <1>1, <1>2, TokenPush DEF CoreInv
<1>4. /\ mission \in Seq(Items) /\ Len0 \in Nat /\ index \in Int
      /\ \A i \in DOMAIN mission : mission[i] \in Items /\ mission[i] # "undefined"
  BY <1>3, MissionTypes DEF CoreInv, TokenInv
<1>5. level' = 0
  BY <1>3 DEF ItemRuns
<1>6. CASE /\ ~IndexValid(index)
           /\ Then(IF activeMode = "own" \/ index = NoIndex
                   THEN <<RunMode("Loiter", Nothing)>> ELSE <<>>)
           /\ UNCHANGED traj
  <2>1. /\ RunMode("Loiter", Nothing) \in Frames /\ RunMode("Loiter", Nothing).op = "mode"
        /\ ~Carry(RunMode("Loiter", Nothing)) /\ ~Continues(RunMode("Loiter", Nothing).done)
    BY SimpleFrames, CompletionTypes DEF Carry
  <2>2. todo' = <<>> \/ todo' = <<RunMode("Loiter", Nothing)>>
    BY <1>3, <1>6, <2>1, Stacks DEF Then
  <2>3. StackInv' /\ todo' \in Seq(Frames)
        /\ \A i \in DOMAIN todo' : ~Continues(todo'[i].done)
    BY <1>5, <2>1, <2>2, NoFrame, OneFrame
  <2>4. TokenInv'
    BY <1>1, <1>2, <1>3, <1>4, <1>6, <2>3, TokenMoves DEF ItemRuns
  <2>5. TypeOK'
    BY <1>1, <1>6, <2>3 DEF ItemRuns, TypeOK, CoreInv, Idle, Len0
  <2> QED  BY <2>3, <2>4, <2>5 DEF CoreInv
<1>7. CASE /\ index \in Waypoints
           /\ Fly(index, SegmentEnd(index), Closure("segment"))
  <2>1. SegmentEnd(index) \in index .. Len0 - 1
    BY <1>4, <1>7, SegmentEnds
  <2>2. index \in 0 .. Len0 - 1
    BY <1>7 DEF Waypoints
  <2>3. StackInv' /\ todo' \in Seq(Frames) /\ ~Carries(todo')
        /\ \A i \in DOMAIN todo' : ~Continues(todo'[i].done)
    BY <1>3, <1>5, <1>7, FlyFrames DEF Fly
  <2>4. /\ traj' = [at |-> index, end |-> SegmentEnd(index), options |-> options,
                    done |-> Closure("segment")]
    BY <1>7 DEF Fly
  <2>7. /\ TrajC' /\ ~SchedC' /\ ~TimerC' /\ ~LaterC' /\ traj'.end < Len0
    BY <1>3, <1>4, <2>1, <2>2, <2>4, NewClosures
       DEF ItemRuns, TrajC, SchedC, TimerC, LaterC, NoIndex
  <2>5. TokenInv'
    BY <1>1, <1>3, <2>2, <2>3, <2>7
       DEF ItemRuns, TokenInv, CoreInv, OneToken, Token, Waits, Len0
  <2>6. TypeOK'
    <3>1. traj' \in [at : Int, end : Int, options : BOOLEAN, done : Completions \cup Segments]
      BY <1>4, <2>1, <2>2, <2>4, NewClosures DEF CoreInv, TypeOK
    <3>2. traj'.at \in NoIndex .. traj'.end
      BY <1>4, <2>1, <2>2, <2>4 DEF NoIndex
    <3> QED  BY <1>1, <2>3, <3>1, <3>2 DEF ItemRuns, TypeOK, CoreInv, Idle, Len0
  <2> QED  BY <2>3, <2>5, <2>6 DEF CoreInv
<1>8. CASE /\ IndexValid(index) /\ index \notin Waypoints
           /\ Then(<<RunAction(Item(index), Closure("next"))>>)
           /\ UNCHANGED traj
  <2>1. Item(index) \in Actions /\ index < Len0
    BY <1>4, <1>8 DEF IndexValid, Waypoints, Item, Items, Len0
  <2> DEFINE f == RunAction(Item(index), Closure("next"))
  <2>2. f \in Frames /\ f.op = "action" /\ f.arg = Item(index) /\ Carry(f)
    <3> DEFINE c == Closure("next")
    <3>1. c \in Completions /\ Continues(c)
      BY NewClosures
    <3> HIDE DEF c
    <3>2. /\ RunAction(Item(index), c) \in Frames
          /\ RunAction(Item(index), c).op = "action" /\ RunAction(Item(index), c).done = c
          /\ RunAction(Item(index), c).arg = Item(index)
      BY <2>1, <3>1, NewAction
    <3> QED  BY <3>1, <3>2 DEF Carry, c
  <2>3. todo' = <<f>> \o Tail(todo)
    BY <1>8 DEF Then
  <2> HIDE DEF f
  <2>4. todo' = <<f>>
    BY <1>3, <2>2, <2>3, Stacks
  <2>5. StackInv' /\ todo' \in Seq(Frames)
    BY <1>5, <2>2, <2>4, OneFrame
  <2>6. TokenInv'
    BY <1>1, <1>2, <1>3, <1>4, <1>8, <2>1, TokenMoves DEF ItemRuns
  <2>7. TypeOK'
    BY <1>1, <1>8, <2>5 DEF ItemRuns, TypeOK, CoreInv, Idle, Len0
  <2> QED  BY <2>5, <2>6, <2>7 DEF CoreInv
<1> QED  BY <1>6, <1>7, <1>8 DEF ItemRuns

-----------------------------------------------------------------------------
(* The frame with the token is replaced by one frame or two.               *)

\* By one frame.
LEMMA ReplaceOne ==
  ASSUME CoreInv, ~Idle, Carry(todo[1]), NEW f \in Frames, Then(<<f>>),
         f.op # "aborted", f.op = "action" /\ f.arg # "onFailure" => Carry(f),
         UNCHANGED <<mission, valid, active, ownActive, level, sched, timer, later, traj>>,
         index' \in Int, index' >= 0, Continues(f.done) => index' < Len0
  PROVE  /\ StackInv' /\ TokenInv' /\ todo' \in Seq(Frames) /\ (Idle \/ active)'
         /\ todo' = <<f>>
<1>1. /\ \A fr \in Seq(Frames) : fr \o Tail(todo) = fr
      /\ level = 0 /\ active
  BY TokenPush DEF CoreInv
<1>2. todo' = <<f>>
  <2>1. <<f>> \in Seq(Frames)
    BY Stacks
  <2> QED  BY <1>1, <2>1 DEF Then
<1>3. /\ StackInv' /\ todo' \in Seq(Frames)
      /\ DOMAIN todo' = {1} /\ todo'[1] = f
  BY <1>1, <1>2, OneFrame
<1>4. TokenInv'
  BY <1>3, TokenMoves
<1> QED  BY <1>1, <1>2, <1>3, <1>4

\* By two frames, of which the second takes the token over.
LEMMA ReplaceTwo ==
  ASSUME CoreInv, ~Idle, Carry(todo[1]), NEW f \in Frames, NEW g \in Frames, Then(<<f, g>>),
         f.op \notin {"action", "aborted", "flying"}, ~Carry(f),
         g.op # "aborted", g.op \in Parked,
         UNCHANGED <<mission, valid, active, ownActive, level, sched, timer, later, traj>>,
         index' \in Int, index' >= 0, Continues(g.done) => index' < Len0
  PROVE  /\ StackInv' /\ TokenInv' /\ todo' \in Seq(Frames) /\ (Idle \/ active)'
         /\ todo' = <<f, g>>
<1>1. /\ \A fr \in Seq(Frames) : fr \o Tail(todo) = fr
      /\ level = 0 /\ active
  BY TokenPush DEF CoreInv
<1>2. todo' = <<f, g>>
  <2>1. <<f, g>> \in Seq(Frames)
    BY Stacks
  <2> QED  BY <1>1, <2>1 DEF Then
<1>3. /\ StackInv' /\ todo' \in Seq(Frames)
      /\ DOMAIN todo' = {1, 2} /\ todo'[1] = f /\ todo'[2] = g
  BY <1>1, <1>2, TwoFrames
<1>4. ~Continues(f.done)
  BY DEF Carry
<1>5. TokenInv'
  BY <1>3, <1>4, TokenMoves
<1> QED  BY <1>1, <1>2, <1>3, <1>5

\* An action that runs holds the token, unless it is restored or onFailure.
LEMMA ActionTop ==
  ASSUME CoreInv, NEW name, Action(name)
  PROVE  /\ ~Idle /\ Head(todo) = todo[1] /\ todo[1] \in Frames /\ active
         /\ Done = todo[1].done /\ Done \in Completions /\ Done \in Closures
         /\ \/ todo[1].op = "action" /\ itemState' = "Other" /\ ~Top("restore")
            \/ /\ todo[1].op = "restore" /\ name \in Restorable /\ Top("restore")
               /\ ~Carry(todo[1]) /\ Done = Nothing /\ itemState' = itemState
         /\ todo[1].op = "action" /\ name # "onFailure" =>
              /\ Carry(todo[1]) /\ Continues(Done)
              /\ valid /\ index >= 0 /\ index < Len0
         /\ Len0 \in Nat /\ index \in Int
<1>1. /\ ~Idle /\ Head(todo) = todo[1] /\ todo[1] \in Frames /\ active
      /\ todo[1].op \in {"action", "restore"} /\ todo[1].arg = name /\ todo # <<>>
  BY TopFrame DEF CoreInv, Action, Top, Arg
<1>2. /\ Done = todo[1].done /\ Done \in Completions /\ Done \in Closures
  BY <1>1, FrameTypes, CompletionTypes DEF Done
<1>3. \/ todo[1].op = "action" /\ itemState' = "Other" /\ ~Top("restore")
      \/ /\ todo[1].op = "restore" /\ name \in Restorable /\ Top("restore")
         /\ ~Carry(todo[1]) /\ Done = Nothing /\ itemState' = itemState
  BY <1>1, <1>2, FrameTypes, CompletionTypes DEF Action, Top, Carry
<1>4. todo[1].op = "action" /\ name # "onFailure" =>
        /\ Carry(todo[1]) /\ Continues(Done)
        /\ valid /\ index >= 0 /\ index < Len0
  BY <1>1, <1>2, TokenPush DEF CoreInv, StackInv, HeadIs, Carry
<1>5. Len0 \in Nat /\ index \in Int
  BY MissionTypes DEF CoreInv
<1> QED  BY <1>1, <1>2, <1>3, <1>4, <1>5

\* runMode() and the actions keep CoreInv.
LEMMA CoreModeRuns == CoreInv /\ ModeRuns => CoreInv'
<1> SUFFICES ASSUME CoreInv, ModeRuns PROVE CoreInv'
  OBVIOUS
<1> USE DEF missionVars, stateVars, runVars, pendingVars, worldVars, historyVars
<1>1. /\ ~Idle /\ Head(todo) = todo[1] /\ todo[1] \in Frames /\ todo[1].op = "mode"
      /\ active
  BY TopFrame DEF ModeRuns, Top, CoreInv
<1>2. Done = todo[1].done /\ Done \in Closures /\ Arg \in Modes /\ Nothing \in Closures
  BY <1>1, FrameTypes, CompletionTypes DEF Done, Arg
<1>3. /\ sched' \in [mode : Modes \cup {NoMode}, done : Closures]
      /\ activeMode' \in Modes \cup {NoMode} /\ nav' \in Modes
      /\ itemState' = "Other"
  BY <1>2 DEF ModeRuns, NoSched, CoreInv, TypeOK
<1>4. SUFFICES /\ StackInv' /\ TokenInv' /\ todo' \in Seq(Frames) /\ (Idle \/ active)'
  <2>1. TypeOK'
    BY <1>1, <1>3, <1>4 DEF ModeRuns, TypeOK, CoreInv, Len0
  <2> QED  BY <2>1, <1>4 DEF CoreInv
<1>5. UNCHANGED <<mission, valid, active, ownActive, index, level, traj, timer, later>>
  BY DEF ModeRuns
<1>6. CASE Carry(todo[1])
  <2>1. /\ \A fr \in Seq(Frames) : fr \o Tail(todo) = fr
        /\ level = 0 /\ active /\ valid /\ index >= 0 /\ index < Len0
        /\ ~SchedC /\ ~TimerC /\ ~LaterC /\ ~TrajC
        /\ Continues(Done)
    BY <1>1, <1>2, <1>6, TokenPush DEF CoreInv, Carry
  <2>2. Done.fail = "abort"
    BY <1>2, <2>1, CompletionTypes DEF Continues
  <2>3. CASE sched' = [mode |-> Arg, done |-> Done] /\ Then(<<>>)
    <3>1. todo' = <<>>
      BY <2>1, <2>3, Stacks DEF Then
    <3>2. /\ StackInv' /\ todo' \in Seq(Frames) /\ ~Carries(todo') /\ DOMAIN todo' = {}
      BY <1>5, <2>1, <3>1, NoFrame
    <3>3. /\ ~TimerC' /\ ~LaterC' /\ ~TrajC' /\ Len0' = Len0
      BY <1>5, <2>1 DEF TimerC, LaterC, TrajC, Len0
    <3>4. TokenInv'
      BY <1>5, <2>1, <3>2, <3>3 DEF TokenInv, CoreInv, OneToken, Token, Waits
    <3> QED  BY <3>2, <3>4, <1>1, <1>5
  <2>4. CASE sched' = NoSched /\ Then(ModeFailed(Done))
    <3>1. Then(<<Abort>>)
      BY <2>2, <2>4 DEF ModeFailed
    <3>2. todo' = <<Abort>> /\ Abort \in Frames /\ Abort.op = "abort" /\ ~Continues(Abort.done)
      <4>1. Abort \in Frames /\ Abort.op = "abort" /\ ~Continues(Abort.done)
        BY SimpleFrames, CompletionTypes
      <4>2. <<Abort>> \in Seq(Frames)
        BY <4>1, Stacks
      <4> QED  BY <2>1, <3>1, <4>1, <4>2 DEF Then
    <3>3. /\ StackInv' /\ todo' \in Seq(Frames) /\ DOMAIN todo' = {1} /\ todo'[1] = Abort
          /\ ~Carries(todo')
      BY <1>5, <2>1, <3>2, OneFrame DEF Carry
    <3>4. /\ ~SchedC' /\ ~TimerC' /\ ~LaterC' /\ ~TrajC' /\ Len0' = Len0
      BY <1>5, <2>1, <2>4, CompletionTypes DEF SchedC, TimerC, LaterC, TrajC, Len0, NoSched
    <3>5. TokenInv'
      BY <1>5, <2>1, <3>2, <3>3, <3>4 DEF TokenInv, CoreInv, OneToken, Token, Waits
    <3> QED  BY <3>3, <3>5, <1>1, <1>5
  <2> QED  BY <2>3, <2>4 DEF ModeRuns
<1>7. CASE ~Carry(todo[1])
  <2>1. ~Continues(Done)
    BY <1>2, <1>7 DEF Carry
  <2>2. ~SchedC'
    BY <2>1, CompletionTypes DEF ModeRuns, SchedC, NoSched
  <2>3. PICK fr : Then(fr) /\ QuietFrames(fr)
    <3>1. QuietFrames(<<>>) /\ QuietFrames(<<Abort>>)
      BY QuietStacks
    <3>2. Done.fail = "descend" =>
            QuietFrames(<<RunMode("Descend", [Done EXCEPT !.fail = "ignore"])>>)
      <4>1. SUFFICES ASSUME Done.fail = "descend"
                     PROVE  QuietFrames(<<RunMode("Descend", [Done EXCEPT !.fail = "ignore"])>>)
        OBVIOUS
      <4> DEFINE c == [Done EXCEPT !.fail = "ignore"]
                 f == RunMode("Descend", c)
      <4>2. Done.k = "failure"
        BY <1>2, <4>1, CompletionTypes
      <4>3. c \in Closures /\ ~Continues(c)
        BY <1>2, <4>2, IgnoringClosure
      <4> HIDE DEF c
      <4>4. f \in Frames /\ f.op = "mode" /\ f.done = c
        BY <4>3, NewMode DEF Modes
      <4> HIDE DEF f
      <4>5. QuietFrames(<<f>>)
        BY <4>3, <4>4, QuietStacks
      <4> QED  BY <4>5 DEF f, c
    <3>3. Then(<<>>) \/ Then(ModeFailed(Done))
      BY DEF ModeRuns
    <3> QED  BY <3>1, <3>2, <3>3 DEF ModeFailed
  <2> QED  BY <1>1, <1>5, <1>7, <2>2, <2>3, QuietStep DEF Then, SchedC, TimerC, LaterC, TrajC
<1> QED  BY <1>6, <1>7

LEMMA CoreModeActionRuns == CoreInv /\ ModeActionRuns => CoreInv'
<1> SUFFICES ASSUME CoreInv, ModeActionRuns PROVE CoreInv'
  OBVIOUS
<1> USE DEF missionVars, stateVars, runVars, pendingVars, worldVars, historyVars
<1>1. PICK name \in DOMAIN ModeOf : Action(name) /\ Then(<<RunMode(ModeOf[name], Done)>>)
  BY DEF ModeActionRuns
<1>2. name \in {"rtl", "land", "takeoff"} /\ ModeOf[name] \in Modes \ {"own"}
  BY DEF ModeOf, Modes
<1>3. /\ ~Idle /\ active /\ Done \in Closures /\ todo[1].op = "action"
      /\ Carry(todo[1]) /\ valid /\ index \in Int /\ index >= 0 /\ index < Len0
      /\ itemState' = "Other"
  BY <1>1, <1>2, ActionTop DEF Restorable
<1> DEFINE f == RunMode(ModeOf[name], Done)
<1>4. f \in Frames /\ f.op = "mode"
  BY <1>2, <1>3, NewMode
<1>5. Then(<<f>>)
  BY <1>1
<1>6. UNCHANGED <<mission, valid, active, ownActive, index, level, sched, timer, later, traj>>
  BY DEF ModeActionRuns, Unmoved
<1> HIDE DEF f
<1>7. /\ StackInv' /\ TokenInv' /\ todo' \in Seq(Frames) /\ (Idle \/ active)'
  BY <1>3, <1>4, <1>5, <1>6, ReplaceOne
<1>8. TypeOK'
  BY <1>3, <1>7 DEF ModeActionRuns, Unmoved, TypeOK, CoreInv, Len0
<1> QED  BY <1>7, <1>8 DEF CoreInv

LEMMA CoreHoldRuns == CoreInv /\ HoldRuns => CoreInv'
<1> SUFFICES ASSUME CoreInv, HoldRuns PROVE CoreInv'
  OBVIOUS
<1> USE DEF missionVars, stateVars, runVars, pendingVars, worldVars, historyVars
<1>1. /\ ~Idle /\ active /\ Done \in Completions /\ todo[1].op = "action"
      /\ Carry(todo[1]) /\ valid /\ index \in Int /\ index >= 0 /\ index < Len0
      /\ itemState' = "Other"
  <2>1. Action("hold")
    BY DEF HoldRuns
  <2> QED  BY <2>1, ActionTop DEF Restorable
<1> DEFINE f == RunMode("Loiter", Nothing)
           g == Frame("hold", "", Done)
<1>2. f \in Frames /\ f.op = "mode" /\ ~Carry(f)
  BY SimpleFrames, CompletionTypes DEF Carry
<1>3. g \in Frames /\ g.op = "hold" /\ g.op \in Parked
  BY <1>1, NewHold DEF Parked
<1>4. Then(<<f, g>>)
  BY DEF HoldRuns
<1>5. UNCHANGED <<mission, valid, active, ownActive, index, level, sched, timer, later, traj>>
  BY DEF HoldRuns, Unmoved
<1> HIDE DEF f, g
<1>6. /\ StackInv' /\ TokenInv' /\ todo' \in Seq(Frames) /\ (Idle \/ active)'
  BY <1>1, <1>2, <1>3, <1>4, <1>5, ReplaceTwo
<1>7. TypeOK'
  BY <1>1, <1>6 DEF HoldRuns, Unmoved, TypeOK, CoreInv, Len0
<1> QED  BY <1>6, <1>7 DEF CoreInv

\* An action that completes at once.
LEMMA Completes ==
  ASSUME CoreInv, NEW name \in Actions, Action(name), Then(<<Call(Done)>>),
         UNCHANGED <<mission, valid, active, ownActive, level, sched, timer, later, traj>>,
         index' \in Int, Carry(todo[1]) => index' >= 0 /\ index' < Len0,
         ~Carry(todo[1]) => index' = index
  PROVE  /\ StackInv' /\ TokenInv' /\ todo' \in Seq(Frames) /\ (Idle \/ active)'
<1>1. /\ ~Idle /\ Head(todo) = todo[1] /\ todo[1] \in Frames /\ active
      /\ Done \in Closures /\ Done = todo[1].done
      /\ \/ todo[1].op = "action"
         \/ /\ todo[1].op = "restore" /\ ~Carry(todo[1]) /\ Done = Nothing
      /\ todo[1].op = "action" => Carry(todo[1]) /\ index >= 0 /\ index < Len0
  BY ActionTop DEF Actions
<1> DEFINE f == Call(Done)
<1>2. f \in Frames /\ f.op = "call" /\ f.done = Done
  BY <1>1, NewCall
<1>3. Then(<<f>>)
  OBVIOUS
<1> HIDE DEF f
<1>4. CASE todo[1].op = "action"
  BY <1>1, <1>2, <1>3, <1>4, ReplaceOne
<1>5. CASE todo[1].op = "restore"
  <2>1. QuietFrames(<<f>>)
    BY <1>1, <1>2, <1>5, QuietStacks, CompletionTypes
  <2>2. todo' = <<f>> \o Tail(todo)
    BY <1>3 DEF Then
  <2> QED  BY <1>1, <1>5, <2>1, <2>2, QuietStep DEF SchedC, TimerC, LaterC, TrajC
<1> QED  BY <1>1, <1>4, <1>5

LEMMA CoreChangeSettingsRuns == CoreInv /\ ChangeSettingsRuns => CoreInv'
<1> SUFFICES ASSUME CoreInv, ChangeSettingsRuns PROVE CoreInv'
  OBVIOUS
<1> USE DEF missionVars, stateVars, runVars, pendingVars, worldVars, historyVars
<1>1. PICK name \in {"settings", "reset"} : Action(name)
  BY DEF ChangeSettingsRuns
<1>2. /\ StoredTypes(stored') /\ nextId' \in Nat /\ keeper' \in [Continuous -> Nat \cup {NoId}]
      /\ options' \in BOOLEAN /\ asked' \in Asked
  <2>1. CASE StoreState("settings") /\ options' = TRUE /\ asked' = "changed"
    BY <2>1, StateStored DEF CoreInv, Continuous, Restorable, Asked
  <2>2. CASE /\ stored' = Without(stored, {keeper["settings"]})
             /\ keeper' = [keeper EXCEPT !["settings"] = NoId]
             /\ options' = FALSE /\ asked' = "default"
             /\ UNCHANGED nextId
    <3>1. StoredTypes(stored)
      BY DEF CoreInv, TypeOK, StoredTypes
    <3>2. StoredTypes(stored')
      BY <2>2, <3>1, StoredWithout
    <3> QED  BY <2>2, <3>2 DEF CoreInv, TypeOK, Asked
  <2> QED  BY <2>1, <2>2 DEF ChangeSettingsRuns
<1>3. UNCHANGED <<mission, valid, active, ownActive, index, level, sched, timer, later, traj>>
  BY DEF ChangeSettingsRuns, Unmoved
<1>4. /\ StackInv' /\ TokenInv' /\ todo' \in Seq(Frames) /\ (Idle \/ active)'
  <2>1. Then(<<Call(Done)>>)
    BY DEF ChangeSettingsRuns
  <2>2. name \in Actions
    BY DEF Actions
  <2>3. /\ index \in Int
        /\ Carry(todo[1]) => index >= 0 /\ index < Len0
    BY <1>1, <2>2, ActionTop DEF Actions
  <2> QED  BY <1>1, <1>3, <2>1, <2>2, <2>3, Completes
<1>5. itemState' \in {"Trajectory", "Other"}
  BY <1>1, ActionTop DEF CoreInv, TypeOK
<1>6. TypeOK'
  BY <1>2, <1>4, <1>5 DEF ChangeSettingsRuns, Unmoved, TypeOK, CoreInv, Len0, StoredTypes
<1> QED  BY <1>4, <1>6 DEF CoreInv

LEMMA CoreCameraRuns == CoreInv /\ CameraRuns => CoreInv'
<1> SUFFICES ASSUME CoreInv, CameraRuns PROVE CoreInv'
  OBVIOUS
<1> USE DEF missionVars, stateVars, runVars, pendingVars, worldVars, historyVars
<1>1. Action("camera") /\ "camera" \in Actions
  BY DEF CameraRuns, Actions
<1>2. /\ StoredTypes(stored') /\ nextId' \in Nat /\ keeper' \in [Continuous -> Nat \cup {NoId}]
  <2>1. CASE StoreState("camera")
    BY <2>1, StateStored DEF CoreInv, Continuous, Restorable
  <2>2. CASE UNCHANGED <<stored, nextId, keeper>>
    BY <2>2 DEF CoreInv, TypeOK, StoredTypes
  <2> QED  BY <2>1, <2>2 DEF CameraRuns
<1>3. UNCHANGED <<mission, valid, active, ownActive, index, level, sched, timer, later, traj>>
  BY DEF CameraRuns, Unmoved
<1>4. /\ StackInv' /\ TokenInv' /\ todo' \in Seq(Frames) /\ (Idle \/ active)'
  <2>1. /\ index \in Int
        /\ Carry(todo[1]) => index >= 0 /\ index < Len0
        /\ ~Idle /\ (Top("restore") => todo[1].op = "restore" /\ ~Carry(todo[1]))
    BY <1>1, ActionTop DEF Actions
  <2>2. CASE Then(<<Call(Done)>>)
    BY <1>1, <1>3, <2>1, <2>2, Completes
  <2>3. CASE Top("restore") /\ Then(<<Abort>>)
    BY <1>3, <2>1, <2>3, QuietStep, QuietStacks DEF Then, SchedC, TimerC, LaterC, TrajC
  <2> QED  BY <2>2, <2>3 DEF CameraRuns
<1>5. itemState' \in {"Trajectory", "Other"}
  BY <1>1, ActionTop DEF CoreInv, TypeOK
<1>6. TypeOK'
  BY <1>2, <1>4, <1>5 DEF CameraRuns, Unmoved, TypeOK, CoreInv, Len0, StoredTypes
<1> QED  BY <1>4, <1>6 DEF CoreInv

LEMMA CoreCustomRuns ==
  ASSUME CoreInv, NEW outcome \in CustomOutcomes, CustomRuns(outcome)
  PROVE  CoreInv'
<1> USE DEF missionVars, stateVars, runVars, pendingVars, worldVars, historyVars
<1>1. Action("custom") /\ "custom" \in Actions
  BY DEF CustomRuns, Actions
<1>2. /\ ~Idle /\ active /\ Done \in Completions /\ Done \in Closures
      /\ Done = todo[1].done /\ Continues(Done)
      /\ Carry(todo[1]) /\ valid /\ index \in Int /\ index >= 0 /\ index < Len0
      /\ itemState' = "Other" /\ Len0 \in Nat
  BY <1>1, ActionTop DEF Restorable
<1>3. /\ UNCHANGED <<mission, valid, active, ownActive, level, sched, timer, traj>>
      /\ later' = IF outcome = "later" THEN Done ELSE later
      /\ index' \in Int /\ index' >= 0 /\ index' < Len0 /\ index' \in NoIndex .. Len0
      /\ stops' \in 0 .. MaxStops
      /\ outcome \in {"done", "later", "abort", "jump"}
  <2>1. /\ UNCHANGED <<mission, valid, active, ownActive, level, sched, timer, traj>>
        /\ later' = IF outcome = "later" THEN Done ELSE later
    BY DEF CustomRuns, Unmoved
  <2>2. outcome \in {"done", "later", "abort", "jump"} /\ MaxStops \in Nat
    BY MissionAssumption
  <2>3. CASE outcome = "jump"
    <3>1. index' \in 0 .. Len0 - 1 /\ stops < MaxStops /\ stops' = stops + 1
      BY <2>3 DEF CustomRuns
    <3>2. stops \in 0 .. MaxStops
      BY DEF CoreInv, TypeOK
    <3>3. stops' \in 0 .. MaxStops
      BY <2>2, <3>1, <3>2
    <3>4. index' \in Int /\ index' >= 0 /\ index' < Len0 /\ index' \in NoIndex .. Len0
      BY <1>2, <3>1 DEF NoIndex
    <3> QED  BY <2>1, <2>2, <3>3, <3>4
  <2>4. CASE outcome # "jump"
    BY <2>1, <2>2, <2>4, <1>2 DEF CustomRuns, CoreInv, TypeOK, NoIndex
  <2> QED  BY <2>1, <2>2, <2>3, <2>4
<1>4. /\ StackInv' /\ TokenInv' /\ todo' \in Seq(Frames) /\ (Idle \/ active)'
  <2>1. CASE outcome = "later"
    <3>1. /\ \A fr \in Seq(Frames) : fr \o Tail(todo) = fr
          /\ level = 0 /\ ~SchedC /\ ~TimerC /\ ~TrajC
      BY <1>2, TokenPush DEF CoreInv
    <3>2. todo' = <<>>
      BY <2>1, <3>1, Stacks DEF CustomRuns, Then
    <3>3. /\ StackInv' /\ todo' \in Seq(Frames) /\ ~Carries(todo') /\ DOMAIN todo' = {}
      BY <1>3, <3>1, <3>2, NoFrame
    <3>4. ~SchedC' /\ ~TimerC' /\ ~TrajC' /\ Len0' = Len0
      BY <1>3, <3>1 DEF SchedC, TimerC, TrajC, Len0
    <3>5. TokenInv'
      BY <1>2, <1>3, <3>3, <3>4 DEF TokenInv, CoreInv, OneToken, Token, Waits
    <3> QED  BY <1>2, <1>3, <3>3, <3>5
  <2>2. CASE outcome = "abort"
    <3> DEFINE g == Call(Done)
    <3>1. g \in Frames /\ g.op = "call" /\ g.op \in Parked
      BY <1>2, NewCall DEF Parked
    <3>2. Abort \in Frames /\ Abort.op = "abort" /\ ~Carry(Abort)
      BY SimpleFrames, CompletionTypes DEF Carry
    <3>3. Then(<<Abort, g>>) /\ later' = later
      BY <2>2 DEF CustomRuns
    <3> HIDE DEF g
    <3> QED  BY <1>2, <1>3, <3>1, <3>2, <3>3, ReplaceTwo
  <2>3. CASE outcome \in {"done", "jump"}
    <3>1. Then(<<Call(Done)>>) /\ later' = later
      BY <2>3 DEF CustomRuns
    <3> QED  BY <1>1, <1>2, <1>3, <3>1, Completes
  <2> QED  BY <1>3, <2>1, <2>2, <2>3
<1>5. TypeOK'
  BY <1>2, <1>3, <1>4 DEF CustomRuns, Unmoved, TypeOK, CoreInv, Len0
<1> QED  BY <1>4, <1>5 DEF CoreInv

LEMMA CoreOnResumeRuns ==
  ASSUME CoreInv, NEW known \in LandedKnown, OnResumeRuns(known)
  PROVE  CoreInv'
<1> USE DEF missionVars, stateVars, runVars, pendingVars, worldVars, historyVars
<1>1. Action("onResume")
  BY DEF OnResumeRuns
<1>2. /\ ~Idle /\ active /\ Done \in Completions /\ Done \in Closures
      /\ Done = todo[1].done /\ Continues(Done)
      /\ Carry(todo[1]) /\ valid /\ index \in Int /\ index >= 0 /\ index < Len0
      /\ itemState' = "Other" /\ Len0 \in Nat
  BY <1>1, ActionTop DEF Restorable
<1>3. /\ UNCHANGED <<mission, valid, active, ownActive, level, sched, timer, later, traj>>
  BY DEF OnResumeRuns, Unmoved
<1>4. index' \in Int /\ index' >= 0 /\ index' < Len0
  <2>1. index' = index \/ index' = (index + 1) % Len0
    BY DEF OnResumeRuns
  <2>2. (index + 1) % Len0 \in 0 .. Len0 - 1
    BY <1>2
  <2> QED  BY <1>2, <2>1, <2>2
<1> DEFINE c == [Done EXCEPT !.k = "navigate"]
<1>5. c \in Completions
  BY <1>2, RenamedClosure
<1>6. Then(<<Call(Done)>>) \/ Then(<<RunAction("takeoff", c)>>)
  BY DEF OnResumeRuns
<1> DEFINE f == RunAction("takeoff", c)
<1>7. f \in Frames /\ f.op = "action" /\ Carry(f)
  <2>1. Continues(c)
    BY <1>2, RenamedClosure DEF Continues
  <2> HIDE DEF c
  <2>2. f \in Frames /\ f.op = "action" /\ f.done = c
    BY <1>5, NewAction DEF Actions
  <2> QED  BY <2>1, <2>2 DEF Carry
<1>8. Call(Done) \in Frames /\ Call(Done).op = "call"
  BY <1>2, NewCall
<1> HIDE DEF f
<1>9. /\ StackInv' /\ TokenInv' /\ todo' \in Seq(Frames) /\ (Idle \/ active)'
  <2>1. CASE Then(<<f>>)
    BY <1>2, <1>3, <1>4, <1>7, <2>1, ReplaceOne
  <2>2. CASE Then(<<Call(Done)>>)
    BY <1>2, <1>3, <1>4, <1>8, <2>2, ReplaceOne
  <2> QED  BY <1>6, <2>1, <2>2 DEF f
<1>10. TypeOK'
  <2>1. index' \in NoIndex .. Len0
    BY <1>2, <1>4 DEF NoIndex
  <2> QED  BY <1>2, <1>9, <2>1 DEF OnResumeRuns, Unmoved, TypeOK, CoreInv, Len0
<1> QED  BY <1>9, <1>10 DEF CoreInv

LEMMA CoreOnFailureRuns == CoreInv /\ OnFailureRuns => CoreInv'
<1> SUFFICES ASSUME CoreInv, OnFailureRuns PROVE CoreInv'
  OBVIOUS
<1> USE DEF missionVars, stateVars, runVars, pendingVars, worldVars, historyVars
<1>1. Action("onFailure")
  BY DEF OnFailureRuns
<1>2. /\ ~Idle /\ active /\ todo[1].op = "action" /\ itemState' = "Other"
      /\ index \in Int
  BY <1>1, ActionTop DEF Restorable
<1>3. UNCHANGED <<mission, valid, active, ownActive, index, level, sched, timer, later, traj>>
  BY DEF OnFailureRuns, Unmoved
<1> DEFINE c == [Closure("failure") EXCEPT !.fail = "descend"]
           f == RunMode("Rtl", c)
<1>4. f \in Frames /\ f.op = "mode" /\ ~Continues(f.done)
  <2>1. c \in Closures /\ ~Continues(c)
    BY NewClosures
  <2> HIDE DEF c
  <2>2. f \in Frames /\ f.op = "mode" /\ f.done = c
    BY <2>1, NewMode DEF Modes
  <2> QED  BY <2>1, <2>2
<1>5. Then(<<f>>) \/ Then(<<Abort>>)
  BY DEF OnFailureRuns
<1> HIDE DEF f
<1>6. Abort \in Frames /\ Abort.op = "abort" /\ ~Continues(Abort.done)
  BY SimpleFrames, CompletionTypes
<1>7. /\ StackInv' /\ TokenInv' /\ todo' \in Seq(Frames) /\ (Idle \/ active)'
  <2>1. CASE ~Carry(todo[1])
    <3>1. QuietFrames(<<f>>) /\ QuietFrames(<<Abort>>)
      BY <1>4, QuietStacks
    <3> QED  BY <1>2, <1>3, <1>5, <2>1, <3>1, QuietStep DEF Then, SchedC, TimerC, LaterC, TrajC
  <2>2. CASE Carry(todo[1])
    <3>1. index >= 0
      BY <1>2, <2>2, TokenPush DEF CoreInv
    <3> QED  BY <1>2, <1>3, <1>4, <1>5, <1>6, <2>2, <3>1, ReplaceOne
  <2> QED  BY <2>1, <2>2
<1>8. TypeOK'
  BY <1>2, <1>7 DEF OnFailureRuns, Unmoved, TypeOK, CoreInv, Len0
<1> QED  BY <1>7, <1>8 DEF CoreInv


\* The frames that runStoredActions() makes of the stored states.
LEMMA RestoreFrames ==
  ASSUME StoredTypes(stored)
  PROVE  LET left  == Without(stored, {i \in DOMAIN stored : stored[i] = "onResume"})
             names == InOrder(left)
             fr    == [i \in DOMAIN names |-> Frame("restore", names[i], Nothing)]
         IN  /\ QuietFrames(fr) /\ DOMAIN fr = DOMAIN names
             /\ \A i \in DOMAIN fr : /\ fr[i].op = "restore" /\ fr[i].arg = names[i]
                                     /\ fr[i].done = Nothing
             /\ names \in Seq(Restorable)
             /\ \A i \in DOMAIN stored :
                  stored[i] # "onResume" => \E n \in DOMAIN names : names[n] = stored[i]
             /\ \A n \in DOMAIN names : \E i \in DOMAIN stored : names[n] = stored[i]
             /\ Distinct(stored) => \A n, m \in DOMAIN names : names[n] = names[m] => n = m
<1> DEFINE ids   == {i \in DOMAIN stored : stored[i] = "onResume"}
           left  == Without(stored, ids)
           names == InOrder(left)
           fr    == [i \in DOMAIN names |-> Frame("restore", names[i], Nothing)]
<1>1. /\ StoredTypes(left) /\ DOMAIN left = DOMAIN stored \ ids
      /\ \A i \in DOMAIN left : left[i] = stored[i]
  <2> HIDE DEF ids
  <2> QED  BY StoredWithout
<1> HIDE DEF left
<1>2. left \in [DOMAIN left -> Restorable]
  <2>1. \A i \in DOMAIN left : left[i] \in Restorable
    BY <1>1 DEF StoredTypes, Continuous
  <2> QED  BY <1>1, <2>1 DEF StoredTypes
<1>3. /\ names \in Seq(Restorable)
      /\ \A n \in DOMAIN names : \E i \in DOMAIN left : names[n] = left[i]
      /\ \A i \in DOMAIN left : \E n \in DOMAIN names : names[n] = left[i]
      /\ Distinct(left) => Distinct(names)
  BY <1>1, <1>2, InOrderLists DEF StoredTypes
<1>4. Distinct(stored) => Distinct(left)
  BY <1>1 DEF Distinct
<1> HIDE DEF names
<1>5. Distinct(stored) => \A n, m \in DOMAIN names : names[n] = names[m] => n = m
  <2>1. \A n \in DOMAIN names : names[n] # "onResume"
    BY <1>3 DEF Restorable
  <2> QED  BY <2>1, <1>3, <1>4 DEF Distinct
<1>6. \A i \in DOMAIN names : names[i] \in Restorable
  BY <1>3
<1>7. DOMAIN names = 1 .. Len(names) /\ Len(names) \in Nat
  BY <1>3
<1>8. \A i \in DOMAIN names :
        /\ Frame("restore", names[i], Nothing) \in Frames
        /\ Frame("restore", names[i], Nothing).op = "restore"
        /\ Frame("restore", names[i], Nothing).arg = names[i]
        /\ Frame("restore", names[i], Nothing).done = Nothing
  BY <1>6, NewRestore
<1>9. fr \in Seq(Frames) /\ Len(fr) = Len(names) /\ DOMAIN fr = DOMAIN names
  BY <1>7, <1>8
<1>10. \A i \in DOMAIN fr : /\ fr[i].op = "restore" /\ fr[i].arg = names[i]
                            /\ fr[i].done = Nothing
  BY <1>8, <1>9
<1> HIDE DEF fr
<1>11. QuietFrames(fr)
  <2>1. \A i \in DOMAIN fr : ~Carry(fr[i])
    BY <1>10, CompletionTypes DEF Carry
  <2>2. Shape(fr)
    BY <1>7, <1>9, <1>10, <2>1 DEF Shape, Parked
  <2>3. ~Flies(fr)
    BY <1>7, <1>9, <1>10 DEF Flies
  <2> QED  BY <1>9, <1>10, <2>1, <2>2, <2>3 DEF QuietFrames, Carries
<1>12. /\ \A i \in DOMAIN stored :
            stored[i] # "onResume" => \E n \in DOMAIN names : names[n] = stored[i]
       /\ \A n \in DOMAIN names : \E i \in DOMAIN stored : names[n] = stored[i]
  BY <1>1, <1>3
<1> QED  BY <1>3, <1>5, <1>9, <1>10, <1>11, <1>12 DEF fr, names, left

\* runStoredActions() keeps CoreInv.
LEMMA CoreStoredRun == CoreInv /\ StoredRun => CoreInv'
<1> SUFFICES ASSUME CoreInv, StoredRun PROVE CoreInv'
  OBVIOUS
<1> USE DEF missionVars, stateVars, runVars, pendingVars, worldVars, historyVars
<1>1. /\ ~Idle /\ Head(todo) = todo[1] /\ todo[1] \in Frames /\ todo[1].op = "stored"
      /\ active
  BY TopFrame DEF StoredRun, Top, CoreInv
<1>2. ~Carry(todo[1])
  BY <1>1, FrameTypes, CompletionTypes DEF Carry
<1>3. StoredTypes(stored) /\ StoredTypes(stored')
  BY NothingStored DEF CoreInv, TypeOK, StoredTypes, StoredRun
<1> DEFINE names == InOrder(Without(stored, {i \in DOMAIN stored : stored[i] = "onResume"}))
           fr    == [i \in DOMAIN names |-> Frame("restore", names[i], Nothing)]
<1>4. QuietFrames(fr)
  BY <1>3, RestoreFrames
<1>5. todo' = fr \o Tail(todo)
  BY DEF StoredRun, Then
<1> HIDE DEF fr
<1>6. UNCHANGED <<mission, valid, active, ownActive, index, level, sched, timer, later, traj>>
  BY DEF StoredRun
<1>7. /\ todo' \in Seq(Frames) /\ (Idle \/ active)'
      /\ StackInv' /\ TokenInv'
  BY <1>1, <1>2, <1>4, <1>5, <1>6, QuietStep DEF SchedC, TimerC, LaterC, TrajC
<1>8. TypeOK'
  BY <1>3, <1>7 DEF StoredRun, TypeOK, CoreInv, Len0, StoredTypes
<1> QED  BY <1>7, <1>8 DEF CoreInv

\* Behind a first frame that is popped there is no action.
LEMMA PushedHead ==
  ASSUME NEW s \in Seq(Frames), s # <<>>, Shape(s), NEW fr \in Seq(Frames),
         \A i \in DOMAIN fr : fr[i].op = "action" => fr[i].arg = "onFailure",
         todo' = fr \o Tail(s)
  PROVE  (HeadIs("action") /\ todo[1].arg # "onFailure" => Carry(todo[1]))'
<1>1. /\ todo' \in Seq(Frames)
      /\ Len(todo') = Len(fr) + Len(s) - 1
      /\ \A i \in 1 .. Len(fr) : todo'[i] = fr[i]
      /\ \A i \in Len(fr) + 1 .. Len(todo') : todo'[i] = s[i - Len(fr) + 1]
  BY Replaced
<1>2. /\ Len(fr) \in Nat /\ Len(s) \in Nat /\ Len(s) > 0 /\ DOMAIN fr = 1 .. Len(fr)
      /\ DOMAIN todo' = 1 .. Len(todo')
  BY <1>1
<1>3. SUFFICES ASSUME todo' # <<>>, todo'[1].op = "action"
               PROVE  todo'[1].arg = "onFailure"
  BY DEF HeadIs
<1>4. 1 \in DOMAIN todo'
  BY <1>1, <1>3
<1>5. CASE 1 \in DOMAIN fr
  BY <1>3, <1>5, <1>1, <1>2
<1>6. CASE 1 \notin DOMAIN fr
  <2>1. Len(fr) = 0 /\ 2 \in 2 .. Len(s) /\ 1 \in Len(fr) + 1 .. Len(todo')
    BY <1>4, <1>6, <1>1, <1>2
  <2>2. todo'[1] = s[2]
    BY <2>1, <1>1
  <2>3. s[2].op # "action"
    BY <2>1 DEF Shape, Parked
  <2> QED  BY <1>3, <2>2, <2>3
<1> QED  BY <1>5, <1>6

\* abort() and its end keep CoreInv.
LEMMA CoreAbortReturns == CoreInv /\ AbortReturns => CoreInv'
<1> SUFFICES ASSUME CoreInv, AbortReturns PROVE CoreInv'
  OBVIOUS
<1> USE DEF missionVars, stateVars, runVars, pendingVars, worldVars, historyVars
<1>1. /\ ~Idle /\ Head(todo) = todo[1] /\ todo[1] \in Frames /\ todo[1].op = "aborted"
      /\ active /\ todo \in Seq(Frames) /\ todo # <<>>
  BY TopFrame DEF AbortReturns, Top, CoreInv
<1>2. ~Carry(todo[1]) /\ Shape(todo) /\ level = Level(todo)
  BY <1>1, FrameTypes, CompletionTypes DEF Carry, CoreInv, StackInv
<1>3. todo' = <<>> \o Tail(todo)
  BY DEF AbortReturns, Then
<1>4. <<>> \in Seq(Frames) /\ Shape(<<>>) /\ ~Carries(<<>>) /\ ~Flies(<<>>) /\ DOMAIN <<>> = {}
  BY Stacks
<1>5. /\ Level(<<>>) = 0 /\ Level(todo) \in Nat /\ Level(todo) > 0
      /\ Level(todo') = Level(todo) - 1
  <2>1. Level(<<>>) = 0
    BY <1>4, NoLevel
  <2>2. /\ Level(todo) \in Nat /\ Level(todo) > 0
        /\ Level(<<>> \o Tail(todo)) = Level(<<>>) + Level(todo) - 1
    BY <1>1, <1>4, LevelPushed
  <2> QED  BY <1>3, <2>1, <2>2
<1>6. Shape(todo') /\ (Carries(todo') => Carries(todo))
  BY <1>1, <1>2, <1>3, <1>4, Pushed
<1>7. (HeadIs("action") /\ todo[1].arg # "onFailure" => Carry(todo[1]))'
  BY <1>1, <1>2, <1>3, <1>4, PushedHead
<1>8. StackInv'
  BY <1>2, <1>5, <1>6, <1>7 DEF StackInv, AbortReturns
<1>9. /\ todo' \in Seq(Frames)
      /\ \A i \in DOMAIN todo' : \E j \in DOMAIN todo : todo'[i] = todo[j]
  <2>1. /\ todo' \in Seq(Frames) /\ Len(todo') = Len(<<>>) + Len(todo) - 1
        /\ \A i \in Len(<<>>) + 1 .. Len(todo') : todo'[i] = todo[i - Len(<<>>) + 1]
    BY <1>1, <1>3, <1>4, Replaced
  <2>2. Len(<<>>) = 0 /\ Len(todo) \in Nat /\ DOMAIN todo = 1 .. Len(todo)
        /\ DOMAIN todo' = 1 .. Len(todo')
    BY <1>1, <2>1
  <2>3. \A i \in DOMAIN todo' : i + 1 \in DOMAIN todo /\ todo'[i] = todo[i + 1]
    BY <2>1, <2>2
  <2> QED  BY <2>1, <2>3
<1>10. TokenInv'
  BY <1>6, <1>9, TokensStay DEF AbortReturns, CoreInv, SchedC, TimerC, LaterC, TrajC
<1>11. TypeOK'
  <2>1. level' \in 0 .. MaxLevel + 1
    BY <1>2, <1>5, MissionAssumption DEF AbortReturns, CoreInv, TypeOK
  <2> QED  BY <1>1, <1>9, <2>1 DEF AbortReturns, TypeOK, CoreInv, Idle, Len0
<1> QED  BY <1>8, <1>10, <1>11 DEF CoreInv

\* What an abort leaves behind.
LEMMA AbortResult ==
  ASSUME CoreInv, Aborts
  PROVE  /\ ~Idle /\ active /\ 1 \in DOMAIN todo /\ todo[1].op = "abort"
         /\ UNCHANGED <<mission, valid, active, ownActive, index>>
         /\ traj' \in [at : Int, end : Int, options : BOOLEAN, done : Completions \cup Segments]
         /\ traj'.at = traj.at /\ traj'.end = traj.end /\ ~Continues(traj'.done)
         /\ sched' \in [mode : Modes \cup {NoMode}, done : Closures]
         /\ ~Continues(sched'.done)
         /\ later' \in Completions /\ ~Continues(later')
         /\ timer' \in Completions /\ ~Continues(timer')
         /\ StoredTypes(stored') /\ keeper' \in [Continuous -> Nat \cup {NoId}]
         /\ todo' \in Seq(Frames) /\ Shape(todo') /\ (Carries(todo') => Carries(todo))
         /\ Level(todo') = level' /\ level' \in 0 .. MaxLevel + 1
         /\ (HeadIs("action") /\ todo[1].arg # "onFailure" => Carry(todo[1]))'
         /\ \A i \in DOMAIN todo' :
              /\ ~Continues(todo'[i].done)
              /\ \/ todo'[i].op \in {"action", "aborted"}
                 \/ \E n \in DOMAIN todo : n # 1 /\ todo'[i].op = todo[n].op
         /\ Len(todo) > 1 => todo'[Len(todo')].op = todo[Len(todo)].op
<1> USE DEF missionVars, stateVars, runVars, pendingVars, worldVars, historyVars
<1> DEFINE s == Invalidated(todo)
           rest == [i \in DOMAIN Tail(todo) |-> WithInvalid(Tail(todo)[i])]
           aborted0 == Frame("aborted", "", Nothing)
           fail == RunAction("onFailure", Nothing)
<1>1. /\ ~Idle /\ Head(todo) = todo[1] /\ todo[1] \in Frames /\ todo[1].op = "abort"
      /\ active /\ todo \in Seq(Frames) /\ todo # <<>> /\ 1 \in DOMAIN todo
      /\ Shape(todo) /\ level = Level(todo)
  BY TopFrame DEF Aborts, Top, CoreInv, StackInv
<1>2. /\ s \in Seq(Frames) /\ s # <<>> /\ Shape(s) /\ Level(s) = level
      /\ rest = Tail(s) /\ s[1].op = "abort"
      /\ Carries(s) => Carries(todo)
      /\ DOMAIN s = DOMAIN todo
      /\ \A i \in DOMAIN s : ~Continues(s[i].done) /\ s[i].op = todo[i].op
  <2>1. rest = Invalidated(Tail(todo))
    BY DEF Invalidated
  <2> HIDE DEF rest, s
  <2> QED  BY <1>1, <2>1, InvalidatedStack DEF s
<1>3. /\ aborted0 \in Frames /\ aborted0.op = "aborted" /\ ~Continues(aborted0.done)
      /\ fail \in Frames /\ fail.op = "action" /\ fail.arg = "onFailure"
      /\ ~Continues(fail.done)
  BY SimpleFrames, CompletionTypes
<1>4. ~Carry(aborted0) /\ ~Carry(fail)
  BY <1>3 DEF Carry
<1>5. /\ traj' = WithInvalid(traj) /\ later' = Invalid(later) /\ sched' = WithInvalid(sched)
      /\ UNCHANGED <<mission, valid, active, ownActive, index>>
  BY DEF Aborts, InvalidateRest
<1>6. /\ traj' \in [at : Int, end : Int, options : BOOLEAN, done : Completions \cup Segments]
      /\ traj'.at = traj.at /\ traj'.end = traj.end /\ ~Continues(traj'.done)
  <2>1. /\ traj \in [at : Int, end : Int, options : BOOLEAN, done : Completions \cup Segments]
    BY DEF CoreInv, TypeOK
  <2>2. Invalid(traj.done) \in Completions \cup Segments /\ ~Continues(Invalid(traj.done))
    BY <2>1, InvalidClosure
  <2> QED  BY <1>5, <2>1, <2>2 DEF WithInvalid
<1>7. /\ sched' \in [mode : Modes \cup {NoMode}, done : Closures]
      /\ ~Continues(sched'.done)
  <2>1. sched \in [mode : Modes \cup {NoMode}, done : Closures]
    BY DEF CoreInv, TypeOK
  <2>2. Invalid(sched.done) \in Closures /\ ~Continues(Invalid(sched.done))
    BY <2>1, InvalidClosure
  <2> QED  BY <1>5, <2>1, <2>2 DEF WithInvalid
<1>8. later' \in Completions /\ ~Continues(later')
  BY <1>5, InvalidClosure DEF CoreInv, TypeOK
<1>9. timer' \in Completions /\ ~Continues(timer')
  <2>1. timer' = Invalid(timer) \/ timer' = Nothing
    BY DEF Aborts
  <2> QED  BY <2>1, InvalidClosure, CompletionTypes DEF CoreInv, TypeOK
<1>10. StoredTypes(stored') /\ keeper' \in [Continuous -> Nat \cup {NoId}]
  <2>1. StoredTypes(stored) /\ keeper \in [Continuous -> Nat \cup {NoId}]
    BY DEF CoreInv, TypeOK, StoredTypes
  <2> DEFINE ids == {keeper[n] : n \in Restorable}
  <2>2. /\ stored' = stored \/ stored' = Without(stored, ids)
        /\ keeper' = keeper \/ keeper' = Dropped
    BY DEF Aborts
  <2> HIDE DEF ids
  <2>3. StoredTypes(Without(stored, ids))
    BY <2>1, StoredWithout
  <2>4. Dropped \in [Continuous -> Nat \cup {NoId}]
    BY <2>1 DEF Dropped
  <2> QED  BY <2>1, <2>2, <2>3, <2>4
<1> HIDE DEF s, rest, aborted0, fail
<1>11. PICK fr \in Seq(Frames) :
         /\ todo' = fr \o Tail(s)
         /\ Shape(fr) /\ ~Carries(fr) /\ ~Flies(fr)
         /\ \A i \in DOMAIN fr : /\ fr[i].op = "action" => fr[i].arg = "onFailure"
                                 /\ ~Continues(fr[i].done)
                                 /\ fr[i].op \in {"action", "aborted"}
         /\ level' = level + Level(fr) /\ level' \in 0 .. MaxLevel + 1
  <2>0. level \in 0 .. MaxLevel + 1 /\ MaxLevel \in Nat
    BY MissionAssumption DEF CoreInv, TypeOK
  <2>1. CASE level > MaxLevel
    <3>1. todo' = rest /\ level' = level
      BY <2>1 DEF Aborts, rest
    <3>2. <<>> \in Seq(Frames) /\ Shape(<<>>) /\ ~Carries(<<>>) /\ ~Flies(<<>>)
      BY Stacks
    <3>3. DOMAIN <<>> = {}
      OBVIOUS
    <3>4. Level(<<>>) = 0
      BY <3>2, <3>3, NoLevel
    <3>5. <<>> \o Tail(s) = Tail(s)
      BY <1>2
    <3>6. level' = level + Level(<<>>) /\ level' \in 0 .. MaxLevel + 1
      BY <2>0, <3>1, <3>4
    <3>7. todo' = <<>> \o Tail(s)
      BY <1>2, <3>1, <3>5
    <3> QED  BY <3>2, <3>3, <3>6, <3>7
  <2>2. CASE ~(level > MaxLevel)
    <3>1. level' = level + 1
      BY <2>2 DEF Aborts
    <3>2. todo' = ((IF OnFailure = "none" THEN <<>> ELSE <<fail>>) \o <<aborted0>>) \o Tail(s)
      BY <2>2, <1>2 DEF Aborts, rest, fail, aborted0
    <3>3. PICK fr \in {<<aborted0>>, <<fail, aborted0>>} : todo' = fr \o Tail(s)
      <4>1. <<>> \o <<aborted0>> = <<aborted0>> /\ <<fail>> \o <<aborted0>> = <<fail, aborted0>>
        BY Single, Pair, Zenon
      <4> QED  BY <3>2, <4>1
    <3>4. /\ fr \in Seq(Frames) /\ Shape(fr) /\ ~Carries(fr) /\ ~Flies(fr)
      <4>1. aborted0.op \in Parked
        BY <1>3 DEF Parked
      <4>2. CASE fr = <<aborted0>>
        BY <1>3, <1>4, <4>2, Stacks
      <4>3. CASE fr = <<fail, aborted0>>
        BY <1>3, <1>4, <4>1, <4>3, Stacks
      <4> QED  BY <3>3, <4>2, <4>3
    <3>5. /\ \A i \in DOMAIN fr : /\ fr[i].op = "action" => fr[i].arg = "onFailure"
                                  /\ ~Continues(fr[i].done)
                                  /\ fr[i].op \in {"action", "aborted"}
          /\ Level(fr) = 1
      <4>1. CASE fr = <<aborted0>>
        <5>1. DOMAIN fr = {1} /\ fr[1] = aborted0
          BY <4>1
        <5>2. {i \in DOMAIN fr : fr[i].op = "aborted"} = {1}
          BY <5>1, <1>3
        <5> QED  BY <5>1, <5>2, <1>3, FS_Singleton DEF Level
      <4>2. CASE fr = <<fail, aborted0>>
        <5>1. DOMAIN fr = {1, 2} /\ fr[1] = fail /\ fr[2] = aborted0
          BY <4>2
        <5>2. {i \in DOMAIN fr : fr[i].op = "aborted"} = {2}
          BY <5>1, <1>3
        <5> QED  BY <5>1, <5>2, <1>3, FS_Singleton DEF Level
      <4> QED  BY <3>3, <4>1, <4>2
    <3>6. level' = level + Level(fr) /\ level' \in 0 .. MaxLevel + 1
      BY <2>0, <2>2, <3>1, <3>5
    <3> QED  BY <3>3, <3>4, <3>5, <3>6
  <2> QED  BY <2>1, <2>2
<1>12. /\ todo' \in Seq(Frames) /\ Shape(todo') /\ (Carries(todo') => Carries(todo))
       /\ Level(todo') = level'
       /\ (HeadIs("action") /\ todo[1].arg # "onFailure" => Carry(todo[1]))'
       /\ \A i \in DOMAIN todo' :
            /\ ~Continues(todo'[i].done)
            /\ \/ todo'[i].op \in {"action", "aborted"}
               \/ \E n \in DOMAIN todo : n # 1 /\ todo'[i].op = todo[n].op
       /\ Len(todo) > 1 => todo'[Len(todo')].op = todo[Len(todo)].op
  <2>1. Shape(todo') /\ (Carries(todo') => Carries(s))
    BY <1>2, <1>11, Pushed
  <2>2. /\ Level(s) \in Nat /\ Level(fr) \in Nat /\ Level(fr \o Tail(s)) = Level(fr) + Level(s)
    <3>1. /\ Level(s) \in Nat /\ Level(fr) \in Nat
          /\ Level(fr \o Tail(s)) = Level(fr) + Level(s) - (IF s[1].op = "aborted" THEN 1 ELSE 0)
      BY <1>2, <1>11, LevelPushed
    <3> QED  BY <3>1, <1>2
  <2>3. (HeadIs("action") /\ todo[1].arg # "onFailure" => Carry(todo[1]))'
    BY <1>2, <1>11, PushedHead
  <2>4. /\ todo' \in Seq(Frames) /\ Len(todo') = Len(fr) + Len(s) - 1
        /\ \A i \in 1 .. Len(fr) : todo'[i] = fr[i]
        /\ \A i \in Len(fr) + 1 .. Len(todo') : todo'[i] = s[i - Len(fr) + 1]
    BY <1>2, <1>11, Replaced
  <2>5. \A i \in DOMAIN todo' :
          /\ ~Continues(todo'[i].done)
          /\ \/ todo'[i].op \in {"action", "aborted"}
             \/ \E n \in DOMAIN todo : n # 1 /\ todo'[i].op = todo[n].op
    <3>1. /\ Len(fr) \in Nat /\ Len(s) \in Nat /\ DOMAIN fr = 1 .. Len(fr)
          /\ DOMAIN s = 1 .. Len(s) /\ DOMAIN todo' = 1 .. Len(todo')
      BY <1>2, <1>11, <2>4
    <3>2. \A i \in DOMAIN todo' :
            (i \in DOMAIN fr) \/ (i \in Len(fr) + 1 .. Len(todo') /\ i - Len(fr) + 1 \in DOMAIN s
                                 /\ i - Len(fr) + 1 # 1)
      BY <2>4, <3>1
    <3>3. TAKE i \in DOMAIN todo'
    <3>4. CASE i \in DOMAIN fr
      BY <3>1, <3>4, <2>4, <1>11
    <3>5. CASE i \notin DOMAIN fr
      <4> DEFINE n == i - Len(fr) + 1
      <4>1. n \in DOMAIN s /\ n # 1 /\ todo'[i] = s[n]
        BY <3>2, <3>5, <2>4
      <4> HIDE DEF n
      <4> QED  BY <1>2, <4>1
    <3> QED  BY <3>4, <3>5
  <2>6. Level(todo') = level'
    BY <1>2, <1>11, <2>2
  <2>7. Len(todo) > 1 => todo'[Len(todo')].op = todo[Len(todo)].op
    <3>1. Len(s) = Len(todo) /\ Len(fr) \in Nat /\ Len(s) \in Nat
      BY <1>1, <1>2, <1>11
    <3>2. ASSUME Len(s) > 1
          PROVE  todo'[Len(todo')] = s[Len(s)] /\ Len(s) \in DOMAIN s
      <4>1. /\ Len(todo') \in Len(fr) + 1 .. Len(todo')
            /\ Len(todo') - Len(fr) + 1 = Len(s)
            /\ Len(s) \in 1 .. Len(s) /\ DOMAIN s = 1 .. Len(s)
        BY <1>2, <2>4, <3>1, <3>2
      <4> QED  BY <2>4, <4>1
    <3>3. Len(s) \in DOMAIN s => s[Len(s)].op = todo[Len(s)].op
      BY <1>2
    <3> QED  BY <3>1, <3>2, <3>3
  <2> QED  BY <1>2, <2>1, <2>3, <2>4, <2>5, <2>6, <2>7
<1> QED  BY <1>1, <1>5, <1>6, <1>7, <1>8, <1>9, <1>10, <1>11, <1>12

LEMMA CoreAborts == CoreInv /\ Aborts => CoreInv'
<1> SUFFICES ASSUME CoreInv, Aborts PROVE CoreInv'
  OBVIOUS
<1> USE DEF missionVars, stateVars, runVars, pendingVars, worldVars, historyVars
<1>1. StackInv'
  BY AbortResult DEF StackInv
<1>2. TokenInv'
  BY AbortResult, TokensStay DEF CoreInv, SchedC, TimerC, LaterC, TrajC
<1>3. TypeOK'
  <2>1. traj'.at \in NoIndex .. traj'.end
    BY AbortResult DEF CoreInv, TypeOK
  <2>2. aborted' \in BOOLEAN /\ asked' \in Asked
    BY DEF Aborts, Asked
  <2>3. UNCHANGED <<nextId, itemState, activeMode, options, nav, landed, file, stops>>
    BY DEF Aborts
  <2> QED  BY AbortResult, <2>1, <2>2, <2>3 DEF TypeOK, CoreInv, Len0, StoredTypes
<1> QED  BY <1>1, <1>2, <1>3 DEF CoreInv

\* The completion callbacks keep CoreInv.
LEMMA CoreCallRuns == CoreInv /\ CallRuns => CoreInv'
<1> SUFFICES ASSUME CoreInv, CallRuns PROVE CoreInv'
  OBVIOUS
<1> USE DEF missionVars, stateVars, runVars, pendingVars, worldVars, historyVars
<1>1. /\ ~Idle /\ Head(todo) = todo[1] /\ todo[1] \in Frames /\ todo[1].op = "call"
      /\ active
  BY TopFrame DEF CallRuns, Top, CoreInv
<1>2. Done = todo[1].done /\ Done \in Closures
  BY <1>1, FrameTypes DEF Done
<1>3. /\ UNCHANGED <<mission, valid, active, ownActive, level, sched, timer, later>>
      /\ Len0 \in Nat /\ index \in Int
  BY MissionTypes DEF CallRuns, CoreInv
<1>4. StoredTypes(stored)
  BY DEF CoreInv, TypeOK, StoredTypes
<1>5. SUFFICES /\ StackInv' /\ TokenInv' /\ todo' \in Seq(Frames) /\ (Idle \/ active)'
               /\ StoredTypes(stored') /\ asked' \in Asked
               /\ index' \in NoIndex .. Len0
               /\ traj' \in [at : Int, end : Int, options : BOOLEAN, done : Completions \cup Segments]
               /\ traj'.at \in NoIndex .. traj'.end
  <2>1. TypeOK'
    BY <1>1, <1>5 DEF CallRuns, TypeOK, CoreInv, Len0, StoredTypes
  <2> QED  BY <2>1, <1>5 DEF CoreInv
<1>6. Continues(Done) =>
        /\ Carry(todo[1]) /\ level = 0 /\ index >= 0 /\ index < Len0
        /\ \A fr \in Seq(Frames) : fr \o Tail(todo) = fr
        /\ ~SchedC /\ ~TimerC /\ ~LaterC /\ ~TrajC
        /\ Done \in Completions /\ active /\ valid
  BY <1>1, <1>2, TokenPush, CompletionTypes DEF CoreInv, Carry, Continues
<1>7. CASE Done.valid /\ Done.k = "next"
  <2>1. Continues(Done)
    BY <1>7 DEF Continues
  <2>2. /\ index' = index + 1 /\ Then(<<RunItem>>) /\ UNCHANGED <<stored, asked, traj>>
    BY <1>7 DEF CallRuns
  <2>3. RunItem \in Frames /\ RunItem.op = "item" /\ ~Continues(RunItem.done)
    BY SimpleFrames, CompletionTypes
  <2>4. index' \in Int /\ index' >= 0 /\ index' \in NoIndex .. Len0
    BY <1>3, <1>6, <2>1, <2>2 DEF NoIndex
  <2>5. /\ StackInv' /\ TokenInv' /\ todo' \in Seq(Frames) /\ (Idle \/ active)'
    BY <1>1, <1>3, <1>6, <2>1, <2>2, <2>3, <2>4, ReplaceOne
  <2> QED  BY <1>4, <2>2, <2>4, <2>5 DEF CoreInv, TypeOK
<1>8. CASE Done.valid /\ Done.k = "resumed"
  <2>1. Continues(Done)
    BY <1>8 DEF Continues
  <2>2. Resumed /\ UNCHANGED <<index, traj>>
    BY <1>8 DEF CallRuns
  <2>3. /\ RunItem \in Frames /\ RunItem.op = "item" /\ ~Continues(RunItem.done)
        /\ RunStored \in Frames /\ RunStored.op = "stored" /\ ~Carry(RunStored)
    BY SimpleFrames, CompletionTypes DEF Carry
  <2>4. /\ Then(<<RunStored, RunItem>>) \/ Then(<<RunItem>>)
        /\ stored' = stored \/ stored' = <<>>
        /\ asked' \in Asked
    BY <2>2 DEF Resumed, CoreInv, TypeOK, Asked
  <2>5. StoredTypes(stored')
    BY <1>4, <2>4, NothingStored
  <2>6. /\ StackInv' /\ TokenInv' /\ todo' \in Seq(Frames) /\ (Idle \/ active)'
    <3>1. CASE Then(<<RunItem>>)
      BY <1>1, <1>3, <1>6, <2>1, <2>2, <2>3, <3>1, ReplaceOne
    <3>2. CASE Then(<<RunStored, RunItem>>)
      <4>1. RunItem.op \in Parked /\ RunItem.op # "aborted"
            /\ RunStored.op \notin {"action", "aborted", "flying"}
        BY <2>3 DEF Parked
      <4> QED  BY <1>1, <1>3, <1>6, <2>1, <2>2, <2>3, <3>2, <4>1, ReplaceTwo
    <3> QED  BY <2>4, <3>1, <3>2
  <2> QED  BY <2>2, <2>4, <2>5, <2>6 DEF CoreInv, TypeOK
<1>9. CASE Done.valid /\ Done.k = "navigate"
  <2>1. Continues(Done)
    BY <1>9 DEF Continues
  <2>2. Navigates /\ UNCHANGED <<index, stored, asked>>
    BY <1>9 DEF CallRuns
  <2> DEFINE c == [Done EXCEPT !.k = "resumed"]
  <2>3. c \in Completions /\ Continues(c)
    BY <1>6, <1>9, <2>1, RenamedClosure
  <2> HIDE DEF c
  <2>4. CASE Fly(0, 0, c)
    <3>1. level' = 0
      BY <1>3, <1>6, <2>1
    <3>2. StackInv' /\ todo' \in Seq(Frames) /\ ~Carries(todo')
          /\ \A i \in DOMAIN todo' : ~Continues(todo'[i].done)
      BY <1>6, <2>1, <2>4, <3>1, FlyFrames DEF Fly
    <3>3. traj' = [at |-> 0, end |-> 0, options |-> options, done |-> c]
      BY <2>4 DEF Fly
    <3>4. /\ TrajC' /\ ~SchedC' /\ ~TimerC' /\ ~LaterC' /\ traj'.end < Len0
      BY <1>3, <1>6, <2>1, <2>3, <3>3 DEF TrajC, SchedC, TimerC, LaterC, NoIndex
    <3>5. TokenInv'
      BY <1>3, <1>6, <2>1, <2>2, <3>2, <3>4
         DEF TokenInv, CoreInv, OneToken, Token, Waits, Len0
    <3>6. traj' \in [at : Int, end : Int, options : BOOLEAN, done : Completions \cup Segments]
          /\ traj'.at \in NoIndex .. traj'.end
      BY <2>3, <3>3 DEF CoreInv, TypeOK, NoIndex
    <3> QED  BY <1>1, <1>3, <1>4, <2>2, <3>2, <3>5, <3>6 DEF CoreInv, TypeOK
  <2>5. CASE Then(<<Call(c)>>) /\ UNCHANGED traj
    <3>1. Call(c) \in Frames /\ Call(c).op = "call"
      BY <2>3, NewCall, CompletionTypes
    <3>2. /\ StackInv' /\ TokenInv' /\ todo' \in Seq(Frames) /\ (Idle \/ active)'
      BY <1>1, <1>3, <1>6, <2>1, <2>2, <2>5, <3>1, ReplaceOne
    <3> QED  BY <1>4, <2>2, <2>5, <3>2 DEF CoreInv, TypeOK
  <2> QED  BY <2>2, <2>4, <2>5 DEF Navigates, c
<1>10. CASE ~(Done.valid /\ Done.k \in {"next", "resumed", "navigate"})
  <2>1. ~Continues(Done)
    BY <1>2, <1>10, CompletionTypes DEF Continues
  <2>2. Then(<<>>) /\ UNCHANGED <<index, stored, asked, traj>>
    BY <1>10 DEF CallRuns
  <2>3. ~Carry(todo[1])
    BY <1>1, <1>2, <2>1 DEF Carry
  <2>4. /\ StackInv' /\ TokenInv' /\ todo' \in Seq(Frames) /\ (Idle \/ active)'
    BY <1>1, <1>3, <2>2, <2>3, QuietStep, QuietStacks DEF Then, SchedC, TimerC, LaterC, TrajC
  <2> QED  BY <1>4, <2>2, <2>4 DEF CoreInv, TypeOK
<1> QED  BY <1>7, <1>8, <1>9, <1>10

-----------------------------------------------------------------------------
(* What happens between callbacks.                                         *)

\* Between callbacks the stack is empty.
LEMMA IdleStack ==
  ASSUME CoreInv, Idle
  PROVE  /\ level = 0 /\ ~Carries(todo) /\ todo = <<>> /\ DOMAIN todo = {}
         /\ \A op : ~HeadIs(op)
<1>1. DOMAIN <<>> = {}
  OBVIOUS
<1>2. <<>> \in Seq(Frames) /\ ~Carries(<<>>)
  BY Stacks
<1>3. Level(<<>>) = 0
  BY <1>1, <1>2, NoLevel
<1> QED  BY <1>1, <1>2, <1>3 DEF CoreInv, StackInv, Idle, HeadIs

\* A callback comes: it may take the token with it.
LEMMA CallbackComes ==
  ASSUME CoreInv, Idle, active, NEW f \in Frames, todo' = <<f>>,
         f.op \notin {"aborted", "action"},
         UNCHANGED <<mission, valid, active, ownActive, level>>,
         SchedC' => SchedC, TimerC' => TimerC, LaterC' => LaterC,
         TrajC' => TrajC /\ traj'.end = traj.end,
         Carry(f) => Waits /\ ~Waits' /\ index' >= 0,
         Continues(f.done) => index' < Len0,
         index' = index \/ ~Waits'
  PROVE  /\ StackInv' /\ TokenInv' /\ todo' \in Seq(Frames) /\ (Idle \/ active)'
<1>1. level' = 0 /\ Len0' = Len0
  BY IdleStack DEF Len0
<1>2. /\ StackInv' /\ todo' \in Seq(Frames)
      /\ Carries(todo') <=> Carry(f)
      /\ DOMAIN todo' = {1} /\ todo'[1] = f
  BY <1>1, OneFrame
<1>3. Waits' => Waits
  BY DEF Waits
<1>4. Token' => Token /\ index' >= 0
  BY <1>2, <1>3 DEF Token, CoreInv, TokenInv
<1>5. OneToken'
  BY <1>2, <1>3 DEF OneToken, CoreInv, TokenInv
<1>6. Waits' => index' < Len0'
  BY <1>1, <1>3 DEF CoreInv, TokenInv
<1>7. TrajC' => traj'.end < Len0'
  BY <1>1 DEF CoreInv, TokenInv
<1> QED  BY <1>1, <1>2, <1>3, <1>4, <1>5, <1>6, <1>7 DEF CoreInv, TokenInv

\* The program waits on.
LEMMA WaitsOn ==
  ASSUME CoreInv, Idle, todo' = <<>>,
         UNCHANGED <<mission, valid, active, level, index>>,
         ownActive' => active,
         SchedC' => SchedC, TimerC' => TimerC, LaterC' => LaterC,
         TrajC' => TrajC /\ traj'.end = traj.end
  PROVE  /\ StackInv' /\ TokenInv' /\ todo' \in Seq(Frames) /\ (Idle \/ active)'
<1>1. level' = 0 /\ Len0' = Len0
  BY IdleStack DEF Len0
<1>2. /\ StackInv' /\ todo' \in Seq(Frames) /\ ~Carries(todo') /\ DOMAIN todo' = {} /\ Idle'
  BY <1>1, NoFrame
<1>3. Waits' => Waits
  BY DEF Waits
<1>4. Token' => Token
  BY <1>2, <1>3 DEF Token
<1>5. OneToken'
  BY <1>2, <1>3 DEF OneToken, CoreInv, TokenInv
<1>6. TrajC' => traj'.end < Len0'
  BY <1>1 DEF CoreInv, TokenInv
<1> QED  BY <1>1, <1>2, <1>3, <1>4, <1>5, <1>6 DEF CoreInv, TokenInv

\* The trajectory is at its last waypoint, and is a segment of the mission.
LastReached == traj.at = traj.end
OnSegment   == traj.done.k = "segment"

\* What becomes of the trajectory and its token at a waypoint.
LEMMA Reached ==
  ASSUME CoreInv, WaypointReached
  PROVE  /\ Idle /\ active
         /\ traj \in [at : Int, end : Int, options : BOOLEAN, done : Completions \cup Segments]
         /\ traj.at >= 0 /\ traj.at <= traj.end /\ traj.at # NoIndex
         /\ index \in Int /\ Len0 \in Nat /\ index \in NoIndex .. Len0
         /\ UNCHANGED <<mission, valid, stored, nextId, keeper, runVars, sched, timer,
                        later, worldVars, historyVars, file, stops>>
         /\ index' = IF OnSegment /\ traj.done.valid THEN traj.at + 1 ELSE index
         /\ ~LastReached => todo' = <<>>
         /\ LastReached /\ ~OnSegment => todo' = <<Call(traj.done)>>
         /\ LastReached /\ OnSegment /\ traj.done.valid => todo' = <<RunItem>>
         /\ LastReached /\ OnSegment /\ ~traj.done.valid => todo' = <<>>
         /\ traj' \in [at : Int, end : Int, options : BOOLEAN, done : Completions \cup Segments]
         /\ traj'.end = traj.end /\ traj'.done = traj.done
         /\ traj'.options = traj.options
         /\ traj'.at = (IF LastReached THEN NoIndex ELSE traj.at + 1)
         /\ traj'.at \in NoIndex .. traj'.end
         /\ (SchedC' <=> SchedC) /\ (TimerC' <=> TimerC) /\ (LaterC' <=> LaterC)
         /\ TrajC' => TrajC
         /\ TrajC' <=> ~LastReached /\ TrajC
         /\ TrajC <=> Continues(traj.done)
         /\ TrajC => traj.end < Len0 /\ index >= 0 /\ index < Len0 /\ valid /\ Waits
         /\ TrajC => ~SchedC /\ ~TimerC /\ ~LaterC
         /\ OnSegment /\ traj.done.valid => TrajC
<1> USE DEF missionVars, stateVars, runVars, pendingVars, worldVars, historyVars
<1> USE DEF LastReached, OnSegment
<1>1. /\ Idle /\ active
  BY DEF WaypointReached, CoreInv, TokenInv
<1>2. /\ traj \in [at : Int, end : Int, options : BOOLEAN, done : Completions \cup Segments]
      /\ traj.at >= 0 /\ traj.at <= traj.end /\ traj.at # NoIndex
      /\ index \in Int /\ Len0 \in Nat /\ index \in NoIndex .. Len0
  BY MissionTypes DEF WaypointReached, CoreInv, TypeOK, NoIndex
<1>3. /\ UNCHANGED <<mission, valid, stored, nextId, keeper, runVars, sched, timer,
                     later, worldVars, historyVars, file, stops>>
      /\ traj' = [traj EXCEPT !.at = IF LastReached THEN NoIndex ELSE traj.at + 1]
      /\ index' = IF OnSegment /\ traj.done.valid THEN traj.at + 1 ELSE index
      /\ ~LastReached => todo' = <<>>
      /\ LastReached /\ ~OnSegment => todo' = <<Call(traj.done)>>
      /\ LastReached /\ OnSegment /\ traj.done.valid => todo' = <<RunItem>>
      /\ LastReached /\ OnSegment /\ ~traj.done.valid => todo' = <<>>
  <2>1. /\ UNCHANGED <<mission, valid, stored, nextId, keeper, runVars, sched, timer,
                       later, worldVars, historyVars, file, stops>>
        /\ traj' = [traj EXCEPT !.at = IF LastReached THEN NoIndex ELSE traj.at + 1]
        /\ index' = IF OnSegment /\ traj.done.valid THEN traj.at + 1 ELSE index
    BY DEF WaypointReached
  <2>2. todo' = CASE ~LastReached -> <<>>
                  [] LastReached /\ ~OnSegment -> <<Call(traj.done)>>
                  [] LastReached /\ OnSegment /\ traj.done.valid -> <<RunItem>>
                  [] OTHER -> <<>>
    BY DEF WaypointReached
  <2> HIDE DEF LastReached, OnSegment
  <2>3. /\ ~LastReached => todo' = <<>>
        /\ LastReached /\ ~OnSegment => todo' = <<Call(traj.done)>>
    BY <2>2
  <2>4. /\ LastReached /\ OnSegment /\ traj.done.valid => todo' = <<RunItem>>
        /\ LastReached /\ OnSegment /\ ~traj.done.valid => todo' = <<>>
    BY <2>2
  <2> QED  BY <2>1, <2>3, <2>4
<1>4. /\ traj' \in [at : Int, end : Int, options : BOOLEAN, done : Completions \cup Segments]
      /\ traj'.end = traj.end /\ traj'.done = traj.done /\ traj'.options = traj.options
      /\ traj'.at = (IF LastReached THEN NoIndex ELSE traj.at + 1)
      /\ traj'.at \in NoIndex .. traj'.end
  BY <1>2, <1>3 DEF NoIndex
<1>5. /\ SchedC' <=> SchedC
      /\ TimerC' <=> TimerC
      /\ LaterC' <=> LaterC
      /\ TrajC' => TrajC
      /\ TrajC' <=> ~LastReached /\ TrajC
      /\ TrajC <=> Continues(traj.done)
  BY <1>2, <1>3, <1>4 DEF SchedC, TimerC, LaterC, TrajC, NoIndex
<1>6. /\ TrajC => traj.end < Len0 /\ index >= 0 /\ index < Len0 /\ valid /\ Waits
      /\ TrajC => ~SchedC /\ ~TimerC /\ ~LaterC
      /\ OnSegment /\ traj.done.valid => TrajC
  BY <1>5 DEF CoreInv, TokenInv, OneToken, Waits, Token, Continues
<1> QED  BY <1>1, <1>2, <1>3, <1>4, <1>5, <1>6

\* What the mission waits for keeps CoreInv when it comes.
LEMMA CoreWaypointReached == CoreInv /\ WaypointReached => CoreInv'
<1> SUFFICES ASSUME CoreInv, WaypointReached PROVE CoreInv'
  OBVIOUS
<1> USE DEF missionVars, stateVars, runVars, pendingVars, worldVars, historyVars
<1>1. /\ Idle /\ active
  BY Reached
<1>2. /\ traj.at \in Int /\ traj.end \in Int /\ traj.at >= 0 /\ traj.at <= traj.end /\ traj.at # NoIndex
      /\ index \in Int /\ Len0 \in Nat /\ index \in NoIndex .. Len0
  BY Reached
<1>3. /\ UNCHANGED <<mission, valid, stored, nextId, keeper, runVars, sched, timer,
                     later, worldVars, historyVars, file, stops>>
      /\ index' = IF OnSegment /\ traj.done.valid THEN traj.at + 1 ELSE index
      /\ ~LastReached => todo' = <<>>
      /\ LastReached /\ ~OnSegment => todo' = <<Call(traj.done)>>
      /\ LastReached /\ OnSegment /\ traj.done.valid => todo' = <<RunItem>>
      /\ LastReached /\ OnSegment /\ ~traj.done.valid => todo' = <<>>
  BY Reached
<1>4. /\ traj' \in [at : Int, end : Int, options : BOOLEAN, done : Completions \cup Segments]
      /\ traj'.end = traj.end /\ traj'.done = traj.done
      /\ traj'.at = (IF LastReached THEN NoIndex ELSE traj.at + 1)
      /\ traj'.at \in NoIndex .. traj'.end
  BY Reached
<1>5. /\ (SchedC' <=> SchedC) /\ (TimerC' <=> TimerC) /\ (LaterC' <=> LaterC)
      /\ TrajC' => TrajC
      /\ TrajC' <=> ~LastReached /\ TrajC
      /\ TrajC <=> Continues(traj.done)
  BY Reached
<1>6. /\ TrajC => traj.end < Len0 /\ index >= 0 /\ index < Len0 /\ valid /\ Waits
      /\ TrajC => ~SchedC /\ ~TimerC /\ ~LaterC
      /\ OnSegment /\ traj.done.valid => TrajC
  BY Reached
<1>7. index' \in NoIndex .. Len0
  BY <1>2, <1>3, <1>6 DEF NoIndex
<1>10. traj.done \in Completions \cup Segments
  BY Reached
<1>8. /\ StackInv' /\ TokenInv' /\ todo' \in Seq(Frames) /\ (Idle \/ active)'
  <2>1. CASE ~LastReached /\ OnSegment /\ traj.done.valid
    <3>1. level' = 0 /\ Len0' = Len0 /\ todo' = <<>>
      BY <1>1, <1>3, <2>1, IdleStack DEF Len0
    <3>2. /\ StackInv' /\ todo' \in Seq(Frames) /\ ~Carries(todo') /\ DOMAIN todo' = {} /\ Idle'
      BY <3>1, NoFrame
    <3>3. index' >= 0 /\ index' < Len0
      BY <1>2, <1>3, <1>6, <2>1 DEF LastReached
    <3>4. TokenInv'
      BY <1>1, <1>3, <1>4, <1>5, <1>6, <2>1, <3>1, <3>2, <3>3
         DEF CoreInv, TokenInv, OneToken, Waits, Token
    <3> QED  BY <3>2, <3>4
  <2>2. CASE ~(OnSegment /\ traj.done.valid) /\ (~LastReached \/ OnSegment)
    BY <1>1, <1>3, <1>4, <1>5, <2>2, WaitsOn DEF CoreInv, TokenInv
  <2>3. CASE LastReached /\ ~OnSegment
    <3> DEFINE f == Call(traj.done)
    <3>1. traj.done \in Closures
      BY <1>10, <2>3, CompletionTypes DEF OnSegment
    <3>2. f \in Frames /\ f.op = "call" /\ f.done = traj.done
      BY <3>1, NewCall
    <3>3. todo' = <<f>> /\ index' = index
      BY <1>3, <2>3
    <3> HIDE DEF f
    <3>4. Carry(f) <=> TrajC
      BY <1>5, <3>2 DEF Carry
    <3>5. Carry(f) => Waits /\ ~Waits' /\ index' >= 0
      BY <1>5, <1>6, <2>3, <3>3, <3>4 DEF Waits
    <3>6. Continues(f.done) => index' < Len0
      BY <1>5, <1>6, <3>2, <3>3
    <3> QED  BY <1>1, <1>3, <1>4, <1>5, <3>2, <3>3, <3>5, <3>6, CallbackComes
  <2>4. CASE LastReached /\ OnSegment /\ traj.done.valid
    <3>1. RunItem \in Frames /\ RunItem.op = "item" /\ ~Continues(RunItem.done)
      BY SimpleFrames, CompletionTypes
    <3>2. todo' = <<RunItem>> /\ index' >= 0 /\ Waits /\ ~Waits'
      BY <1>2, <1>3, <1>5, <1>6, <2>4 DEF Waits
    <3> QED  BY <1>1, <1>3, <1>4, <1>5, <3>1, <3>2, CallbackComes
  <2> QED  BY <2>1, <2>2, <2>3, <2>4
<1>9. TypeOK'
  BY <1>3, <1>4, <1>7, <1>8 DEF CoreInv, TypeOK, Len0
<1> QED  BY <1>8, <1>9 DEF CoreInv

\* abort() by the user, or for a lost position.
LEMMA AbortComes ==
  ASSUME CoreInv, Idle, active, todo' = <<Abort>>,
         UNCHANGED <<mission, valid, active, ownActive, level, index, sched, timer, later, traj>>
  PROVE  /\ StackInv' /\ TokenInv' /\ todo' \in Seq(Frames) /\ (Idle \/ active)'
<1>1. Abort \in Frames /\ Abort.op = "abort" /\ ~Carry(Abort) /\ ~Continues(Abort.done)
  BY SimpleFrames, CompletionTypes DEF Carry
<1> QED  BY <1>1, CallbackComes DEF SchedC, TimerC, LaterC, TrajC

LEMMA CorePositionInvalid == CoreInv /\ PositionInvalid => CoreInv'
<1> SUFFICES ASSUME CoreInv, PositionInvalid PROVE CoreInv'
  OBVIOUS
<1> USE DEF missionVars, stateVars, runVars, pendingVars, worldVars, historyVars
<1>1. Idle /\ active
  BY DEF PositionInvalid, CoreInv, TokenInv
<1>2. /\ StackInv' /\ TokenInv' /\ todo' \in Seq(Frames) /\ (Idle \/ active)'
  BY <1>1, AbortComes DEF PositionInvalid
<1>3. stops' \in 0 .. MaxStops
  BY MissionAssumption DEF PositionInvalid, CoreInv, TypeOK
<1>4. TypeOK'
  BY <1>2, <1>3 DEF PositionInvalid, CoreInv, TypeOK, Len0
<1> QED  BY <1>2, <1>4 DEF CoreInv

LEMMA CoreUserAbort == CoreInv /\ UserAbort => CoreInv'
<1> SUFFICES ASSUME CoreInv, UserAbort PROVE CoreInv'
  OBVIOUS
<1> USE DEF missionVars, stateVars, runVars, pendingVars, worldVars, historyVars
<1>1. /\ StackInv' /\ TokenInv' /\ todo' \in Seq(Frames) /\ (Idle \/ active)'
  BY AbortComes DEF UserAbort
<1>2. TypeOK'
  BY <1>1 DEF UserAbort, CoreInv, TypeOK, Len0
<1> QED  BY <1>1, <1>2 DEF CoreInv

LEMMA CoreModeCompletes ==
  ASSUME CoreInv, NEW ok \in BOOLEAN, ModeCompletes(ok)
  PROVE  CoreInv'
<1> USE DEF missionVars, stateVars, runVars, pendingVars, worldVars, historyVars
<1>1. /\ Idle /\ active /\ sched' = NoSched /\ sched.done \in Closures
      /\ UNCHANGED <<mission, valid, active, ownActive, level, index, timer, later, traj>>
  BY DEF ModeCompletes, CoreInv, TypeOK
<1>2. /\ ~SchedC'
      /\ TimerC' <=> TimerC
      /\ LaterC' <=> LaterC
      /\ TrajC' <=> TrajC
  BY <1>1, CompletionTypes DEF SchedC, TimerC, LaterC, TrajC, NoSched
<1>3. /\ StackInv' /\ TokenInv' /\ todo' \in Seq(Frames) /\ (Idle \/ active)'
  <2>1. CASE todo' = <<Call(sched.done)>>
    <3>1. Call(sched.done) \in Frames /\ Call(sched.done).op = "call"
          /\ Call(sched.done).done = sched.done
      BY <1>1, NewCall
    <3>2. Carry(Call(sched.done)) <=> SchedC
      BY <3>1 DEF Carry, SchedC
    <3>3. SchedC => Waits /\ ~Waits' /\ index >= 0 /\ index < Len0
      BY <1>2 DEF CoreInv, TokenInv, OneToken, Token, Waits
    <3> QED  BY <1>1, <1>2, <2>1, <3>1, <3>2, <3>3, CallbackComes DEF SchedC
  <2>2. CASE todo' = ModeFailed(sched.done)
    <3>1. CASE sched.done.fail = "abort"
      <4>1. todo' = <<Abort>>
        BY <2>2, <3>1 DEF ModeFailed
      <4>2. Abort \in Frames /\ Abort.op = "abort" /\ ~Carry(Abort) /\ ~Continues(Abort.done)
        BY SimpleFrames, CompletionTypes DEF Carry
      <4> QED  BY <1>1, <1>2, <4>1, <4>2, CallbackComes
    <3>2. CASE sched.done.fail = "descend" /\ sched.done.valid
      <4> DEFINE c == [sched.done EXCEPT !.fail = "ignore"]
                 f == RunMode("Descend", c)
      <4>1. todo' = <<f>>
        BY <2>2, <3>2 DEF ModeFailed
      <4>2. sched.done.k = "failure"
        BY <1>1, <3>2, CompletionTypes
      <4>3. c \in Closures /\ ~Continues(c)
        BY <1>1, <4>2, IgnoringClosure
      <4> HIDE DEF c
      <4>4. f \in Frames /\ f.op = "mode" /\ f.done = c
        BY <4>3, NewMode DEF Modes
      <4> HIDE DEF f
      <4>5. ~Carry(f) /\ ~Continues(f.done)
        BY <4>3, <4>4 DEF Carry
      <4> QED  BY <1>1, <1>2, <4>1, <4>4, <4>5, CallbackComes
    <3>3. CASE sched.done.fail # "abort" /\ ~(sched.done.fail = "descend" /\ sched.done.valid)
      <4>1. todo' = <<>>
        BY <2>2, <3>3 DEF ModeFailed
      <4> QED  BY <1>1, <1>2, <4>1, WaitsOn DEF CoreInv, TokenInv
    <3> QED  BY <3>1, <3>2, <3>3
  <2> QED  BY <2>1, <2>2 DEF ModeCompletes
<1>4. /\ sched' \in [mode : Modes \cup {NoMode}, done : Closures]
      /\ activeMode' \in Modes \cup {NoMode} /\ landed' \in BOOLEAN
  <2>1. sched' \in [mode : Modes \cup {NoMode}, done : Closures]
    BY <1>1, CompletionTypes DEF NoSched
  <2>2. activeMode' \in Modes \cup {NoMode}
    BY DEF ModeCompletes, CoreInv, TypeOK
  <2>3. landed' \in BOOLEAN
    <3>1. landed' \in {TRUE, FALSE, landed}
      BY DEF ModeCompletes
    <3> QED  BY <3>1 DEF CoreInv, TypeOK
  <2> QED  BY <2>1, <2>2, <2>3
<1>5. UNCHANGED <<stored, nextId, keeper, itemState, options, nav, aborted, asked, file, stops>>
  BY DEF ModeCompletes
<1>6. TypeOK'
  BY <1>1, <1>3, <1>4, <1>5 DEF CoreInv, TypeOK, Len0
<1> QED  BY <1>3, <1>6 DEF CoreInv

LEMMA CoreTimerExpires == CoreInv /\ TimerExpires => CoreInv'
<1> SUFFICES ASSUME CoreInv, TimerExpires PROVE CoreInv'
  OBVIOUS
<1> USE DEF missionVars, stateVars, runVars, pendingVars, worldVars, historyVars
<1>1. /\ Idle /\ active /\ timer' = Nothing /\ timer \in Closures
      /\ todo' = <<Call(timer)>>
      /\ UNCHANGED <<mission, valid, active, ownActive, level, index, sched, later, traj>>
  BY CompletionTypes DEF TimerExpires, CoreInv, TypeOK
<1>2. ~TimerC' /\ (SchedC' <=> SchedC) /\ (LaterC' <=> LaterC) /\ (TrajC' <=> TrajC)
  BY <1>1, CompletionTypes DEF SchedC, TimerC, LaterC, TrajC
<1>3. Call(timer) \in Frames /\ Call(timer).op = "call" /\ Call(timer).done = timer
  BY <1>1, NewCall
<1>4. Carry(Call(timer)) <=> TimerC
  BY <1>3 DEF Carry, TimerC
<1>5. TimerC => Waits /\ ~Waits' /\ index >= 0 /\ index < Len0
  BY <1>2 DEF CoreInv, TokenInv, OneToken, Token, Waits
<1>6. /\ StackInv' /\ TokenInv' /\ todo' \in Seq(Frames) /\ (Idle \/ active)'
  BY <1>1, <1>2, <1>3, <1>4, <1>5, CallbackComes DEF TimerC
<1>7. timer' \in Completions
  BY <1>1, CompletionTypes
<1>8. TypeOK'
  BY <1>6, <1>7 DEF TimerExpires, CoreInv, TypeOK, Len0
<1> QED  BY <1>6, <1>8 DEF CoreInv

LEMMA CoreLaterCompletes == CoreInv /\ LaterCompletes => CoreInv'
<1> SUFFICES ASSUME CoreInv, LaterCompletes PROVE CoreInv'
  OBVIOUS
<1> USE DEF missionVars, stateVars, runVars, pendingVars, worldVars, historyVars
<1>1. /\ Idle /\ later' = Nothing /\ later \in Closures
      /\ todo' = IF active THEN <<Call(later)>> ELSE <<>>
      /\ UNCHANGED <<mission, valid, active, ownActive, level, index, sched, timer, traj>>
  BY CompletionTypes DEF LaterCompletes, CoreInv, TypeOK
<1>2. ~LaterC' /\ (SchedC' <=> SchedC) /\ (TimerC' <=> TimerC) /\ (TrajC' <=> TrajC)
  BY <1>1, CompletionTypes DEF SchedC, TimerC, LaterC, TrajC
<1>3. Call(later) \in Frames /\ Call(later).op = "call" /\ Call(later).done = later
  BY <1>1, NewCall
<1>4. Carry(Call(later)) <=> LaterC
  BY <1>3 DEF Carry, LaterC
<1>5. LaterC => Waits /\ ~Waits' /\ index >= 0 /\ index < Len0
  BY <1>2 DEF CoreInv, TokenInv, OneToken, Token, Waits
<1>6. /\ StackInv' /\ TokenInv' /\ todo' \in Seq(Frames) /\ (Idle \/ active)'
  <2>1. CASE active
    BY <1>1, <1>2, <1>3, <1>4, <1>5, <2>1, CallbackComes DEF LaterC
  <2>2. CASE ~active
    BY <1>1, <1>2, <2>2, WaitsOn DEF CoreInv, TokenInv
  <2> QED  BY <2>1, <2>2
<1>7. later' \in Completions
  BY <1>1, CompletionTypes
<1>8. TypeOK'
  BY <1>6, <1>7 DEF LaterCompletes, CoreInv, TypeOK, Len0
<1> QED  BY <1>6, <1>8 DEF CoreInv

LEMMA CoreStatusUpdate == CoreInv /\ StatusUpdate => CoreInv'
<1> SUFFICES ASSUME CoreInv, StatusUpdate PROVE CoreInv'
  OBVIOUS
<1> USE DEF missionVars, stateVars, runVars, pendingVars, worldVars, historyVars
<1>1. /\ Idle /\ todo' = <<>> /\ active
      /\ UNCHANGED <<mission, valid, active, level, index, sched, timer, later, traj>>
  BY DEF StatusUpdate, Idle
<1>2. /\ StackInv' /\ TokenInv' /\ todo' \in Seq(Frames) /\ (Idle \/ active)'
  BY <1>1, WaitsOn DEF SchedC, TimerC, LaterC, TrajC
<1>3. ownActive' \in BOOLEAN
  BY DEF StatusUpdate
<1>4. TypeOK'
  BY <1>2, <1>3 DEF StatusUpdate, CoreInv, TypeOK, Len0
<1> QED  BY <1>2, <1>4 DEF CoreInv

LEMMA CoreLandedChanges == CoreInv /\ LandedChanges => CoreInv'
<1> SUFFICES ASSUME CoreInv, LandedChanges PROVE CoreInv'
  OBVIOUS
<1> USE DEF missionVars, stateVars, runVars, pendingVars, worldVars, historyVars
<1>1. /\ Idle /\ todo' = <<>> /\ ~active
      /\ UNCHANGED <<mission, valid, active, ownActive, level, index, sched, timer, later, traj>>
  BY DEF LandedChanges, Idle
<1>2. /\ StackInv' /\ TokenInv' /\ todo' \in Seq(Frames) /\ (Idle \/ active)'
  BY <1>1, WaitsOn DEF CoreInv, TokenInv, SchedC, TimerC, LaterC, TrajC
<1>3. TypeOK'
  BY <1>2 DEF LandedChanges, CoreInv, TypeOK, Len0
<1> QED  BY <1>2, <1>3 DEF CoreInv

\* What interferes with a mission keeps CoreInv.
LEMMA CoreSetMission ==
  ASSUME CoreInv, NEW m \in Missions, SetMission(m)
  PROVE  CoreInv'
<1> USE DEF missionVars, stateVars, runVars, pendingVars, worldVars, historyVars
<1>1. /\ Idle /\ ~active /\ mission' = m
      /\ valid' = (m # <<>> /\ \A i \in DOMAIN m : m[i] # "undefined")
      /\ UNCHANGED <<nextId, keeper, active, itemState, activeMode, options, level, traj, sched,
                     timer, later, nav, ownActive, landed, aborted, file, stops, todo>>
  BY DEF SetMission
<1>2. Len(m) \in Nat /\ Len0' = Len(m)
  BY <1>1, MissionAssumption DEF Len0
<1>3. /\ index' \in NoIndex .. Len0' /\ index' < Len0'
      /\ asked' \in Asked
      /\ StoredTypes(stored')
  <2>1. file \in Files
    BY DEF CoreInv, TypeOK
  <2>2. CASE Persistence /\ file.mission = m /\ file.index \in 0 .. Len(m) - 1
    <3>1. index' = file.index /\ asked' = file.asked
          /\ stored' = [i \in 0 .. Len(file.actions) - 1 |-> file.actions[i + 1]]
      BY <2>2 DEF SetMission
    <3>2. file.actions \in Seq(Continuous) /\ file.asked \in Asked
      BY <2>1 DEF Files
    <3> DEFINE n == Len(file.actions)
    <3>3. n \in Nat /\ \A i \in 0 .. n - 1 : file.actions[i + 1] \in Continuous
      BY <3>2
    <3>4. IsFiniteSet(0 .. n - 1)
      BY <3>3, FS_Interval
    <3>5. StoredTypes(stored')
      BY <3>1, <3>3, <3>4 DEF StoredTypes
    <3> QED  BY <1>2, <2>2, <3>1, <3>2, <3>5 DEF NoIndex
  <2>3. CASE ~(Persistence /\ file.mission = m /\ file.index \in 0 .. Len(m) - 1)
    <3>1. index' = NoIndex /\ asked' = "default" /\ stored' = <<>>
      BY <2>3 DEF SetMission
    <3> QED  BY <1>2, <3>1, NothingStored DEF NoIndex, Asked
  <2> QED  BY <2>2, <2>3
<1>4. /\ StackInv'
      /\ ~Carries(todo') /\ DOMAIN todo' = {}
  BY <1>1, IdleStack, NoFrame DEF Idle
<1>5. ~Waits'
  BY <1>1 DEF CoreInv, TokenInv, Token, Waits, SchedC, TimerC, LaterC, TrajC
<1>6. TokenInv'
  <2>1. ~Token' /\ OneToken' /\ ~TrajC'
    BY <1>4, <1>5 DEF Token, OneToken, Waits
  <2>2. (valid => mission # <<>> /\ \A i \in DOMAIN mission : mission[i] # "undefined")'
    BY <1>1
  <2>3. ~active' /\ ~ownActive'
    BY <1>1 DEF CoreInv, TokenInv
  <2> QED  BY <1>3, <1>4, <1>5, <2>1, <2>2, <2>3 DEF TokenInv
<1>7. TypeOK'
  <2>1. valid' \in BOOLEAN
    BY <1>1
  <2>2. mission' \in Missions \cup {<<>>}
    BY <1>1
  <2> QED  BY <1>1, <1>3, <2>1, <2>2 DEF CoreInv, TypeOK, Idle, StoredTypes
<1> QED  BY <1>4, <1>6, <1>7 DEF CoreInv

LEMMA CoreResetMission == CoreInv /\ ResetMission => CoreInv'
<1> SUFFICES ASSUME CoreInv, ResetMission PROVE CoreInv'
  OBVIOUS
<1> USE DEF missionVars, stateVars, runVars, pendingVars, worldVars, historyVars
<1>1. /\ Idle /\ ~active /\ mission' = <<>> /\ valid' = FALSE
      /\ index' = NoIndex /\ stored' = <<>> /\ asked' = "default"
      /\ UNCHANGED <<nextId, keeper, active, itemState, activeMode, options, level, traj, sched,
                     timer, later, nav, ownActive, landed, aborted, file, todo>>
  BY DEF ResetMission
<1>2. Len0' = 0
  BY <1>1 DEF Len0
<1>3. /\ StackInv'
      /\ ~Carries(todo') /\ DOMAIN todo' = {}
  BY <1>1, IdleStack, NoFrame DEF Idle
<1>4. ~Waits'
  BY <1>1 DEF CoreInv, TokenInv, Token, Waits, SchedC, TimerC, LaterC, TrajC
<1>5. TokenInv'
  <2>1. ~Token' /\ OneToken' /\ ~TrajC'
    BY <1>3, <1>4 DEF Token, OneToken, Waits
  <2>2. ~active' /\ ~ownActive' /\ ~valid'
    BY <1>1 DEF CoreInv, TokenInv
  <2>3. index' < Len0'
    BY <1>1, <1>2 DEF NoIndex
  <2> QED  BY <1>3, <1>4, <2>1, <2>2, <2>3 DEF TokenInv
<1>6. TypeOK'
  <2>1. index' \in NoIndex .. Len0' /\ asked' \in Asked
    BY <1>1, <1>2 DEF NoIndex, Asked
  <2>2. StoredTypes(stored')
    BY <1>1, NothingStored
  <2>3. stops' \in 0 .. MaxStops
    BY MissionAssumption DEF ResetMission, CoreInv, TypeOK
  <2> QED  BY <1>1, <2>1, <2>2, <2>3 DEF CoreInv, TypeOK, Idle, StoredTypes
<1> QED  BY <1>3, <1>5, <1>6 DEF CoreInv

LEMMA CoreActivate == CoreInv /\ Activate => CoreInv'
<1> SUFFICES ASSUME CoreInv, Activate PROVE CoreInv'
  OBVIOUS
<1> USE DEF missionVars, stateVars, runVars, pendingVars, worldVars, historyVars
<1>1. /\ Idle /\ ~active /\ active' = TRUE /\ nav' = "own" /\ itemState' = "Other"
      /\ activeMode' = "own" /\ options' = FALSE /\ aborted' = FALSE
      /\ UNCHANGED <<mission, valid, stored, nextId, keeper, level, traj, sched, timer, later,
                     ownActive, landed, file, stops>>
  BY DEF Activate
<1>2. Len0' = Len0 /\ Len0 \in Nat /\ index \in Int /\ mission \in Seq(Items)
  BY <1>1, MissionTypes DEF CoreInv, Len0
<1>3. level' = 0 /\ ~Waits /\ index < Len0
  BY <1>1, IdleStack DEF CoreInv, TokenInv, Token
<1>4. ~Waits' /\ ~TrajC'
  BY <1>1, <1>3 DEF Waits, SchedC, TimerC, LaterC, TrajC
<1>5. /\ index' \in NoIndex .. Len0 /\ asked' \in Asked
      /\ valid => index' >= 0 /\ index' < Len0
  <2>1. CASE valid
    <3>1. mission # <<>>
      BY <2>1 DEF CoreInv, TokenInv
    <3>2. Len0 > 0
      BY <1>2, <3>1 DEF Len0
    <3>3. index' = (IF index = NoIndex THEN 0 ELSE index)
          /\ asked' = (IF index = NoIndex THEN "default" ELSE asked)
      BY <2>1 DEF Activate
    <3>4. asked' \in Asked
      BY <3>3 DEF CoreInv, TypeOK, Asked
    <3>5. index \in NoIndex .. Len0
      BY DEF CoreInv, TypeOK
    <3>6. index' \in NoIndex .. Len0 /\ index' >= 0 /\ index' < Len0
      BY <1>2, <1>3, <3>2, <3>3, <3>5 DEF NoIndex
    <3> QED  BY <3>4, <3>6
  <2>2. CASE ~valid
    <3>1. UNCHANGED <<index, asked>>
      BY <2>2 DEF Activate
    <3> QED  BY <2>2, <3>1 DEF CoreInv, TypeOK
  <2> QED  BY <2>1, <2>2
<1> DEFINE a == IF index = NoIndex THEN "start" ELSE "resume"
           f == Frame("begin", a, Closure("begin"))
           g == Frame("begin", "resume", Closure("begin"))
<1>6. /\ f \in Frames /\ f.op = "begin"
      /\ g \in Frames /\ g.op = "begin" /\ g.op \in Parked
  <2> DEFINE c == Closure("begin")
  <2>1. c \in Begins
    BY NewClosures
  <2>2. a \in {"start", "resume"}
    OBVIOUS
  <2> HIDE DEF c, a
  <2> QED  BY <2>1, <2>2, NewBegin DEF c, Parked
<1>7. Abort \in Frames /\ Abort.op = "abort" /\ ~Carry(Abort) /\ ~Continues(Abort.done)
  BY SimpleFrames, CompletionTypes DEF Carry
<1>8. IF valid THEN todo' = <<f>> \/ todo' = <<Abort, g>> ELSE todo' = <<Abort>>
  BY DEF Activate
<1> HIDE DEF f, g
<1>9. /\ StackInv' /\ todo' \in Seq(Frames)
      /\ Carries(todo') => valid
      /\ \A i \in DOMAIN todo' : Continues(todo'[i].done) => valid
  <2>1. CASE valid /\ todo' = <<f>>
    BY <1>3, <1>6, <2>1, OneFrame
  <2>2. CASE valid /\ todo' = <<Abort, g>>
    BY <1>3, <1>6, <1>7, <2>2, TwoFrames
  <2>3. CASE ~valid /\ todo' = <<Abort>>
    BY <1>3, <1>7, <2>3, OneFrame
  <2> QED  BY <1>8, <2>1, <2>2, <2>3
<1>10. TokenInv'
  <2>1. OneToken'
    BY <1>4 DEF OneToken, Waits
  <2>2. Token' => valid
    BY <1>4, <1>9 DEF Token
  <2>3. (valid => mission # <<>> /\ \A i \in DOMAIN mission : mission[i] # "undefined")'
    BY <1>1 DEF CoreInv, TokenInv
  <2> QED  BY <1>1, <1>2, <1>4, <1>5, <1>9, <2>1, <2>2, <2>3 DEF TokenInv
<1>11. TypeOK'
  BY <1>1, <1>2, <1>5, <1>9 DEF CoreInv, TypeOK, Modes
<1> QED  BY <1>9, <1>10, <1>11 DEF CoreInv

\* What is saved is a file.
LEMMA FileTypes ==
  ASSUME TypeOK, NEW st, StoredTypes(st)
  PROVE  Saved(st) \in Files /\ NoFile \in Files /\ Garbage \in Files
<1>1. mission \in Seq(Items) /\ index \in Int /\ asked \in Asked
  BY MissionTypes DEF TypeOK
<1>2. InOrder(st) \in Seq(Continuous)
  BY StoredInOrder
<1>3. Saved(st) \in Files
  BY <1>1, <1>2 DEF Saved, Files
<1>4. NoFile \in Files /\ Garbage \in Files
  <2>1. <<>> \in Seq(Items) /\ <<>> \in Seq(Continuous)
    OBVIOUS
  <2>2. NoFile \in Files
    BY <2>1 DEF NoFile, Files, Asked, NoIndex
  <2>3. \A f \in Files : [f EXCEPT !.index = 0] \in Files
    BY DEF Files
  <2> QED  BY <2>2, <2>3 DEF Garbage
<1> QED  BY <1>3, <1>4

LEMMA CoreDeactivate ==
  ASSUME CoreInv, NEW mode \in {"own", "Loiter"}, NEW known \in LandedKnown,
         NEW result \in SaveResults, Deactivate(mode, known, result)
  PROVE  CoreInv'
<1> USE DEF missionVars, stateVars, runVars, pendingVars, worldVars, historyVars
<1>1. /\ Idle /\ active /\ active' = FALSE /\ ownActive' = FALSE /\ nav' = mode
      /\ sched' = NoSched /\ timer' = Nothing
      /\ traj' = WithInvalid(traj) /\ later' = Invalid(later)
      /\ UNCHANGED <<mission, valid, itemState, activeMode, options, level, landed, aborted, todo>>
  BY DEF Deactivate, InvalidateRest
<1>2. Len0' = Len0 /\ Len0 \in Nat /\ index \in Int
  BY <1>1, MissionTypes DEF CoreInv, Len0
<1>3. /\ traj' \in [at : Int, end : Int, options : BOOLEAN, done : Completions \cup Segments]
      /\ traj'.at = traj.at /\ traj'.end = traj.end /\ ~Continues(traj'.done)
  <2>1. /\ traj \in [at : Int, end : Int, options : BOOLEAN, done : Completions \cup Segments]
    BY DEF CoreInv, TypeOK
  <2>2. Invalid(traj.done) \in Completions \cup Segments /\ ~Continues(Invalid(traj.done))
    BY <2>1, InvalidClosure
  <2> QED  BY <1>1, <2>1, <2>2 DEF WithInvalid
<1>4. later' \in Completions /\ ~Continues(later')
  BY <1>1, InvalidClosure DEF CoreInv, TypeOK
<1>5. /\ sched' \in [mode : Modes \cup {NoMode}, done : Closures] /\ ~Continues(sched'.done)
      /\ timer' \in Completions /\ ~Continues(timer')
  BY <1>1, CompletionTypes DEF NoSched
<1>6. ~Waits' /\ ~TrajC'
  BY <1>3, <1>4, <1>5 DEF Waits, SchedC, TimerC, LaterC, TrajC
<1>7. /\ index' \in NoIndex .. Len0 /\ index' < Len0 /\ asked' \in Asked
      /\ StoredTypes(stored') /\ nextId' \in Nat
      /\ keeper' \in [Continuous -> Nat \cup {NoId}]
      /\ file' \in Files
  <2>1. /\ StoredTypes(stored) /\ nextId \in Nat /\ keeper \in [Continuous -> Nat \cup {NoId}]
        /\ file \in Files /\ asked \in Asked /\ TypeOK
    BY DEF CoreInv, TypeOK, StoredTypes
  <2>2. Dropped \in [Continuous -> Nat \cup {NoId}]
    BY <2>1 DEF Dropped
  <2>3. CASE Finished(known) /\ index # NoIndex
    <3>1. /\ index' = NoIndex /\ stored' = <<>> /\ asked' = "default"
          /\ file' = NoFile /\ keeper' = Dropped /\ nextId' = nextId
      BY <2>3 DEF Deactivate
    <3>2. NoFile \in Files /\ StoredTypes(<<>>)
      BY <2>1, NothingStored, FileTypes
    <3>3. index' \in NoIndex .. Len0 /\ index' < Len0
      BY <1>2, <3>1 DEF NoIndex
    <3> QED  BY <2>1, <2>2, <3>1, <3>2, <3>3 DEF Asked
  <2>4. CASE ~(Finished(known) /\ index # NoIndex)
    <3> DEFINE storing == OnResume = "storing"
               st == IF storing THEN With(nextId, "onResume") ELSE stored
    <3>1. /\ stored' = st
          /\ nextId' = IF storing THEN nextId + 1 ELSE nextId
          /\ keeper' = IF storing THEN [Dropped EXCEPT !["onResume"] = nextId] ELSE Dropped
          /\ UNCHANGED <<index, asked>>
      BY <2>4 DEF Deactivate
    <3>2. file' \in {file, NoFile, Saved(st), Garbage}
      BY <2>4, MissionAssumption DEF Deactivate
    <3>3. StoredTypes(st)
      <4>1. StoredTypes(With(nextId, "onResume"))
        BY <2>1, StoredWith DEF Continuous
      <4> QED  BY <2>1, <4>1
    <3> HIDE DEF st
    <3>4. file' \in Files
      BY <2>1, <3>2, <3>3, FileTypes
    <3>5. index < Len0
      BY <1>2, <2>4 DEF Finished, NoIndex
    <3>6. keeper' \in [Continuous -> Nat \cup {NoId}] /\ nextId' \in Nat
      <4>1. [Dropped EXCEPT !["onResume"] = nextId] \in [Continuous -> Nat \cup {NoId}]
        BY <2>1, <2>2
      <4>2. nextId + 1 \in Nat
        BY <2>1
      <4> QED  BY <2>1, <2>2, <3>1, <4>1, <4>2
    <3>7. index \in NoIndex .. Len0
      BY DEF CoreInv, TypeOK
    <3> QED  BY <2>1, <3>1, <3>3, <3>4, <3>5, <3>6, <3>7
  <2> QED  BY <2>3, <2>4
<1>8. /\ StackInv'
      /\ ~Carries(todo') /\ DOMAIN todo' = {}
  BY <1>1, IdleStack, NoFrame DEF Idle
<1>9. TokenInv'
  <2>1. ~Token' /\ OneToken'
    BY <1>6, <1>8 DEF Token, OneToken, Waits
  <2>2. (valid => mission # <<>> /\ \A i \in DOMAIN mission : mission[i] # "undefined")'
    BY <1>1 DEF CoreInv, TokenInv
  <2> QED  BY <1>1, <1>2, <1>6, <1>7, <1>8, <2>1, <2>2 DEF TokenInv
<1>10. TypeOK'
  <2>1. stops' \in 0 .. MaxStops
    BY MissionAssumption DEF Deactivate, CoreInv, TypeOK
  <2>2. traj'.at \in NoIndex .. traj'.end
    BY <1>3 DEF CoreInv, TypeOK
  <2>3. nav' \in Modes
    BY <1>1 DEF Modes
  <2> QED  BY <1>1, <1>2, <1>3, <1>4, <1>5, <1>7, <2>1, <2>2, <2>3
          DEF CoreInv, TypeOK, Idle, StoredTypes
<1> QED  BY <1>8, <1>9, <1>10 DEF CoreInv

\* A process that has just started.
LEMMA CoreMemory ==
  ASSUME mission = <<>>, valid = FALSE, active = FALSE, index = NoIndex, level = 0, todo = <<>>,
         ownActive = FALSE, traj = NoTraj, sched = NoSched, timer = Nothing, later = Nothing
  PROVE  StackInv /\ TokenInv
<1>1. /\ <<>> \in Seq(Frames) /\ Shape(<<>>) /\ ~Carries(<<>>) /\ DOMAIN <<>> = {}
  <2>1. DOMAIN <<>> = {}
    OBVIOUS
  <2> QED  BY <2>1, Stacks
<1>2. Level(<<>>) = 0
  BY <1>1, NoLevel
<1>3. StackInv
  BY <1>1, <1>2 DEF StackInv, HeadIs
<1>4. ~Waits
  BY CompletionTypes DEF Waits, SchedC, TimerC, LaterC, TrajC, NoTraj, NoSched
<1>5. ~Token /\ OneToken /\ ~TrajC
  BY <1>1, <1>4 DEF Token, OneToken, Waits
<1>6. index < Len0
  BY DEF Len0, NoIndex
<1> QED  BY <1>1, <1>3, <1>4, <1>5, <1>6 DEF TokenInv

\* A process that starts has an empty stack and no token.
LEMMA MemoryCore == Memory => StackInv /\ TokenInv
<1> SUFFICES ASSUME Memory PROVE StackInv /\ TokenInv
  OBVIOUS
<1> QED  BY CoreMemory DEF Memory

\* What a process that has just started keeps in its variables.
LEMMA MemoryTypes ==
  /\ NoTraj \in [at : Int, end : Int, options : BOOLEAN, done : Completions \cup Segments]
  /\ NoTraj.at \in NoIndex .. NoTraj.end
  /\ NoSched \in [mode : Modes \cup {NoMode}, done : Closures]
  /\ StoredTypes(<<>>)
  /\ [n \in Continuous |-> NoId] \in [Continuous -> Nat \cup {NoId}]
<1>1. NoTraj.at \in NoIndex .. NoTraj.end
  BY DEF NoTraj, NoIndex
<1>2. NoTraj \in [at : Int, end : Int, options : BOOLEAN, done : Completions \cup Segments]
  BY CompletionTypes DEF NoTraj, NoIndex
<1>3. NoSched \in [mode : Modes \cup {NoMode}, done : Closures]
  BY CompletionTypes DEF NoSched
<1>4. [n \in Continuous |-> NoId] \in [Continuous -> Nat \cup {NoId}]
  OBVIOUS
<1> QED  BY <1>1, <1>2, <1>3, <1>4, NothingStored

\* A process that starts satisfies CoreInv, whatever the file and the FMU.
LEMMA MemoryTyped ==
  Memory /\ file \in Files /\ nav \in Modes /\ landed \in BOOLEAN /\ stops \in 0 .. MaxStops
    => CoreInv
<1> SUFFICES ASSUME Memory, file \in Files, nav \in Modes, landed \in BOOLEAN,
                    stops \in 0 .. MaxStops
             PROVE  CoreInv
  OBVIOUS
<1>1. StackInv /\ TokenInv
  BY MemoryCore
<1>2. /\ mission = <<>> /\ valid = FALSE /\ active = FALSE
      /\ itemState = "Other" /\ activeMode = NoMode /\ index = NoIndex /\ stored = <<>>
      /\ nextId = 0 /\ keeper = [n \in Continuous |-> NoId] /\ options = FALSE
      /\ traj = NoTraj /\ sched = NoSched /\ timer = Nothing /\ later = Nothing
      /\ level = 0 /\ todo = <<>> /\ ownActive = FALSE
      /\ aborted = FALSE /\ asked = "default"
  BY DEF Memory
<1>3. /\ index \in NoIndex .. Len0 /\ level \in 0 .. MaxLevel + 1 /\ asked \in Asked
  BY <1>2, MissionAssumption DEF Len0, NoIndex, Asked
<1>4. StoredTypes(stored)
  BY <1>2, NothingStored
<1>5. todo \in Seq(Frames)
  BY <1>2
<1>6. timer \in Completions /\ later \in Completions
  BY <1>2, CompletionTypes
<1>7. TypeOK
  BY <1>2, <1>3, <1>4, <1>5, <1>6, MemoryTypes DEF TypeOK, Idle, StoredTypes
<1> QED  BY <1>1, <1>7 DEF CoreInv

LEMMA CoreInit == Init => CoreInv
<1> SUFFICES ASSUME Init PROVE CoreInv
  OBVIOUS
<1>1. NoFile \in Files
  <2>1. <<>> \in Seq(Items) /\ <<>> \in Seq(Continuous)
    OBVIOUS
  <2> QED  BY <2>1 DEF NoFile, Files, Asked, NoIndex
<1>2. file \in Files /\ nav \in Modes /\ landed \in BOOLEAN /\ stops \in 0 .. MaxStops
  BY <1>1, MissionAssumption DEF Init, Modes
<1> QED  BY <1>2, MemoryTyped DEF Init

LEMMA CoreCrash == CoreInv /\ Crash => CoreInv'
<1> USE DEF missionVars, stateVars, runVars, pendingVars, worldVars, historyVars
<1>1. (Memory /\ file \in Files /\ nav \in Modes /\ landed \in BOOLEAN /\ stops \in 0 .. MaxStops
         => CoreInv)'
  BY MemoryTyped, PTL
<1>2. CoreInv /\ Crash => Memory'
  <2>1. SUFFICES ASSUME CoreInv, Crash PROVE Memory'
    OBVIOUS
  <2>2. todo' = <<>>
    BY <2>1 DEF Crash, Idle
  <2> QED  BY <2>1, <2>2 DEF Crash, Memory
<1>3. CoreInv /\ Crash =>
        (file \in Files /\ nav \in Modes /\ landed \in BOOLEAN /\ stops \in 0 .. MaxStops)'
  <2>1. SUFFICES ASSUME CoreInv, Crash
        PROVE (file \in Files /\ nav \in Modes /\ landed \in BOOLEAN /\ stops \in 0 .. MaxStops)'
    OBVIOUS
  <2>2. /\ file \in Files /\ nav \in Modes /\ landed \in BOOLEAN /\ stops \in 0 .. MaxStops
        /\ TypeOK /\ StoredTypes(<<>>)
    BY <2>1, NothingStored DEF CoreInv, TypeOK
  <2>3. file' = file \/ file' = Garbage
    BY <2>1 DEF Crash
  <2>4. Garbage \in Files
    BY <2>2, FileTypes
  <2>5. stops' \in 0 .. MaxStops /\ nav' = nav /\ landed' = landed
    BY <2>1, <2>2, MissionAssumption DEF Crash
  <2> QED  BY <2>2, <2>3, <2>4, <2>5
<1> QED  BY <1>1, <1>2, <1>3

-----------------------------------------------------------------------------
(* CoreInv is an invariant.                                                *)

LEMMA CoreStuttering == CoreInv /\ UNCHANGED vars => CoreInv'
BY DEF CoreInv, TypeOK, StackInv, TokenInv, vars, missionVars, stateVars, runVars, pendingVars,
       worldVars, historyVars, Idle, Len0, Level, Shape, HeadIs, OneToken, Token, Waits,
       SchedC, TimerC, LaterC, TrajC, Carries, Carry

\* Every step of the specification keeps CoreInv.
LEMMA CoreStep == CoreInv /\ [Next]_vars => CoreInv'
<1> SUFFICES ASSUME CoreInv, [Next]_vars PROVE CoreInv'
  OBVIOUS
<1>1. CASE Step
  BY <1>1, CoreBegin, CoreItemRuns, CoreFlying, CoreModeRuns, CoreModeActionRuns, CoreHoldRuns,
     CoreHoldStarts, CoreChangeSettingsRuns, CoreCameraRuns, CoreCustomRuns, CoreOnResumeRuns,
     CoreOnFailureRuns, CoreStoredRun, CoreAborts, CoreAbortReturns, CoreCallRuns
     DEF Step
<1>2. CASE Answers
  BY <1>2, CoreWaypointReached, CoreModeCompletes, CoreTimerExpires, CoreLaterCompletes,
     CoreStatusUpdate DEF Answers
<1>3. CASE Interference
  BY <1>3, CoreSetMission, CoreResetMission, CoreUserAbort, CoreActivate, CoreDeactivate,
     CoreCrash, CorePositionInvalid, CoreModeCompletes, CoreLandedChanges DEF Interference
<1>4. CASE UNCHANGED vars
  BY <1>4, CoreStuttering
<1> QED  BY <1>1, <1>2, <1>3, <1>4 DEF Next

\* The calls that are left of a callback are a stack whose last frame alone
\* may carry the mission on, and then nothing else does: no mode, timer,
\* action or trajectory (runCurrentMissionItem(), abort() and the
\* ActionHandler that completions capture).
THEOREM CoreHolds == Spec => []CoreInv
<1>1. Init => CoreInv
  BY CoreInit
<1>2. CoreInv /\ [Next]_vars => CoreInv'
  BY CoreStep
<1> QED  BY <1>1, <1>2, PTL DEF Spec

\* Every variable stays in its type: in particular the index stays within the
\* mission or one past it, a trajectory is at most at its end, and a callback
\* runs only in an active mission.
THEOREM TypeCorrect == Spec => []TypeOK
<1>1. CoreInv => TypeOK
  BY DEF CoreInv
<1> QED  BY <1>1, CoreHolds, PTL

\* Aborts nest no deeper than the bound, and the level counts those that are
\* running, so that it is 0 between callbacks (_abort_recursion_level in
\* abort()).
THEOREM AbortLevelCounts == Spec => []AbortsNested
<1>1. CoreInv => AbortsNested
  BY MissionAssumption DEF CoreInv, StackInv, Level, TypeOK, AbortsNested
<1> QED  BY <1>1, CoreHolds, PTL

-----------------------------------------------------------------------------
(* The steps of a callback, told apart by the token.                       *)

\* The frames by which a step replaces a first frame without the token.
Pushes(fr) ==
  /\ QuietFrames(fr)
  /\ todo' = fr \o Tail(todo)
  /\ \/ fr = <<>> /\ todo[1].op \in {"begin", "flying", "mode", "hold", "call"}
     \/ /\ fr = <<Abort>>
        /\ \/ todo[1].op \in {"mode", "action"}
           \/ todo[1].op = "restore" /\ "abort" \in StoredOutcomes
     \/ /\ \E f \in Frames : f.op = "mode" /\ fr = <<f>>
        /\ \/ todo[1].op = "action"
           \/ todo[1].op = "mode" /\ todo[1].done.k = "failure"
     \/ fr = <<Call(Nothing)>> /\ todo[1].op = "restore"
     \/ todo[1].op = "stored" /\ \A i \in DOMAIN fr : fr[i].op = "restore" /\ fr[i].done = Nothing

QuietResult ==
  /\ UNCHANGED <<mission, valid, active, ownActive, index, level, aborted, later, traj, file>>
  /\ todo[1].op \notin {"restore", "stored"} => UNCHANGED <<stored, nextId, keeper, options, asked>>
  /\ todo[1].op = "action" => todo[1].arg = "onFailure"
  /\ todo[1].op # "mode" => UNCHANGED <<sched, activeMode, nav>>
  /\ todo[1].op # "hold" => timer' = timer
  /\ SchedC' => SchedC /\ sched' = sched
  /\ TimerC' => TimerC /\ timer' = timer
  /\ sched'.done.k = "failure" => sched.done.k = "failure" \/ todo[1].done.k = "failure"
  /\ itemState' = IF todo[1].op = "flying" THEN "Trajectory"
                  ELSE IF todo[1].op \in {"mode", "action"} THEN "Other" ELSE itemState
  /\ \E fr : Pushes(fr)

\* A step whose first frame has no token pushes frames that have none.
LEMMA QuietSteps ==
  ASSUME CoreInv, Step, ~Carry(todo[1]), todo[1].op \notin {"abort", "aborted"}
  PROVE  QuietResult
<1> USE DEF missionVars, stateVars, runVars, pendingVars, worldVars, historyVars
<1>1. ~Idle
  BY DEF Step, Begin, ItemRuns, Flying, ModeRuns, ModeActionRuns, HoldRuns, HoldStarts,
         ChangeSettingsRuns, CameraRuns, CustomRuns, OnResumeRuns, OnFailureRuns, StoredRun,
         Aborts, AbortReturns, CallRuns, Action, Top
<1>2. /\ Head(todo) = todo[1] /\ todo[1] \in Frames /\ Done = todo[1].done /\ Arg = todo[1].arg
      /\ active
  BY <1>1, TopFrame DEF CoreInv, Done, Arg
<1>3. ~Continues(todo[1].done) /\ todo[1].op # "item"
  BY DEF Carry
<1>4. QuietFrames(<<>>) /\ QuietFrames(<<Abort>>) /\ Nothing.k = "nothing" /\ ~Continues(Nothing)
  BY QuietStacks, CompletionTypes
<1>5. CASE Begin
  <2>1. todo[1].op = "begin"
    BY <1>2, <1>5 DEF Begin, Top
  <2>2. ~Done.valid
    BY <1>2, <1>3, <2>1, FrameTypes, CompletionTypes DEF Continues
  <2>3. Pushes(<<>>)
    BY <1>4, <1>5, <2>1, <2>2 DEF Begin, Pushes, Then
  <2> QED  BY <1>5, <2>1, <2>2, <2>3 DEF QuietResult, Begin, SchedC, TimerC
<1>6. CASE Flying
  <2>1. todo[1].op = "flying"
    BY <1>2, <1>6 DEF Flying, Top
  <2>2. Pushes(<<>>)
    BY <1>4, <1>6, <2>1 DEF Flying, Pushes, Then
  <2> QED  BY <1>6, <2>1, <2>2 DEF QuietResult, Flying, SchedC, TimerC
<1>7. CASE ModeRuns
  <2>1. todo[1].op = "mode"
    BY <1>2, <1>7 DEF ModeRuns, Top
  <2>2. \E fr : Pushes(fr)
    <3>1. CASE Then(<<>>)
      BY <1>4, <2>1, <3>1 DEF Pushes, Then
    <3>2. CASE Then(ModeFailed(Done)) /\ Done.fail = "descend" /\ Done.valid
      <4> DEFINE c == [Done EXCEPT !.fail = "ignore"]
                 f == RunMode("Descend", c)
      <4>1. Done \in Closures /\ Done.k = "failure"
        BY <1>2, <2>1, <3>2, FrameTypes, CompletionTypes
      <4>2. c \in Closures /\ ~Continues(c)
        BY <4>1, IgnoringClosure
      <4>3. todo' = <<f>> \o Tail(todo)
        BY <3>2 DEF ModeFailed, Then
      <4> HIDE DEF c
      <4>4. f \in Frames /\ f.op = "mode" /\ f.done = c
        BY <4>2, NewMode DEF Modes
      <4> HIDE DEF f
      <4>5. QuietFrames(<<f>>)
        BY <4>2, <4>4, QuietStacks
      <4>6. Pushes(<<f>>)
        BY <1>2, <2>1, <4>1, <4>3, <4>4, <4>5 DEF Pushes
      <4> QED  BY <4>6
    <3>3. CASE Then(ModeFailed(Done)) /\ ~(Done.fail = "descend" /\ Done.valid)
      <4>1. Then(<<Abort>>) \/ Then(<<>>)
        BY <3>3 DEF ModeFailed
      <4>2. Pushes(<<Abort>>) \/ Pushes(<<>>)
        BY <1>4, <2>1, <4>1 DEF Pushes, Then
      <4> QED  BY <4>2
    <3> QED  BY <1>7, <3>1, <3>2, <3>3 DEF ModeRuns
  <2>3. ~Continues(sched'.done) /\ sched'.done.k \in {"nothing", todo[1].done.k}
    BY <1>2, <1>3, <1>4, <1>7 DEF ModeRuns, NoSched
  <2>4. UNCHANGED <<mission, valid, active, ownActive, index, level, aborted, later, traj, timer,
                    file, stored, nextId, keeper, options, asked>>
        /\ itemState' = "Other"
    BY <1>7 DEF ModeRuns
  <2> QED  BY <1>4, <2>1, <2>2, <2>3, <2>4 DEF QuietResult, SchedC, TimerC
<1>8. CASE HoldStarts
  <2>1. todo[1].op = "hold"
    BY <1>2, <1>8 DEF HoldStarts, Top
  <2>2. Pushes(<<>>)
    BY <1>4, <1>8, <2>1 DEF HoldStarts, Pushes, Then
  <2> QED  BY <1>2, <1>3, <1>8, <2>1, <2>2 DEF QuietResult, HoldStarts, SchedC, TimerC
<1>9. CASE ChangeSettingsRuns
  <2>1. PICK name \in {"settings", "reset"} : Action(name)
    BY <1>9 DEF ChangeSettingsRuns
  <2>2. todo[1].op = "restore" /\ Done = Nothing /\ itemState' = itemState
    BY <1>2, <2>1, ActionTop
  <2>3. Call(Nothing) \in Frames /\ Call(Nothing).op = "call" /\ Call(Nothing).done = Nothing
    BY NewCall, CompletionTypes
  <2>4. QuietFrames(<<Call(Nothing)>>)
    BY <1>4, <2>3, QuietStacks
  <2>5. Pushes(<<Call(Nothing)>>)
    BY <1>9, <2>2, <2>4 DEF ChangeSettingsRuns, Pushes, Then
  <2> QED  BY <1>9, <2>2, <2>5 DEF QuietResult, ChangeSettingsRuns, Unmoved, SchedC, TimerC
<1>10. CASE CameraRuns
  <2>1. Action("camera")
    BY <1>10 DEF CameraRuns
  <2>2. todo[1].op = "restore" /\ Done = Nothing /\ itemState' = itemState
    BY <1>2, <2>1, ActionTop
  <2>3. Call(Nothing) \in Frames /\ Call(Nothing).op = "call" /\ Call(Nothing).done = Nothing
    BY NewCall, CompletionTypes
  <2>4. QuietFrames(<<Call(Nothing)>>)
    BY <1>4, <2>3, QuietStacks
  <2>5. \E fr : Pushes(fr)
    <3>1. CASE Then(<<Call(Done)>>)
      BY <2>2, <2>4, <3>1 DEF Pushes, Then
    <3>2. CASE Then(<<Abort>>) /\ "abort" \in StoredOutcomes
      BY <1>4, <2>2, <3>2 DEF Pushes, Then
    <3> QED  BY <1>10, <3>1, <3>2 DEF CameraRuns
  <2> QED  BY <1>10, <2>2, <2>5 DEF QuietResult, CameraRuns, Unmoved, SchedC, TimerC
<1>11. CASE OnFailureRuns
  <2>1. Action("onFailure")
    BY <1>11 DEF OnFailureRuns
  <2>2. todo[1].op = "action" /\ todo[1].arg = "onFailure" /\ itemState' = "Other"
    BY <1>2, <2>1, ActionTop DEF Action, Restorable
  <2> DEFINE c == [Closure("failure") EXCEPT !.fail = "descend"]
             f == RunMode("Rtl", c)
  <2>3. Then(<<f>>) \/ Then(<<Abort>>)
    BY <1>11 DEF OnFailureRuns
  <2>4. c \in Closures /\ ~Continues(c)
    BY NewClosures
  <2> HIDE DEF c
  <2>5. f \in Frames /\ f.op = "mode" /\ f.done = c
    BY <2>4, NewMode DEF Modes
  <2> HIDE DEF f
  <2>6. QuietFrames(<<f>>)
    BY <2>4, <2>5, QuietStacks
  <2>7. Pushes(<<f>>) \/ Pushes(<<Abort>>)
    <3>1. Then(<<f>>) => Pushes(<<f>>)
      BY <2>2, <2>5, <2>6 DEF Pushes, Then
    <3>2. Then(<<Abort>>) => Pushes(<<Abort>>)
      BY <1>4, <2>2 DEF Pushes, Then
    <3> QED  BY <2>3, <3>1, <3>2
  <2>8. \E fr : Pushes(fr)
    BY <2>7
  <2> QED  BY <1>11, <2>2, <2>8 DEF QuietResult, OnFailureRuns, Unmoved, SchedC, TimerC
<1>12. CASE StoredRun
  <2>1. todo[1].op = "stored"
    BY <1>2, <1>12 DEF StoredRun, Top
  <2> DEFINE names == InOrder(Without(stored, {i \in DOMAIN stored : stored[i] = "onResume"}))
             fr    == [i \in DOMAIN names |-> Frame("restore", names[i], Nothing)]
  <2>2. QuietFrames(fr) /\ \A i \in DOMAIN fr : fr[i].op = "restore" /\ fr[i].done = Nothing
    <3>1. StoredTypes(stored)
      BY DEF CoreInv, TypeOK, StoredTypes
    <3> QED  BY <3>1, RestoreFrames
  <2>3. todo' = fr \o Tail(todo)
    BY <1>12 DEF StoredRun, Then
  <2> HIDE DEF fr
  <2>4. Pushes(fr)
    BY <2>1, <2>2, <2>3 DEF Pushes
  <2> QED  BY <1>12, <2>1, <2>4 DEF QuietResult, StoredRun, SchedC, TimerC
<1>13. CASE CallRuns
  <2>1. todo[1].op = "call"
    BY <1>2, <1>13 DEF CallRuns, Top
  <2>2. ~(Done.valid /\ Done.k \in {"next", "resumed", "navigate"})
    BY <1>2, <1>3 DEF Continues
  <2>3. Then(<<>>) /\ UNCHANGED <<index, stored, asked, traj>>
    BY <1>13, <2>2 DEF CallRuns
  <2>4. Pushes(<<>>)
    BY <1>4, <2>1, <2>3 DEF Pushes, Then
  <2> QED  BY <1>13, <2>1, <2>3, <2>4 DEF QuietResult, CallRuns, SchedC, TimerC
<1>14. ~ItemRuns /\ ~Aborts /\ ~AbortReturns
  BY <1>2, <1>3 DEF ItemRuns, Aborts, AbortReturns, Top
<1>15. /\ ~ModeActionRuns /\ ~HoldRuns
       /\ \A outcome \in CustomOutcomes : ~CustomRuns(outcome)
       /\ \A known \in LandedKnown : ~OnResumeRuns(known)
  <2>1. \A name : Action(name) /\ todo[1].op = "action" => name = "onFailure"
    BY ActionTop
  <2>2. \A name : Action(name) => todo[1].op = "action" \/ name \in Restorable
    BY ActionTop
  <2>3. \A name : Action(name) => name = "onFailure" \/ name \in Restorable
    BY <2>1, <2>2
  <2>4. \A name \in {"rtl", "land", "takeoff", "hold", "custom", "onResume"} : ~Action(name)
    BY <2>3 DEF Restorable
  <2>5. DOMAIN ModeOf = {"rtl", "land", "takeoff"}
    BY DEF ModeOf
  <2> QED  BY <2>4, <2>5 DEF ModeActionRuns, HoldRuns, CustomRuns, OnResumeRuns
<1> QED  BY <1>5, <1>6, <1>7, <1>8, <1>9, <1>10, <1>11, <1>12, <1>13, <1>14, <1>15 DEF Step

\* Frames of a mission that is not aborted.
Calm(f) ==
  f \in Frames /\ f.op # "aborted" /\ f.arg # "onFailure" /\ f.done.k # "failure"

\* The call of a completion is calm unless it is the one of a failure.
LEMMA CalmCall ==
  ASSUME NEW c \in Closures, c.k # "failure"
  PROVE  Calm(Call(c)) /\ Call(c).op = "call" /\ (Carry(Call(c)) <=> Continues(c))
<1> DEFINE f == Call(c)
<1>1. f \in Frames /\ f.op = "call" /\ f.done = c /\ f.arg = ""
  BY NewCall
<1> HIDE DEF f
<1>2. Calm(f) /\ (Carry(f) <=> Continues(c))
  BY <1>1 DEF Calm, Carry
<1> QED  BY <1>1, <1>2 DEF f

\* What becomes of a token that a frame holds: another frame gets it, a callback,
\* or the trajectory, or it is lost in an abort or past the last item.
HandsOn ==
  \/ \E f : /\ Calm(f) /\ Carry(f) /\ f.op \in {"item", "action", "mode", "call"}
            /\ todo' = <<f>>
  \/ \E f, g : /\ Calm(f) /\ Calm(g) /\ ~Carry(f) /\ Carry(g)
               /\ \/ f.op = "stored" /\ g.op = "item"
                  \/ f.op = "mode" /\ g.op = "hold"
                  \/ f.op = "abort" /\ g.op = "call"
               /\ todo' = <<f, g>>
Flight ==
  /\ TrajC'
  /\ \/ activeMode = "own" /\ todo' = <<Frame("flying", "", Nothing)>>
     \/ todo' = <<RunMode("own", Nothing), Frame("flying", "", Nothing)>>

TokenResult ==
  /\ UNCHANGED <<mission, valid, active, ownActive, level, aborted>>
  /\ todo[1].op # "mode" => UNCHANGED <<sched, activeMode, nav>>
  /\ sched'.done.k = "failure" => sched.done.k = "failure"
  /\ itemState' = IF todo[1].op \in {"mode", "action"} THEN "Other" ELSE itemState
  /\ \/ HandsOn /\ ~Waits'
     \/ /\ todo' = <<>> /\ ~TrajC'
        /\ \/ SchedC' /\ ~TimerC' /\ ~LaterC'
           \/ ~SchedC' /\ TimerC' /\ ~LaterC'
           \/ ~SchedC' /\ ~TimerC' /\ LaterC'
     \/ Flight /\ ~SchedC' /\ ~TimerC' /\ ~LaterC'
     \/ todo' = <<Abort>> /\ ~Waits'
     \/ /\ ~IndexValid(index') /\ ~Waits'
        /\ todo' = <<>> \/ todo' = <<RunMode("Loiter", Nothing)>>

\* A step whose first frame has the token passes it on, or aborts.
LEMMA TokenSteps ==
  ASSUME CoreInv, Step, Carry(todo[1]), todo[1].arg # "onFailure"
  PROVE  TokenResult
<1> USE DEF missionVars, stateVars, runVars, pendingVars, worldVars, historyVars
<1>1. ~Idle
  BY DEF Step, Begin, ItemRuns, Flying, ModeRuns, ModeActionRuns, HoldRuns, HoldStarts,
         ChangeSettingsRuns, CameraRuns, CustomRuns, OnResumeRuns, OnFailureRuns, StoredRun,
         Aborts, AbortReturns, CallRuns, Action, Top
<1>2. /\ Head(todo) = todo[1] /\ todo[1] \in Frames /\ Done = todo[1].done /\ Arg = todo[1].arg
      /\ active
  BY <1>1, TopFrame DEF CoreInv, Done, Arg
<1>3. todo[1].op # "item" => Continues(Done) /\ Done.k # "failure" /\ Done.k # "nothing" /\ Done.valid
  BY <1>2 DEF Carry, Continues
<1>4. /\ \A fr \in Seq(Frames) : fr \o Tail(todo) = fr
      /\ ~SchedC /\ ~TimerC /\ ~LaterC /\ ~TrajC /\ ~Waits
      /\ level = 0 /\ index \in Int
  BY <1>1, TokenPush, MissionTypes DEF CoreInv, Waits
<1>5. /\ Nothing.k = "nothing" /\ ~Continues(Nothing)
      /\ Calm(RunItem) /\ Carry(RunItem) /\ RunItem.op = "item"
      /\ Calm(RunStored) /\ ~Carry(RunStored) /\ RunStored.op = "stored"
      /\ Calm(Abort) /\ ~Carry(Abort) /\ Abort.op = "abort"
      /\ LET f == RunMode("Loiter", Nothing) IN Calm(f) /\ ~Carry(f) /\ f.op = "mode"
  BY CompletionTypes, SimpleFrames, FrameTypes DEF Calm, Carry
<1>6. /\ \A f \in Frames : Then(<<f>>) => todo' = <<f>>
      /\ \A f, g \in Frames : Then(<<f, g>>) => todo' = <<f, g>>
      /\ Then(<<>>) => todo' = <<>>
  <2>1. /\ <<>> \in Seq(Frames) /\ \A f \in Frames : <<f>> \in Seq(Frames)
        /\ \A f, g \in Frames : <<f, g>> \in Seq(Frames)
    BY Stacks
  <2> QED  BY <1>4, <2>1 DEF Then
<1>7. UNCHANGED <<sched, timer, later, traj>> => ~Waits' /\ ~SchedC' /\ ~TimerC' /\ ~LaterC' /\ ~TrajC'
  BY <1>4 DEF Waits, SchedC, TimerC, LaterC, TrajC
\* A frame for a call to the closure, and one for an action.
<1>8. \A c \in Completions : Continues(c) =>
        /\ Calm(Call(c)) /\ Carry(Call(c)) /\ Call(c).op = "call"
  BY CalmCall, CompletionTypes
<1>9. \A c \in Completions, a \in Actions \cup {"onResume"} : Continues(c) =>
        /\ Calm(RunAction(a, c)) /\ Carry(RunAction(a, c)) /\ RunAction(a, c).op = "action"
  <2>1. "onFailure" \notin Actions \cup {"onResume"}
    BY DEF Actions
  <2> QED  BY <2>1, NewAction DEF Calm, Carry, Continues
<1>10. CASE Begin
  <2>1. todo[1].op = "begin"
    BY <1>2, <1>10 DEF Begin, Top
  <2>2. Done.valid /\ UNCHANGED <<sched, timer, later, traj>>
    BY <1>3, <1>10, <2>1 DEF Begin
  <2> DEFINE c == [Closure("resumed") EXCEPT !.prev = index]
  <2>3. c \in Completions /\ Continues(c)
    BY <1>4, ResumedClosure
  <2>4. Then(<<RunStored, RunItem>>) \/ Then(<<RunAction("onResume", c)>>)
    BY <1>10, <2>2 DEF Begin
  <2> HIDE DEF c
  <2>5. HandsOn
    BY <1>5, <1>6, <1>9, <2>3, <2>4 DEF HandsOn, Calm
  <2> QED  BY <1>7, <1>10, <2>1, <2>2, <2>5 DEF TokenResult, Begin
<1>11. CASE ItemRuns
  <2>1. todo[1].op = "item" /\ UNCHANGED <<sched, timer, later>>
    BY <1>2, <1>11 DEF ItemRuns, Top
  <2>2. UNCHANGED <<mission, valid, active, ownActive, level, aborted, activeMode, nav, itemState,
                    index>>
    BY <1>11 DEF ItemRuns
  <2>3. CASE /\ ~IndexValid(index)
             /\ Then(IF activeMode = "own" \/ index = NoIndex
                     THEN <<RunMode("Loiter", Nothing)>> ELSE <<>>)
             /\ UNCHANGED traj
    <3>1. todo' = <<>> \/ todo' = <<RunMode("Loiter", Nothing)>>
      BY <1>5, <1>6, <2>3 DEF Calm
    <3>2. ~IndexValid(index') /\ ~Waits'
      BY <1>7, <2>1, <2>2, <2>3 DEF IndexValid, Len0
    <3> QED  BY <2>1, <2>2, <3>1, <3>2 DEF TokenResult
  <2>4. CASE /\ index \in Waypoints
             /\ Fly(index, SegmentEnd(index), Closure("segment"))
    <3>1. traj' = [at |-> index, end |-> SegmentEnd(index), options |-> options,
                   done |-> Closure("segment")]
      BY <2>4 DEF Fly
    <3>2. index # NoIndex
      BY <1>4, <2>4 DEF Waypoints, NoIndex
    <3>3. TrajC'
      BY <3>1, <3>2, NewClosures DEF TrajC
    <3>4. ~SchedC' /\ ~TimerC' /\ ~LaterC'
      BY <1>4, <2>1 DEF SchedC, TimerC, LaterC
    <3>5. \/ activeMode = "own" /\ todo' = <<Frame("flying", "", Nothing)>>
          \/ todo' = <<RunMode("own", Nothing), Frame("flying", "", Nothing)>>
      BY <1>4, <2>2, <2>4, FlyFrames DEF Fly
    <3> QED  BY <2>1, <2>2, <3>3, <3>4, <3>5 DEF TokenResult, Flight
  <2>5. CASE /\ IndexValid(index) /\ index \notin Waypoints
             /\ Then(<<RunAction(Item(index), Closure("next"))>>)
             /\ UNCHANGED traj
    <3>1. /\ mission \in Seq(Items) /\ Len0 \in Nat
          /\ \A i \in DOMAIN mission : mission[i] \in Items /\ mission[i] # "undefined"
      <4>1. valid
        BY <1>1, TokenPush DEF CoreInv
      <4> QED  BY <4>1, MissionTypes DEF CoreInv, TokenInv
    <3>2. Item(index) \in Actions
      BY <1>4, <2>5, <3>1 DEF IndexValid, Waypoints, Item, Items, Len0
    <3> DEFINE c == Closure("next")
    <3>3. c \in Completions /\ Continues(c)
      BY NewClosures
    <3>4. Then(<<RunAction(Item(index), c)>>)
      BY <2>5
    <3> HIDE DEF c
    <3>5. HandsOn
      BY <1>6, <1>9, <3>2, <3>3, <3>4 DEF HandsOn, Calm
    <3> QED  BY <1>7, <2>1, <2>2, <2>5, <3>5 DEF TokenResult
  <2> QED  BY <1>11, <2>3, <2>4, <2>5 DEF ItemRuns
<1>12. CASE ModeRuns
  <2>1. todo[1].op = "mode" /\ Done.fail = "abort"
    <3>1. todo[1].op = "mode"
      BY <1>2, <1>12 DEF ModeRuns, Top
    <3> QED  BY <1>2, <1>3, <3>1, FrameTypes, CompletionTypes
  <2>2. UNCHANGED <<mission, valid, active, ownActive, level, aborted, timer, later, traj>>
        /\ itemState' = "Other"
    BY <1>12 DEF ModeRuns
  <2>3. ~TimerC' /\ ~LaterC' /\ ~TrajC'
    BY <1>4, <2>2 DEF TimerC, LaterC, TrajC
  <2>4. CASE sched' = [mode |-> Arg, done |-> Done] /\ Then(<<>>)
    <3>1. SchedC' /\ todo' = <<>> /\ sched'.done.k # "failure"
      BY <1>3, <1>6, <2>1, <2>4 DEF SchedC
    <3> QED  BY <2>1, <2>2, <2>3, <3>1 DEF TokenResult
  <2>5. CASE sched' = NoSched /\ Then(ModeFailed(Done))
    <3>1. todo' = <<Abort>>
      BY <1>5, <1>6, <2>1, <2>5 DEF ModeFailed, Calm
    <3>2. ~Waits' /\ sched'.done.k = "nothing"
      BY <1>5, <2>3, <2>5 DEF Waits, SchedC, NoSched
    <3> QED  BY <2>1, <2>2, <3>1, <3>2 DEF TokenResult
  <2> QED  BY <1>12, <2>4, <2>5 DEF ModeRuns
<1>13. CASE HoldStarts
  <2>1. todo[1].op = "hold"
    BY <1>2, <1>13 DEF HoldStarts, Top
  <2>2. todo' = <<>> /\ TimerC' /\ ~SchedC' /\ ~LaterC' /\ ~TrajC'
    BY <1>3, <1>4, <1>6, <1>13, <2>1 DEF HoldStarts, SchedC, TimerC, LaterC, TrajC
  <2> QED  BY <1>13, <2>1, <2>2 DEF TokenResult, HoldStarts
<1>14. \A name : Action(name) =>
         /\ todo[1].op = "action" /\ itemState' = "Other"
         /\ Done \in Completions /\ Continues(Done) /\ ~Top("restore")
         /\ name # "onFailure"
  <2>1. \A name : Action(name) => todo[1].op = "action" /\ itemState' = "Other" /\ ~Top("restore")
                                  /\ Done \in Completions
    BY ActionTop
  <2> QED  BY <1>2, <1>3, <2>1 DEF Action
<1>15. CASE ModeActionRuns
  <2>1. PICK name \in DOMAIN ModeOf : Action(name) /\ Then(<<RunMode(ModeOf[name], Done)>>)
    BY <1>15 DEF ModeActionRuns
  <2>2. ModeOf[name] \in Modes \ {"own"}
    BY DEF ModeOf, Modes
  <2> DEFINE f == RunMode(ModeOf[name], Done)
  <2>3. Done \in Closures
    BY <1>14, <2>1, CompletionTypes
  <2>4. f \in Frames /\ f.op = "mode" /\ f.done = Done
    BY <2>2, <2>3, NewMode
  <2>5. Then(<<f>>)
    BY <2>1
  <2> HIDE DEF f
  <2>6. Calm(f) /\ Carry(f)
    BY <1>3, <1>14, <2>1, <2>4, FrameTypes DEF Calm, Carry
  <2>7. HandsOn
    BY <1>6, <2>4, <2>5, <2>6 DEF HandsOn
  <2> QED  BY <1>7, <1>14, <1>15, <2>1, <2>7 DEF TokenResult, ModeActionRuns, Unmoved
<1>16. CASE HoldRuns
  <2>1. Action("hold") /\ Then(<<RunMode("Loiter", Nothing), Frame("hold", "", Done)>>)
    BY <1>16 DEF HoldRuns
  <2> DEFINE g == Frame("hold", "", Done)
             f == RunMode("Loiter", Nothing)
  <2>2. g \in Frames /\ g.op = "hold" /\ g.done = Done /\ g.arg = ""
    BY <1>14, <2>1, NewHold
  <2>3. Then(<<f, g>>) /\ Calm(f) /\ ~Carry(f) /\ f.op = "mode"
    BY <1>5, <2>1
  <2> HIDE DEF f, g
  <2>4. Calm(g) /\ Carry(g)
    BY <1>3, <1>14, <2>1, <2>2 DEF Calm, Carry
  <2>5. HandsOn
    BY <1>6, <2>2, <2>3, <2>4 DEF HandsOn, Calm
  <2> QED  BY <1>7, <1>14, <1>16, <2>1, <2>5 DEF TokenResult, HoldRuns, Unmoved
<1>17. CASE ChangeSettingsRuns
  <2>1. (\E name \in {"settings", "reset"} : Action(name)) /\ Then(<<Call(Done)>>)
    BY <1>17 DEF ChangeSettingsRuns
  <2>2. todo[1].op = "action" /\ itemState' = "Other" /\ Done \in Completions /\ Continues(Done)
    BY <1>14, <2>1
  <2>3. HandsOn
    BY <1>6, <1>8, <2>1, <2>2 DEF HandsOn, Calm
  <2> QED  BY <1>7, <1>17, <2>2, <2>3 DEF TokenResult, ChangeSettingsRuns, Unmoved
<1>18. CASE CameraRuns
  <2>1. Action("camera")
    BY <1>18 DEF CameraRuns
  <2>2. todo[1].op = "action" /\ itemState' = "Other" /\ Done \in Completions /\ Continues(Done)
        /\ ~Top("restore")
    BY <1>14, <2>1
  <2>3. HandsOn
    BY <1>6, <1>8, <1>18, <2>2 DEF HandsOn, Calm, CameraRuns
  <2> QED  BY <1>7, <1>18, <2>2, <2>3 DEF TokenResult, CameraRuns, Unmoved
<1>19. ASSUME NEW outcome \in CustomOutcomes, CustomRuns(outcome)
       PROVE  TokenResult
  <2>1. Action("custom")
    BY <1>19 DEF CustomRuns
  <2>2. todo[1].op = "action" /\ itemState' = "Other" /\ Done \in Completions /\ Continues(Done)
    BY <1>14, <2>1
  <2>3. /\ UNCHANGED <<mission, valid, active, ownActive, level, aborted, sched, timer, traj,
                       activeMode, nav>>
        /\ later' = IF outcome = "later" THEN Done ELSE later
    BY <1>19 DEF CustomRuns, Unmoved
  <2>4. CASE outcome = "later"
    <3>1. todo' = <<>>
      BY <1>6, <1>19, <2>4 DEF CustomRuns
    <3>2. ~SchedC' /\ ~TimerC' /\ LaterC' /\ ~TrajC'
      BY <1>4, <2>2, <2>3, <2>4 DEF SchedC, TimerC, LaterC, TrajC
    <3> QED  BY <2>2, <2>3, <3>1, <3>2 DEF TokenResult
  <2>5. CASE outcome # "later"
    <3>1. Then(<<Abort, Call(Done)>>) \/ Then(<<Call(Done)>>)
      BY <1>19, <2>5 DEF CustomRuns
    <3>2. HandsOn
      BY <1>5, <1>6, <1>8, <2>2, <3>1 DEF HandsOn, Calm
    <3> QED  BY <1>7, <2>2, <2>3, <2>5, <3>2 DEF TokenResult
  <2> QED  BY <2>4, <2>5
<1>20. ASSUME NEW known \in LandedKnown, OnResumeRuns(known)
       PROVE  TokenResult
  <2>1. Action("onResume")
    BY <1>20 DEF OnResumeRuns
  <2>2. todo[1].op = "action" /\ itemState' = "Other" /\ Done \in Completions /\ Continues(Done)
        /\ Done.valid
    BY <1>14, <2>1 DEF Continues
  <2> DEFINE c == [Done EXCEPT !.k = "navigate"]
  <2>3. c \in Completions /\ Continues(c)
    BY <2>2, RenamedClosure
  <2>4. Then(<<Call(Done)>>) \/ Then(<<RunAction("takeoff", c)>>)
    BY <1>20 DEF OnResumeRuns
  <2> HIDE DEF c
  <2>5. HandsOn
    BY <1>6, <1>8, <1>9, <2>2, <2>3, <2>4 DEF HandsOn, Calm, Actions
  <2> QED  BY <1>7, <1>20, <2>2, <2>5 DEF TokenResult, OnResumeRuns, Unmoved
<1>21. CASE CallRuns
  <2>1. todo[1].op = "call" /\ Done \in Completions
    BY <1>2, <1>3, <1>21, FrameTypes, CompletionTypes DEF CallRuns, Top
  <2>2. Done.k \in {"next", "resumed", "navigate"} /\ Done.valid
    BY <1>3, <2>1, CompletionTypes
  <2>3. UNCHANGED <<mission, valid, active, ownActive, level, aborted, sched, timer, later,
                    activeMode, nav, itemState>>
    BY <1>21 DEF CallRuns
  <2> DEFINE c == [Done EXCEPT !.k = "resumed"]
  <2>4. c \in Completions /\ Continues(c)
    BY <2>1, <2>2, RenamedClosure
  <2> HIDE DEF c
  <2>5. CASE Fly(0, 0, c)
    <3>1. traj' = [at |-> 0, end |-> 0, options |-> options, done |-> c]
      BY <2>5 DEF Fly
    <3>2. TrajC'
      BY <2>4, <3>1 DEF TrajC, NoIndex
    <3>3. ~SchedC' /\ ~TimerC' /\ ~LaterC'
      BY <1>4, <2>3 DEF SchedC, TimerC, LaterC
    <3>4. \/ activeMode = "own" /\ todo' = <<Frame("flying", "", Nothing)>>
          \/ todo' = <<RunMode("own", Nothing), Frame("flying", "", Nothing)>>
      BY <1>4, <2>3, <2>5, FlyFrames DEF Fly
    <3> QED  BY <2>1, <2>3, <3>2, <3>3, <3>4 DEF TokenResult, Flight
  <2>6. CASE /\ UNCHANGED traj
             /\ \/ Then(<<RunItem>>) \/ Then(<<RunStored, RunItem>>)
                \/ Then(<<Call(c)>>)
    <3>1. HandsOn
      BY <1>5, <1>6, <1>8, <2>4, <2>6 DEF HandsOn, Calm
    <3> QED  BY <1>7, <2>1, <2>3, <2>6, <3>1 DEF TokenResult
  <2>7. CASE Done.k = "next"
    BY <1>21, <2>2, <2>6, <2>7 DEF CallRuns
  <2>8. CASE Done.k = "resumed"
    BY <1>21, <2>2, <2>6, <2>8 DEF CallRuns, Resumed
  <2>9. CASE Done.k = "navigate"
    <3>1. Navigates
      BY <1>21, <2>2, <2>9 DEF CallRuns
    <3> QED  BY <2>5, <2>6, <3>1 DEF Navigates, c
  <2> QED  BY <2>2, <2>7, <2>8, <2>9
<1>22. ~Flying /\ ~StoredRun /\ ~Aborts /\ ~AbortReturns /\ ~OnFailureRuns
  BY <1>2, <1>3, <1>5, <1>14, FrameTypes
     DEF Flying, StoredRun, Aborts, AbortReturns, OnFailureRuns, Top
<1> QED  BY <1>10, <1>11, <1>12, <1>13, <1>15, <1>16, <1>17, <1>18, <1>19, <1>20, <1>21, <1>22
         DEF Step

\* A frame of the new stack is a pushed one or was there before.
LEMMA PushedFrames ==
  ASSUME TypeOK, ~Idle, NEW fr \in Seq(Frames), todo' = fr \o Tail(todo)
  PROVE  \A i \in DOMAIN todo' : \/ \E j \in DOMAIN fr : todo'[i] = fr[j]
                                 \/ \E j \in DOMAIN todo : j # 1 /\ todo'[i] = todo[j]
<1>1. todo \in Seq(Frames) /\ todo # <<>> /\ Len(todo) \in Nat /\ DOMAIN todo = 1 .. Len(todo)
  BY TopFrame
<1>2. /\ todo' \in Seq(Frames)
      /\ Len(todo') = Len(fr) + Len(todo) - 1
      /\ \A i \in 1 .. Len(fr) : todo'[i] = fr[i]
      /\ \A i \in Len(fr) + 1 .. Len(todo') : todo'[i] = todo[i - Len(fr) + 1]
  BY <1>1, Replaced
<1>3. DOMAIN todo' = 1 .. Len(todo') /\ Len(fr) \in Nat /\ DOMAIN fr = 1 .. Len(fr)
  BY <1>2
<1>4. TAKE i \in DOMAIN todo'
<1>5. CASE i \in DOMAIN fr
  BY <1>2, <1>3, <1>5
<1>6. CASE i \notin DOMAIN fr
  <2>1. /\ i \in Len(fr) + 1 .. Len(todo')
        /\ i - Len(fr) + 1 \in DOMAIN todo /\ i - Len(fr) + 1 # 1
    BY <1>1, <1>2, <1>3, <1>6
  <2> QED  BY <1>2, <2>1
<1> QED  BY <1>5, <1>6

\* A step runs a frame, and abort() is run by nothing else.
LEMMA StepRuns ==
  ASSUME CoreInv, Step
  PROVE  /\ ~Idle /\ active /\ todo[1] \in Frames /\ 1 \in DOMAIN todo /\ active' = active
         /\ todo[1].op = "abort" => Aborts
         /\ todo[1].op = "aborted" => AbortReturns
<1> USE DEF missionVars, stateVars, runVars, pendingVars, worldVars, historyVars
<1>1. ~Idle
  BY DEF Step, Begin, ItemRuns, Flying, ModeRuns, ModeActionRuns, HoldRuns, HoldStarts,
         ChangeSettingsRuns, CameraRuns, CustomRuns, OnResumeRuns, OnFailureRuns, StoredRun,
         Aborts, AbortReturns, CallRuns, Action, Top
<1>2. Head(todo) = todo[1] /\ todo[1] \in Frames /\ active /\ 1 \in DOMAIN todo
  BY <1>1, TopFrame DEF CoreInv
<1>3. todo[1].op \in {"abort", "aborted"} => Aborts \/ AbortReturns
  BY <1>2 DEF Step, Begin, ItemRuns, Flying, ModeRuns, ModeActionRuns, HoldRuns, HoldStarts,
         ChangeSettingsRuns, CameraRuns, CustomRuns, OnResumeRuns, OnFailureRuns, StoredRun,
         CallRuns, Action, Top
<1>4. /\ Aborts => todo[1].op = "abort"
      /\ AbortReturns => todo[1].op = "aborted"
  BY <1>2 DEF Aborts, AbortReturns, Top
<1>5. active' = active
  BY DEF Step, Begin, ItemRuns, Flying, ModeRuns, ModeActionRuns, HoldRuns, HoldStarts,
         ChangeSettingsRuns, CameraRuns, CustomRuns, OnResumeRuns, OnFailureRuns, StoredRun,
         Aborts, AbortReturns, CallRuns, Unmoved
<1> QED  BY <1>1, <1>2, <1>3, <1>4, <1>5

-----------------------------------------------------------------------------
(* A mission that is not aborted waits for its token.                      *)

\* By a step without the token.
LEMMA CalmQuiet ==
  ASSUME CoreInv, ~Idle, active, CalmRun, ~Carry(todo[1]), QuietResult,
         todo[1].op \notin {"abort", "aborted"}
  PROVE  CalmRun'
<1>1. /\ todo \in Seq(Frames) /\ todo # <<>> /\ 1 \in DOMAIN todo /\ todo[1] \in Frames
      /\ Len(todo) \in Nat /\ Len(todo) > 0 /\ DOMAIN todo = 1 .. Len(todo) /\ Shape(todo)
  BY TopFrame DEF CoreInv, StackInv
<1>2. PICK fr : Pushes(fr)
  BY DEF QuietResult
<1>3. /\ QuietFrames(fr) /\ todo' = fr \o Tail(todo)
      /\ fr \in Seq(Frames) /\ Shape(fr) /\ ~Carries(fr) /\ ~Flies(fr)
  BY <1>2 DEF Pushes, QuietFrames
<1>4. /\ todo[1].arg # "onFailure" /\ todo[1].done.k # "failure" /\ todo[1].op # "action"
      /\ \A i \in DOMAIN todo : /\ todo[i].op # "aborted" /\ todo[i].arg # "onFailure"
                                /\ todo[i].done.k # "failure"
  BY <1>1 DEF CalmRun, QuietResult
<1>5. /\ Abort \in Frames /\ Abort.op = "abort" /\ Abort.done.k = "nothing" /\ Abort.arg # "onFailure"
      /\ Call(Nothing) \in Frames /\ Call(Nothing).op = "call" /\ Call(Nothing).arg # "onFailure"
      /\ Call(Nothing).done.k = "nothing" /\ Nothing.k = "nothing"
  BY SimpleFrames, NewCall, CompletionTypes
<1>6. \/ fr = <<>>
      \/ fr = <<Abort>> /\ todo[1].op \in {"mode", "restore"}
      \/ fr = <<Call(Nothing)>> /\ todo[1].op = "restore"
      \/ todo[1].op = "stored" /\ \A i \in DOMAIN fr : fr[i].op = "restore" /\ fr[i].done = Nothing
  BY <1>2, <1>4 DEF Pushes
<1>7. \A j \in DOMAIN fr : /\ fr[j].op \in {"abort", "call", "restore"} /\ fr[j].done.k # "failure"
                           /\ fr[j].arg # "onFailure"
  <2>1. \A f : DOMAIN <<f>> = {1} /\ <<f>>[1] = f
    OBVIOUS
  <2>2. \A j \in DOMAIN fr : fr[j] \in Frames
    BY <1>3
  <2>3. \A j \in DOMAIN fr : fr[j].op # "action" => fr[j].arg # "onFailure"
    BY <2>2, FrameTypes
  <2> QED  BY <1>5, <1>6, <2>1, <2>3
<1>8. \A i \in DOMAIN todo' : \/ \E j \in DOMAIN fr : todo'[i] = fr[j]
                              \/ \E j \in DOMAIN todo : j # 1 /\ todo'[i] = todo[j]
  BY <1>3, PushedFrames, Zenon DEF CoreInv
<1>9. \A i \in DOMAIN todo' : /\ todo'[i].op # "aborted" /\ todo'[i].arg # "onFailure"
                              /\ todo'[i].done.k # "failure"
  BY <1>4, <1>7, <1>8
<1>10. sched'.done.k # "failure"
  BY <1>4 DEF CalmRun, QuietResult
\* A callback that is called finds nothing to do.
<1>11. Ops(todo, {"abort", "call"}) =>
         /\ Ops(todo', {"abort", "call"}) /\ todo[1].op = "call"
  <2>1. SUFFICES ASSUME Ops(todo, {"abort", "call"})
                 PROVE  Ops(todo', {"abort", "call"}) /\ todo[1].op = "call"
    OBVIOUS
  <2>2. todo[1].op = "call"
    BY <1>1, <2>1 DEF Ops
  <2>3. fr = <<>>
    BY <1>6, <2>2
  <2>4. DOMAIN fr = {}
    BY <2>3
  <2> QED  BY <1>8, <2>1, <2>2, <2>4 DEF Ops
<1>12. /\ SchedC' => SchedC
       /\ TimerC' => TimerC
       /\ LaterC' <=> LaterC
       /\ TrajC' <=> TrajC
  BY DEF QuietResult, LaterC, TrajC
<1>13. SchedC' \/ TimerC' \/ LaterC' => Ops(todo', {"abort", "call"})
  BY <1>11, <1>12 DEF CalmRun
<1>14. TrajC' => \/ itemState' = "Trajectory" /\ Ops(todo', {"abort", "call"})
                 \/ Flies(todo') /\ Ops(todo', {"abort", "mode", "flying"})
  <2>1. CASE itemState = "Trajectory" /\ Ops(todo, {"abort", "call"})
    BY <1>11, <2>1 DEF QuietResult
  <2>2. CASE Flies(todo) /\ Ops(todo, {"abort", "mode", "flying"})
    <3>1. todo[1].op \in {"mode", "flying"}
      BY <1>1, <2>2 DEF Ops
    <3>2. CASE todo[1].op = "mode"
      <4>1. Len(todo) > 1
        BY <1>1, <2>2, <3>2 DEF Flies
      <4>2. Flies(todo')
        BY <1>1, <1>3, <2>2, <4>1, Pushed
      <4>3. \A j \in DOMAIN fr : fr[j].op \in {"abort", "mode", "flying"}
        <5>1. \A f : DOMAIN <<f>> = {1} /\ <<f>>[1] = f
          OBVIOUS
        <5> QED  BY <1>5, <1>6, <3>2, <5>1
      <4>4. Ops(todo', {"abort", "mode", "flying"})
        BY <1>8, <2>2, <4>3 DEF Ops
      <4> QED  BY <4>2, <4>4
    <3>3. CASE todo[1].op = "flying"
      <4>1. fr = <<>>
        BY <1>6, <3>3
      <4>2. todo' = <<>>
        BY <1>1, <1>3, <3>3, <4>1, CarrierAlone
      <4>3. DOMAIN todo' = {}
        BY <4>2
      <4>4. itemState' = "Trajectory"
        BY <3>3 DEF QuietResult
      <4> QED  BY <4>3, <4>4 DEF Ops
    <3> QED  BY <3>1, <3>2, <3>3
  <2> QED  BY <1>12, <2>1, <2>2 DEF CalmRun
<1>15. (active /\ valid /\ ~HeadIs("abort") /\ IndexValid(index) => Token)'
  <2>1. SUFFICES ASSUME active', valid', IndexValid(index)'
                 PROVE  Token'
    OBVIOUS
  <2>2. active /\ valid /\ IndexValid(index) /\ ~HeadIs("abort")
    BY <2>1 DEF QuietResult, IndexValid, Len0, HeadIs
  <2>3. Token
    BY <2>2 DEF CalmRun
  <2>4. CASE Carries(todo)
    <3>1. Carries(todo')
      BY <1>1, <1>3, <2>4, Pushed
    <3> QED  BY <3>1 DEF Token
  <2>5. CASE SchedC \/ TimerC \/ LaterC
    <3>1. todo[1].op = "call"
      BY <1>11, <2>5 DEF CalmRun
    <3>2. sched' = sched /\ timer' = timer
      BY <3>1 DEF QuietResult
    <3> QED  BY <1>12, <2>5, <3>2 DEF Token, Waits, SchedC, TimerC
  <2>6. CASE TrajC
    BY <1>12, <2>6 DEF Token, Waits
  <2> QED  BY <2>3, <2>4, <2>5, <2>6 DEF Token, Waits
<1> QED  BY <1>9, <1>10, <1>13, <1>14, <1>15 DEF CalmRun

\* By a step with the token.
LEMMA CalmToken ==
  ASSUME CoreInv, ~Idle, active, CalmRun, Carry(todo[1]), TokenResult
  PROVE  CalmRun'
<1>1. /\ Calm(Abort) /\ Abort.op = "abort"
      /\ LET f == Frame("flying", "", Nothing) IN Calm(f) /\ f.op = "flying"
      /\ LET f == RunMode("own", Nothing) IN Calm(f) /\ f.op = "mode"
      /\ LET f == RunMode("Loiter", Nothing) IN Calm(f) /\ f.op = "mode"
  BY SimpleFrames, CompletionTypes, FrameTypes DEF Calm
<1>2. /\ DOMAIN <<>> = {}
      /\ \A f : DOMAIN <<f>> = {1} /\ <<f>>[1] = f /\ <<f>> # <<>>
      /\ \A f, g : DOMAIN <<f, g>> = {1, 2} /\ <<f, g>>[1] = f /\ <<f, g>>[2] = g
                   /\ <<f, g>> # <<>>
  OBVIOUS
<1>3. sched'.done.k # "failure"
  BY DEF CalmRun, TokenResult
<1> DEFINE CalmFrames == \A i \in DOMAIN todo' : Calm(todo'[i])
<1>4. SUFFICES /\ CalmFrames
               /\ SchedC' \/ TimerC' \/ LaterC' => Ops(todo', {"abort", "call"})
               /\ TrajC' => Flies(todo') /\ Ops(todo', {"abort", "mode", "flying"})
               /\ ~IndexValid(index') \/ HeadIs("abort")' \/ Token'
  <2>1. \A i \in DOMAIN todo' : /\ todo'[i].op # "aborted" /\ todo'[i].arg # "onFailure"
                                /\ todo'[i].done.k # "failure"
    BY <1>4 DEF Calm
  <2>2. mission' = mission
    BY DEF TokenResult
  <2>3. (active /\ valid /\ ~HeadIs("abort") /\ IndexValid(index) => Token)'
    BY <1>4, <2>2 DEF IndexValid, Len0
  <2> HIDE DEF CalmFrames
  <2>4. (SchedC \/ TimerC \/ LaterC => Ops(todo, {"abort", "call"}))'
    BY <1>4 DEF Ops
  <2>5. (TrajC => \/ itemState = "Trajectory" /\ Ops(todo, {"abort", "call"})
                  \/ Flies(todo) /\ Ops(todo, {"abort", "mode", "flying"}))'
    BY <1>4 DEF Ops
  <2> QED  BY <1>3, <2>1, <2>3, <2>4, <2>5 DEF CalmRun
<1>5. CASE HandsOn /\ ~Waits'
  <2>1. CalmFrames
    BY <1>2, <1>5 DEF HandsOn
  <2>2. Carries(todo')
    BY <1>2, <1>5 DEF HandsOn, Carries
  <2> QED  BY <1>5, <2>1, <2>2 DEF Waits, Token
<1>6. CASE /\ todo' = <<>> /\ ~TrajC'
           /\ SchedC' \/ TimerC' \/ LaterC'
  BY <1>2, <1>6 DEF Ops, Waits, Token
<1>7. CASE Flight /\ ~SchedC' /\ ~TimerC' /\ ~LaterC'
  <2> DEFINE f == Frame("flying", "", Nothing)
             m == RunMode("own", Nothing)
  <2>1. /\ Calm(f) /\ f.op = "flying" /\ Calm(m) /\ m.op = "mode"
        /\ todo' = <<f>> \/ todo' = <<m, f>>
    BY <1>1, <1>7 DEF Flight
  <2> HIDE DEF f, m
  <2>2. CalmFrames /\ Ops(todo', {"abort", "mode", "flying"})
    BY <1>2, <2>1 DEF Ops
  <2>3. Flies(todo')
    BY <2>1, Stacks DEF Calm
  <2> QED  BY <1>7, <2>2, <2>3 DEF Flight, Waits, Token
<1>8. CASE todo' = <<Abort>> /\ ~Waits'
  <2>1. todo' # <<>> /\ DOMAIN todo' = {1} /\ todo'[1] = Abort
    BY <1>2, <1>8
  <2>2. CalmFrames
    BY <1>1, <2>1
  <2>3. HeadIs("abort")'
    BY <1>1, <2>1 DEF HeadIs
  <2> QED  BY <1>8, <2>2, <2>3 DEF Waits
<1>9. CASE /\ ~IndexValid(index') /\ ~Waits'
           /\ todo' = <<>> \/ todo' = <<RunMode("Loiter", Nothing)>>
  <2> DEFINE f == RunMode("Loiter", Nothing)
  <2>1. Calm(f)
    BY <1>1
  <2>2. todo' = <<>> \/ todo' = <<f>>
    BY <1>9
  <2> HIDE DEF f
  <2>3. CalmFrames
    BY <1>2, <2>1, <2>2
  <2> QED  BY <1>9, <2>3 DEF Waits
<1> QED  BY <1>5, <1>6, <1>7, <1>8, <1>9 DEF TokenResult

\* By every step of a callback.
LEMMA CalmStep == CoreInv /\ CalmInv /\ Step => CalmInv'
<1> SUFFICES ASSUME CoreInv, CalmInv, Step PROVE CalmInv'
  OBVIOUS
<1>1. /\ ~Idle /\ active /\ active' /\ 1 \in DOMAIN todo
      /\ todo[1].op = "abort" => Aborts
      /\ todo[1].op = "aborted" => AbortReturns
  BY StepRuns
<1>2. SUFFICES ASSUME ~aborted' PROVE CalmRun'
  BY <1>1 DEF CalmInv
<1>3. CASE todo[1].op = "abort"
  BY <1>1, <1>2, <1>3 DEF Aborts
<1>4. CASE todo[1].op = "aborted"
  <2>1. ~aborted
    BY <1>1, <1>2, <1>4 DEF AbortReturns, historyVars
  <2> QED  BY <1>1, <1>4, <2>1 DEF CalmInv, CalmRun
<1>5. CASE ~Carry(todo[1]) /\ todo[1].op \notin {"abort", "aborted"}
  <2>1. QuietResult
    BY <1>5, QuietSteps
  <2>2. CalmRun
    BY <1>2, <2>1 DEF QuietResult, CalmInv
  <2> QED  BY <1>1, <1>5, <2>1, <2>2, CalmQuiet
<1>6. CASE Carry(todo[1])
  <2>1. todo[1].arg # "onFailure" => TokenResult
    BY <1>6, TokenSteps
  <2>2. CASE aborted
    <3>1. todo[1].arg = "onFailure"
      BY <1>2, <2>1, <2>2 DEF TokenResult
    <3>2. aborted' = aborted
      <4>1. todo[1].op = "action"
        BY <1>1, <3>1, TopFrame, FrameTypes DEF CoreInv
      <4>2. \A op \in {"begin", "item", "flying", "mode", "hold", "stored", "abort", "aborted", "call"} :
              ~Top(op)
        BY <1>1, <4>1, TopFrame DEF CoreInv, Top
      <4> QED  BY <4>2 DEF Step, Begin, ItemRuns, Flying, ModeRuns, ModeActionRuns, HoldRuns,
             HoldStarts, ChangeSettingsRuns, CameraRuns, CustomRuns, OnResumeRuns, OnFailureRuns,
             StoredRun, Aborts, AbortReturns, CallRuns, Unmoved
    <3> QED  BY <1>2, <2>2, <3>2
  <2>3. CASE ~aborted
    <3>1. CalmRun /\ todo[1].arg # "onFailure"
      BY <1>1, <2>3 DEF CalmInv, CalmRun
    <3> QED  BY <1>1, <1>6, <2>1, <3>1, CalmToken
  <2> QED  BY <2>2, <2>3
<1> QED  BY <1>3, <1>4, <1>5, <1>6


-----------------------------------------------------------------------------
(* Between callbacks a mission that is not aborted waits for its token.     *)

\* A callback that comes, or none: what is left to show of CalmRun.
LEMMA CalmCalls ==
  ASSUME NEW f, Calm(f), f.op \in {"abort", "call"}, todo' = <<>> \/ todo' = <<f>>,
         sched'.done.k # "failure",
         TrajC' => itemState' = "Trajectory",
         (active /\ valid /\ ~HeadIs("abort") /\ IndexValid(index) => Token)'
  PROVE  CalmRun'
<1>1. DOMAIN <<>> = {} /\ DOMAIN <<f>> = {1} /\ <<f>>[1] = f
  OBVIOUS
<1>2. \A i \in DOMAIN todo' : todo'[i] = f
  BY <1>1
<1>3. \A i \in DOMAIN todo' : /\ todo'[i].op # "aborted" /\ todo'[i].arg # "onFailure"
                              /\ todo'[i].done.k # "failure"
  BY <1>2 DEF Calm
<1>4. Ops(todo', {"abort", "call"})
  BY <1>2 DEF Ops
<1>5. (SchedC \/ TimerC \/ LaterC => Ops(todo, {"abort", "call"}))'
  BY <1>4 DEF Ops
<1>6. (TrajC => \/ itemState = "Trajectory" /\ Ops(todo, {"abort", "call"})
                \/ Flies(todo) /\ Ops(todo, {"abort", "mode", "flying"}))'
  BY <1>4 DEF Ops
<1> QED  BY <1>3, <1>5, <1>6 DEF CalmRun

\* What CalmRun says between callbacks.
LEMMA CalmIdle ==
  ASSUME CoreInv, Idle, CalmRun
  PROVE  /\ sched.done.k # "failure"
         /\ TrajC => itemState = "Trajectory"
         /\ active /\ valid /\ IndexValid(index) => Waits
<1>1. todo = <<>> /\ ~Carries(todo) /\ ~HeadIs("abort")
  BY IdleStack
<1>2. ~Flies(todo)
  BY <1>1 DEF Flies
<1> QED  BY <1>1, <1>2 DEF CalmRun, Token

\* The frames of the callbacks that come.
LEMMA CalmFrames ==
  /\ Calm(Abort) /\ Abort.op = "abort"
  /\ Calm(RunItem) /\ RunItem.op = "item" /\ Carry(RunItem)
  /\ \A c \in Closures : c.k # "failure" =>
       /\ Calm(Call(c)) /\ Call(c).op = "call"
       /\ Carry(Call(c)) <=> Continues(c)
<1>1. Calm(Abort) /\ Abort.op = "abort"
  BY SimpleFrames, CompletionTypes, FrameTypes DEF Calm
<1>2. Calm(RunItem) /\ RunItem.op = "item" /\ Carry(RunItem)
  BY SimpleFrames, CompletionTypes, FrameTypes DEF Calm, Carry
<1> QED  BY <1>1, <1>2, CalmCall

\* A callback that comes is the only frame.
LEMMA Called ==
  ASSUME NEW f, todo' = <<f>>
  PROVE  /\ todo' # <<>> /\ DOMAIN todo' = {1} /\ todo'[1] = f
         /\ Carry(f) => Carries(todo')
         /\ HeadIs(f.op)'
<1>1. <<f>> # <<>> /\ DOMAIN <<f>> = {1} /\ <<f>>[1] = f
  OBVIOUS
<1> QED  BY <1>1 DEF Carries, HeadIs

\* Nothing that CalmRun speaks of changes, or the mission is not active.
LEMMA CalmWaits ==
  ASSUME CoreInv, Idle, CalmRun, todo' = <<>>, itemState' = itemState,
         sched'.done.k # "failure",
         (SchedC' <=> SchedC) /\ (TimerC' <=> TimerC) /\ (LaterC' <=> LaterC) /\ (TrajC' <=> TrajC),
         active' => UNCHANGED <<active, mission, valid, index>>
  PROVE  CalmRun'
<1>1. TrajC' => itemState' = "Trajectory"
  BY CalmIdle
<1>2. (active /\ valid /\ ~HeadIs("abort") /\ IndexValid(index) => Token)'
  BY CalmIdle DEF Token, Waits, IndexValid, Len0
<1> QED  BY <1>1, <1>2, CalmCalls, CalmFrames

\* A callback that aborts leaves CalmRun to abort().
LEMMA CalmAborts ==
  ASSUME CoreInv, Idle, CalmRun, todo' = <<Abort>>, UNCHANGED <<itemState, sched, timer, later, traj>>
  PROVE  CalmRun'
<1>1. TrajC' => itemState' = "Trajectory"
  BY CalmIdle DEF TrajC
<1>2. Abort.op = "abort" /\ HeadIs("abort")'
  BY CalmFrames, Called
<1>3. sched'.done.k # "failure"
  BY CalmIdle
<1> QED  BY <1>1, <1>2, <1>3, CalmCalls, CalmFrames

\* The callbacks and interferences, one by one.
LEMMA CalmWaypointReached ==
  ASSUME CoreInv, CalmRun, WaypointReached
  PROVE  CalmRun'
<1>1. /\ Idle /\ active /\ UNCHANGED <<mission, valid, active, sched, timer, later, itemState>>
      /\ itemState = "Trajectory"
  BY Reached DEF runVars, WaypointReached
<1>2. CASE LastReached /\ OnSegment /\ traj.done.valid
  <2>1. todo' = <<RunItem>> /\ ~SchedC' /\ ~TimerC' /\ ~LaterC' /\ ~TrajC'
    BY <1>2, Reached
  <2>2. DOMAIN todo' = {1} /\ todo'[1] = RunItem /\ Carries(todo')
    BY <2>1, Called, CalmFrames
  <2>3. \A i \in DOMAIN todo' : /\ todo'[i].op # "aborted" /\ todo'[i].arg # "onFailure"
                                /\ todo'[i].done.k # "failure"
    BY <2>2, CalmFrames DEF Calm
  <2> QED  BY <1>1, <2>1, <2>2, <2>3, CalmIdle DEF CalmRun, Token
<1>3. CASE LastReached /\ ~OnSegment
  <2>1. /\ todo' = <<Call(traj.done)>> /\ index' = index
        /\ (SchedC' <=> SchedC) /\ (TimerC' <=> TimerC) /\ (LaterC' <=> LaterC) /\ ~TrajC'
        /\ TrajC <=> Continues(traj.done)
    BY <1>3, Reached
  <2>2. traj.done \in Closures /\ traj.done.k # "failure"
    <3>1. traj.done \in Completions \cup Segments
      BY Reached
    <3> QED  BY <1>3, <3>1, CompletionTypes DEF OnSegment
  <2> DEFINE f == Call(traj.done)
  <2>3. Calm(f) /\ f.op = "call" /\ (Carry(f) <=> TrajC)
    BY <2>1, <2>2, CalmFrames
  <2>4. todo' = <<f>>
    BY <2>1
  <2> HIDE DEF f
  <2>5. Carry(f) => Carries(todo')
    BY <2>4, Called
  <2>6. (active /\ valid /\ ~HeadIs("abort") /\ IndexValid(index) => Token)'
    BY <1>1, <2>1, <2>3, <2>5, CalmIdle DEF Token, Waits, IndexValid, Len0
  <2>7. sched'.done.k # "failure"
    BY <1>1, CalmIdle
  <2> QED  BY <2>1, <2>3, <2>4, <2>6, <2>7, CalmCalls
<1>4. CASE ~LastReached \/ (OnSegment /\ ~traj.done.valid)
  <2>1. /\ todo' = <<>>
        /\ (SchedC' <=> SchedC) /\ (TimerC' <=> TimerC) /\ (LaterC' <=> LaterC)
        /\ TrajC' <=> ~LastReached /\ TrajC
        /\ TrajC <=> Continues(traj.done)
        /\ index' = IF OnSegment /\ traj.done.valid THEN traj.at + 1 ELSE index
        /\ OnSegment /\ traj.done.valid => TrajC
    BY <1>4, Reached
  <2>2. TrajC' <=> TrajC
    BY <1>4, <2>1 DEF Continues
  <2>3. (active /\ valid /\ ~HeadIs("abort") /\ IndexValid(index) => Token)'
    <3>1. CASE TrajC
      BY <2>2, <3>1 DEF Token, Waits
    <3>2. CASE ~TrajC
      <4>1. index' = index
        BY <2>1, <3>2
      <4> QED  BY <1>1, <2>1, <2>2, <4>1, CalmIdle DEF Token, Waits, IndexValid, Len0
    <3> QED  BY <3>1, <3>2
  <2>4. sched'.done.k # "failure"
    BY <1>1, CalmIdle
  <2> QED  BY <1>1, <2>1, <2>3, <2>4, CalmCalls, CalmFrames
<1> QED  BY <1>2, <1>3, <1>4

LEMMA CalmModeCompletes ==
  ASSUME CoreInv, CalmRun, NEW ok \in BOOLEAN, ModeCompletes(ok)
  PROVE  CalmRun'
<1> USE DEF missionVars, stateVars, runVars, pendingVars, worldVars, historyVars
<1>1. /\ Idle /\ active /\ sched' = NoSched /\ sched.done \in Closures
      /\ UNCHANGED <<mission, valid, active, index, itemState, timer, later, traj>>
      /\ todo' = <<Call(sched.done)>> \/ todo' = ModeFailed(sched.done)
  BY DEF ModeCompletes, CoreInv, TypeOK
<1>2. sched.done.k # "failure" /\ sched.done.fail = "abort" /\ sched'.done.k # "failure"
      /\ ~SchedC'
  BY <1>1, CalmIdle, CompletionTypes DEF NoSched, SchedC
<1>3. /\ TimerC' <=> TimerC
      /\ LaterC' <=> LaterC
      /\ TrajC' <=> TrajC
      /\ TrajC' => itemState' = "Trajectory"
  BY <1>1, CalmIdle DEF TimerC, LaterC, TrajC
<1>4. CASE todo' = <<Call(sched.done)>>
  <2> DEFINE f == Call(sched.done)
  <2>1. Calm(f) /\ f.op = "call" /\ (Carry(f) <=> SchedC)
    BY <1>1, <1>2, CalmFrames DEF SchedC
  <2>2. todo' = <<f>>
    BY <1>4
  <2> HIDE DEF f
  <2>3. Carry(f) => Carries(todo')
    BY <2>2, Called
  <2>4. (active /\ valid /\ ~HeadIs("abort") /\ IndexValid(index) => Token)'
    BY <1>1, <1>3, <2>1, <2>3, CalmIdle DEF Token, Waits, IndexValid, Len0
  <2> QED  BY <1>2, <1>3, <2>1, <2>2, <2>4, CalmCalls
<1>5. CASE todo' = ModeFailed(sched.done)
  <2>1. todo' = <<Abort>>
    BY <1>2, <1>5 DEF ModeFailed
  <2>2. Abort.op = "abort" /\ HeadIs("abort")'
    BY <2>1, CalmFrames, Called
  <2> QED  BY <1>2, <1>3, <2>1, <2>2, CalmCalls, CalmFrames
<1> QED  BY <1>1, <1>4, <1>5

LEMMA CalmTimerExpires ==
  ASSUME CoreInv, CalmRun, TimerExpires
  PROVE  CalmRun'
<1> USE DEF missionVars, stateVars, runVars, pendingVars, worldVars, historyVars
<1>1. /\ Idle /\ active /\ timer' = Nothing /\ timer \in Completions
      /\ UNCHANGED <<mission, valid, active, index, itemState, sched, later, traj>>
      /\ todo' = <<Call(timer)>>
  BY DEF TimerExpires, CoreInv, TypeOK
<1>2. /\ SchedC' <=> SchedC
      /\ LaterC' <=> LaterC
      /\ TrajC' <=> TrajC
      /\ TrajC' => itemState' = "Trajectory"
      /\ sched'.done.k # "failure"
  BY <1>1, CalmIdle DEF SchedC, LaterC, TrajC
<1> DEFINE f == Call(timer)
<1>3. Calm(f) /\ f.op = "call" /\ (Carry(f) <=> TimerC)
  BY <1>1, CalmFrames, CompletionTypes DEF TimerC
<1>4. todo' = <<f>>
  BY <1>1
<1> HIDE DEF f
<1>5. Carry(f) => Carries(todo')
  BY <1>4, Called
<1>6. (active /\ valid /\ ~HeadIs("abort") /\ IndexValid(index) => Token)'
  BY <1>1, <1>2, <1>3, <1>5, CalmIdle DEF Token, Waits, IndexValid, Len0
<1> QED  BY <1>2, <1>3, <1>4, <1>6, CalmCalls

LEMMA CalmLaterCompletes ==
  ASSUME CoreInv, CalmRun, LaterCompletes
  PROVE  CalmRun'
<1> USE DEF missionVars, stateVars, runVars, pendingVars, worldVars, historyVars
<1>1. /\ Idle /\ later' = Nothing /\ later \in Completions
      /\ UNCHANGED <<mission, valid, active, index, itemState, sched, timer, traj>>
      /\ todo' = IF active THEN <<Call(later)>> ELSE <<>>
  BY DEF LaterCompletes, CoreInv, TypeOK
<1>2. /\ SchedC' <=> SchedC
      /\ TimerC' <=> TimerC
      /\ TrajC' <=> TrajC
      /\ TrajC' => itemState' = "Trajectory"
      /\ sched'.done.k # "failure"
  BY <1>1, CalmIdle DEF SchedC, TimerC, TrajC
<1>3. CASE active
  <2> DEFINE f == Call(later)
  <2>1. Calm(f) /\ f.op = "call" /\ (Carry(f) <=> LaterC)
    BY <1>1, CalmFrames, CompletionTypes DEF LaterC
  <2>2. todo' = <<f>>
    BY <1>1, <1>3
  <2> HIDE DEF f
  <2>3. Carry(f) => Carries(todo')
    BY <2>2, Called
  <2>4. (active /\ valid /\ ~HeadIs("abort") /\ IndexValid(index) => Token)'
    BY <1>1, <1>2, <2>1, <2>3, CalmIdle DEF Token, Waits, IndexValid, Len0
  <2> QED  BY <1>2, <2>1, <2>2, <2>4, CalmCalls
<1>4. CASE ~active
  BY <1>1, <1>2, <1>4, CalmCalls, CalmFrames
<1> QED  BY <1>3, <1>4

\* The mission starts afresh: an abort before is forgotten, and nothing of it
\* is left.
LEMMA CalmActivate ==
  ASSUME CoreInv, CalmInv, Activate
  PROVE  CalmRun'
<1> USE DEF missionVars, stateVars, runVars, pendingVars, worldVars, historyVars
<1>1. /\ Idle /\ ~active /\ UNCHANGED <<mission, valid, sched, timer, later, traj>>
  BY DEF Activate
<1>2. ~SchedC' /\ ~TimerC' /\ ~LaterC' /\ ~TrajC' /\ sched'.done.k # "failure"
  BY <1>1, CompletionTypes
     DEF CoreInv, TokenInv, Token, Waits, SchedC, TimerC, LaterC, TrajC, CalmInv, NoSched
<1> DEFINE a == IF index = NoIndex THEN "start" ELSE "resume"
           f == Frame("begin", a, Closure("begin"))
           g == Frame("begin", "resume", Closure("begin"))
<1>3. Calm(f) /\ Carry(f) /\ Calm(g) /\ Carry(g)
  <2> DEFINE c == Closure("begin")
  <2>1. c \in Begins /\ Continues(c) /\ c.k = "begin"
    BY NewClosures
  <2>2. a \in {"start", "resume"}
    OBVIOUS
  <2> HIDE DEF c, a
  <2>3. /\ f \in Frames /\ f.op = "begin" /\ f.done = c
        /\ g \in Frames /\ g.op = "begin" /\ g.done = c
    BY <2>1, <2>2, NewBegin DEF c
  <2> HIDE DEF f, g
  <2> QED  BY <2>1, <2>3, FrameTypes DEF Calm, Carry
<1>4. IF valid THEN todo' = <<f>> \/ todo' = <<Abort, g>> ELSE todo' = <<Abort>>
  BY DEF Activate
<1> HIDE DEF f, g
<1>5. /\ \A h : DOMAIN <<h>> = {1} /\ <<h>>[1] = h
      /\ \A h, k : DOMAIN <<h, k>> = {1, 2} /\ <<h, k>>[1] = h /\ <<h, k>>[2] = k
  OBVIOUS
<1>6. \A i \in DOMAIN todo' : todo'[i] \in {f, g, Abort}
  BY <1>4, <1>5
<1>7. \A i \in DOMAIN todo' : /\ todo'[i].op # "aborted" /\ todo'[i].arg # "onFailure"
                              /\ todo'[i].done.k # "failure"
  BY <1>3, <1>6, CalmFrames DEF Calm
<1>8. valid => Carries(todo')
  BY <1>3, <1>4, <1>5 DEF Carries
<1>9. (active /\ valid /\ ~HeadIs("abort") /\ IndexValid(index) => Token)'
  BY <1>1, <1>8 DEF Token
<1> QED  BY <1>2, <1>7, <1>9 DEF CalmRun

LEMMA CalmDeactivate ==
  ASSUME CoreInv, CalmRun, NEW mode \in {"own", "Loiter"}, NEW known \in LandedKnown,
         NEW result \in SaveResults, Deactivate(mode, known, result)
  PROVE  CalmRun'
<1>1. /\ Idle /\ active' = FALSE /\ sched' = NoSched /\ traj' = WithInvalid(traj) /\ todo' = <<>>
  BY DEF Deactivate, InvalidateRest, Idle
<1>2. ~TrajC'
  <2>1. traj \in [at : Int, end : Int, options : BOOLEAN, done : Completions \cup Segments]
    BY DEF CoreInv, TypeOK
  <2>2. traj'.done = Invalid(traj.done)
    BY <1>1, <2>1 DEF WithInvalid
  <2>3. ~Continues(traj'.done)
    BY <2>1, <2>2, InvalidClosure
  <2> QED  BY <2>3 DEF TrajC
<1>3. sched'.done.k # "failure"
  BY <1>1, CompletionTypes DEF NoSched
<1>4. (active /\ valid /\ ~HeadIs("abort") /\ IndexValid(index) => Token)'
  BY <1>1
<1> QED  BY <1>1, <1>2, <1>3, <1>4, CalmCalls, CalmFrames

LEMMA CalmMemory == Memory => CalmRun /\ sched = NoSched
<1> SUFFICES ASSUME Memory PROVE CalmRun /\ sched = NoSched
  OBVIOUS
<1>1. /\ todo = <<>> /\ DOMAIN todo = {} /\ active = FALSE
      /\ sched = NoSched /\ timer = Nothing /\ later = Nothing /\ traj = NoTraj
  <2>1. DOMAIN <<>> = {}
    OBVIOUS
  <2> QED  BY <2>1 DEF Memory
<1>2. ~SchedC /\ ~TimerC /\ ~LaterC /\ ~TrajC /\ sched.done.k # "failure"
  BY <1>1, CompletionTypes DEF SchedC, TimerC, LaterC, TrajC, NoSched, NoTraj
<1> QED  BY <1>1, <1>2 DEF CalmRun

LEMMA CalmCrash == CoreInv /\ Crash => CalmInv'
<1>1. (Memory => CalmRun /\ sched = NoSched)'
  BY CalmMemory, PTL
<1>2. CoreInv /\ Crash => Memory'
  BY DEF Crash, Memory, Idle
<1> QED  BY <1>1, <1>2 DEF CalmInv

\* By everything that happens between callbacks.
LEMMA CalmIdleStep ==
  ASSUME CoreInv, CalmInv, Answers \/ Interference
  PROVE  CalmInv'
<1> USE DEF missionVars, stateVars, runVars, pendingVars, worldVars, historyVars
<1>1. CASE WaypointReached
  <2>1. UNCHANGED <<aborted, active, sched>>
    BY <1>1 DEF WaypointReached
  <2> QED  BY <1>1, <2>1, CalmWaypointReached DEF CalmInv
<1>2. CASE \E ok \in BOOLEAN : ModeCompletes(ok)
  <2>1. active /\ UNCHANGED <<aborted, active>>
    BY <1>2 DEF ModeCompletes
  <2> QED  BY <1>2, <2>1, CalmModeCompletes DEF CalmInv
<1>3. CASE TimerExpires
  <2>1. UNCHANGED <<aborted, active, sched>>
    BY <1>3 DEF TimerExpires
  <2> QED  BY <1>3, <2>1, CalmTimerExpires DEF CalmInv
<1>4. CASE LaterCompletes
  <2>1. UNCHANGED <<aborted, active, sched>>
    BY <1>4 DEF LaterCompletes
  <2> QED  BY <1>4, <2>1, CalmLaterCompletes DEF CalmInv
<1>5. CASE UserAbort \/ PositionInvalid
  <2>1. /\ Idle /\ todo' = <<Abort>>
        /\ UNCHANGED <<aborted, active, itemState, sched, timer, later, traj>>
    BY <1>5 DEF UserAbort, PositionInvalid
  <2> QED  BY <2>1, CalmAborts DEF CalmInv
<1>6. CASE StatusUpdate \/ (\E m \in Missions : SetMission(m)) \/ ResetMission \/ LandedChanges
  <2>1. /\ Idle /\ todo' = <<>>
        /\ UNCHANGED <<aborted, active, itemState, sched, timer, later, traj>>
        /\ active' => UNCHANGED <<active, mission, valid, index>>
    BY <1>6 DEF StatusUpdate, SetMission, ResetMission, LandedChanges, Idle
  <2>2. (SchedC' <=> SchedC) /\ (TimerC' <=> TimerC) /\ (LaterC' <=> LaterC) /\ (TrajC' <=> TrajC)
    BY <2>1 DEF SchedC, TimerC, LaterC, TrajC
  <2>3. CalmRun => CalmRun'
    <3>1. CalmRun => sched'.done.k # "failure"
      BY <2>1 DEF CalmRun
    <3> QED  BY <2>1, <2>2, <3>1, CalmWaits
  <2> QED  BY <2>1, <2>3 DEF CalmInv
<1>7. CASE Activate
  <2>1. active'
    BY <1>7 DEF Activate
  <2> QED  BY <1>7, <2>1, CalmActivate DEF CalmInv
<1>8. CASE \E mode \in {"own", "Loiter"}, known \in LandedKnown, result \in SaveResults :
             Deactivate(mode, known, result)
  <2>1. sched' = NoSched /\ aborted' = aborted
    BY <1>8 DEF Deactivate
  <2> QED  BY <1>8, <2>1, CalmDeactivate DEF CalmInv
<1>9. CASE Crash
  BY <1>9, CalmCrash
<1> QED  BY <1>1, <1>2, <1>3, <1>4, <1>5, <1>6, <1>7, <1>8, <1>9 DEF Answers, Interference

\* A mission that is active, valid and not aborted has its token: some frame
\* of the running callback or one of the four things it waits for carries it
\* on.
THEOREM CalmHolds == Spec => []CalmInv
<1>1. Init => CalmInv
  BY CalmMemory DEF Init, CalmInv
<1>2. CoreInv /\ CalmInv /\ [Next]_vars => CalmInv'
  <2>1. CoreInv /\ CalmInv /\ UNCHANGED vars => CalmInv'
    BY DEF CalmInv, CalmRun, vars, missionVars, stateVars, runVars, pendingVars, worldVars,
           historyVars, Ops, Flies, HeadIs, IndexValid, Len0, Token, Waits, Carries, Carry,
           SchedC, TimerC, LaterC, TrajC
  <2> QED  BY <2>1, CalmStep, CalmIdleStep DEF Next
<1> QED  BY <1>1, <1>2, CoreHolds, PTL DEF Spec

\* The callbacks that may carry the mission on.
LEMMA OneOfFour ==
  ASSUME CoreInv, Idle, Waits, TrajC => itemState = "Trajectory"
  PROVE  \E c : Continuations = {c}
<1>1. /\ SchedC => ~TimerC /\ ~LaterC /\ ~TrajC
      /\ TimerC => ~LaterC /\ ~TrajC
      /\ LaterC => ~TrajC
      /\ SchedC \/ TimerC \/ LaterC \/ TrajC
  BY DEF CoreInv, TokenInv, OneToken, Waits
<1>2. Continuations = (IF SchedC THEN {"mode"} ELSE {}) \cup (IF TimerC THEN {"timer"} ELSE {})
        \cup (IF LaterC THEN {"custom"} ELSE {}) \cup (IF TrajC THEN {"trajectory"} ELSE {})
  BY DEF Continuations, SchedC, TimerC, LaterC, TrajC
<1>3. /\ SchedC => Continuations = {"mode"}
      /\ TimerC => Continuations = {"timer"}
      /\ LaterC => Continuations = {"custom"}
      /\ TrajC => Continuations = {"trajectory"}
  BY <1>1, <1>2
<1> QED  BY <1>1, <1>3

\* A running mission waits for exactly one thing between callbacks
\* (runCurrentMissionItem() and the completion callbacks): CalmInv says that
\* there is one, OneToken that there is no other.
THEOREM WaitsForOne == Spec => []OneContinuation
<1>1. CoreInv /\ CalmInv => OneContinuation
  <2> SUFFICES ASSUME CoreInv, CalmInv, Idle, active, valid, ~aborted, IndexValid(index)
               PROVE  Cardinality(Continuations) = 1
    BY DEF OneContinuation
  <2>1. Waits /\ (TrajC => itemState = "Trajectory")
    BY CalmIdle DEF CalmInv
  <2>2. PICK c : Continuations = {c}
    BY <2>1, OneOfFour
  <2> QED  BY <2>2, FS_Singleton
<1> QED  BY <1>1, CoreHolds, CalmHolds, PTL

-----------------------------------------------------------------------------
(* An aborted mission has lost its token, where no restored action aborts.  *)

\* By a step without the token.
LEMMA AbortQuiet ==
  ASSUME CoreInv, AbortInv, "abort" \notin StoredOutcomes, ~Idle, ~Carry(todo[1]), QuietResult,
         todo[1].op \notin {"abort", "aborted"}
  PROVE  AbortInv'
<1>1. /\ todo \in Seq(Frames) /\ todo # <<>> /\ 1 \in DOMAIN todo /\ Shape(todo)
      /\ todo[1].op # "item"
  BY TopFrame DEF CoreInv, StackInv, Carry
<1>2. PICK fr : Pushes(fr)
  BY DEF QuietResult
<1>3. /\ QuietFrames(fr) /\ todo' = fr \o Tail(todo)
      /\ fr \in Seq(Frames) /\ Shape(fr) /\ ~Carries(fr) /\ ~Flies(fr)
  BY <1>2 DEF Pushes, QuietFrames
<1>4. Carries(todo') => Carries(todo)
  BY <1>1, <1>3, Pushed
<1>5. aborted' => ~Token'
  BY <1>4 DEF QuietResult, AbortInv, Token, Waits, LaterC, TrajC
<1>6. \A i \in DOMAIN todo' : \/ \E j \in DOMAIN fr : todo'[i] = fr[j]
                              \/ \E j \in DOMAIN todo : j # 1 /\ todo'[i] = todo[j]
  BY <1>3, PushedFrames, Zenon DEF CoreInv
<1>7. SUFFICES ASSUME NEW i \in DOMAIN todo', todo'[i].op = "item"
               PROVE  Ops(todo', {"item", "stored", "restore", "call"})
  BY <1>5 DEF AbortInv, ItemsAside, Ops
<1>8. \A j \in DOMAIN fr : fr[j].op # "item"
  BY <1>3 DEF Carries, Carry
<1>9. Ops(todo, {"item", "stored", "restore", "call"})
  BY <1>6, <1>7, <1>8 DEF AbortInv, ItemsAside
<1>10. todo[1].op \in {"stored", "restore", "call"}
  BY <1>1, <1>9 DEF Ops
<1>11. \/ fr = <<>>
       \/ fr = <<Call(Nothing)>>
       \/ \A j \in DOMAIN fr : fr[j].op = "restore"
  BY <1>2, <1>10 DEF Pushes
<1>12. \A j \in DOMAIN fr : fr[j].op \in {"restore", "call"}
  <2>1. DOMAIN <<>> = {} /\ \A f : DOMAIN <<f>> = {1} /\ <<f>>[1] = f
    OBVIOUS
  <2>2. Call(Nothing).op = "call"
    BY NewCall, CompletionTypes
  <2> QED  BY <1>11, <2>1, <2>2
<1> QED  BY <1>6, <1>9, <1>12 DEF Ops

\* By a step with the token.
LEMMA AbortToken ==
  ASSUME CoreInv, AbortInv, ~aborted, TokenResult
  PROVE  AbortInv'
<1>1. /\ Abort.op = "abort" /\ Frame("flying", "", Nothing).op = "flying"
      /\ RunMode("own", Nothing).op = "mode" /\ RunMode("Loiter", Nothing).op = "mode"
  BY SimpleFrames
<1>2. /\ DOMAIN <<>> = {} /\ \A f : DOMAIN <<f>> = {1} /\ <<f>>[1] = f
      /\ \A f, g : DOMAIN <<f, g>> = {1, 2} /\ <<f, g>>[1] = f /\ <<f, g>>[2] = g
  OBVIOUS
<1>3. \/ \A i \in DOMAIN todo' : todo'[i].op # "item"
      \/ \A i \in DOMAIN todo' : todo'[i].op \in {"item", "stored"}
  <2>1. CASE HandsOn
    <3>1. CASE \E f : f.op \in {"item", "action", "mode", "call"} /\ todo' = <<f>>
      BY <1>2, <3>1
    <3>2. CASE \E f, g : /\ \/ f.op = "stored" /\ g.op = "item"
                            \/ f.op = "mode" /\ g.op = "hold"
                            \/ f.op = "abort" /\ g.op = "call"
                         /\ todo' = <<f, g>>
      <4>1. PICK f, g : /\ \/ f.op = "stored" /\ g.op = "item"
                           \/ f.op = "mode" /\ g.op = "hold"
                           \/ f.op = "abort" /\ g.op = "call"
                        /\ todo' = <<f, g>>
        BY <3>2
      <4>2. \A i \in DOMAIN todo' : todo'[i] \in {f, g}
        BY <1>2, <4>1
      <4> QED  BY <4>1, <4>2
    <3> QED  BY <2>1, <3>1, <3>2 DEF HandsOn
  <2>2. CASE Flight
    <3> DEFINE f == Frame("flying", "", Nothing)
               m == RunMode("own", Nothing)
    <3>1. f.op = "flying" /\ m.op = "mode" /\ (todo' = <<f>> \/ todo' = <<m, f>>)
      BY <1>1, <2>2 DEF Flight
    <3> HIDE DEF f, m
    <3>2. \A i \in DOMAIN todo' : todo'[i] \in {f, m}
      BY <1>2, <3>1
    <3> QED  BY <3>1, <3>2
  <2>3. CASE todo' = <<>> \/ todo' = <<Abort>> \/ todo' = <<RunMode("Loiter", Nothing)>>
    <3> DEFINE m == RunMode("Loiter", Nothing)
    <3>1. m.op = "mode" /\ (todo' = <<>> \/ todo' = <<Abort>> \/ todo' = <<m>>)
      BY <1>1, <2>3
    <3> HIDE DEF m
    <3>2. \A i \in DOMAIN todo' : todo'[i] \in {Abort, m}
      BY <1>2, <3>1
    <3> QED  BY <1>1, <3>1, <3>2
  <2> QED  BY <2>1, <2>2, <2>3 DEF TokenResult
<1>4. ItemsAside'
  BY <1>3 DEF ItemsAside, Ops
<1> QED  BY <1>4 DEF AbortInv, TokenResult

\* By abort(), which makes every closure invalid.
LEMMA AbortAborts ==
  ASSUME CoreInv, AbortInv, Aborts
  PROVE  AbortInv'
<1>1. \A i \in DOMAIN todo : todo[i].op # "item"
  BY AbortResult DEF AbortInv, ItemsAside, Ops
<1>2. \A i \in DOMAIN todo' : todo'[i].op # "item" /\ ~Continues(todo'[i].done)
  BY <1>1, AbortResult
<1>3. ~Token'
  BY <1>2, AbortResult DEF Token, Carries, Carry, Waits, SchedC, TimerC, LaterC, TrajC
<1>4. ItemsAside'
  BY <1>2 DEF ItemsAside
<1> QED  BY <1>3, <1>4 DEF AbortInv

\* By the end of abort(), which runs onFailure without a token.
LEMMA AbortAbortReturns ==
  ASSUME CoreInv, AbortInv, AbortReturns
  PROVE  AbortInv'
<1> USE DEF missionVars, stateVars, runVars, pendingVars, worldVars, historyVars
<1>1. /\ todo \in Seq(Frames) /\ todo # <<>> /\ 1 \in DOMAIN todo /\ todo[1].op = "aborted"
      /\ Shape(todo)
  BY TopFrame DEF CoreInv, StackInv, AbortReturns, Top
<1>2. todo' = <<>> \o Tail(todo) /\ <<>> \in Seq(Frames)
  BY DEF AbortReturns, Then
<1>3. \A i \in DOMAIN todo : todo[i].op # "item"
  BY <1>1 DEF AbortInv, ItemsAside, Ops
<1>4. \A i \in DOMAIN todo' : \E j \in DOMAIN todo : todo'[i] = todo[j]
  <2>1. DOMAIN <<>> = {}
    OBVIOUS
  <2>2. TypeOK /\ ~Idle
    BY <1>1 DEF CoreInv, Idle
  <2> QED  BY <1>2, <2>1, <2>2, PushedFrames
<1>5. Carries(todo') => Carries(todo)
  BY <1>4 DEF Carries
<1>6. UNCHANGED <<aborted, sched, timer, later, traj>>
  BY DEF AbortReturns
<1>7. aborted' => ~Token'
  BY <1>5, <1>6 DEF AbortInv, Token, Waits, SchedC, TimerC, LaterC, TrajC
<1> QED  BY <1>3, <1>4, <1>7 DEF AbortInv, ItemsAside

\* By every step of a callback.
LEMMA AbortStep ==
  ASSUME CoreInv, CalmInv, AbortInv, "abort" \notin StoredOutcomes, Step
  PROVE  AbortInv'
<1>1. /\ ~Idle /\ active /\ 1 \in DOMAIN todo
      /\ todo[1].op = "abort" => Aborts
      /\ todo[1].op = "aborted" => AbortReturns
  BY StepRuns
<1>2. CASE ~Carry(todo[1]) /\ todo[1].op \notin {"abort", "aborted"}
  BY <1>1, <1>2, QuietSteps, AbortQuiet
<1>3. CASE Carry(todo[1])
  <2>1. ~aborted
    BY <1>1, <1>3 DEF AbortInv, Token, Carries
  <2>2. todo[1].arg # "onFailure"
    BY <1>1, <2>1 DEF CalmInv, CalmRun
  <2> QED  BY <1>3, <2>1, <2>2, TokenSteps, AbortToken
<1> QED  BY <1>1, <1>2, <1>3, AbortAborts, AbortAbortReturns

\* A callback that comes finds the token, or it takes nothing on.
LEMMA AbortCalls ==
  ASSUME CoreInv, AbortInv, Idle, NEW f, todo' = <<>> \/ todo' = <<f>>,
         f.op # "item" \/ todo' = <<>> \/ ~aborted', aborted' = aborted,
         Carry(f) /\ todo' = <<f>> => Waits, Waits' => Waits
  PROVE  AbortInv'
<1>1. DOMAIN <<>> = {} /\ DOMAIN <<f>> = {1} /\ <<f>>[1] = f
  OBVIOUS
<1>2. ItemsAside'
  BY <1>1 DEF ItemsAside, Ops
<1>3. Token' => Waits
  BY <1>1 DEF Token, Carries
<1> QED  BY <1>2, <1>3 DEF AbortInv, Token

\* By everything that happens between callbacks.
LEMMA AbortIdleStep ==
  ASSUME CoreInv, AbortInv, Answers \/ Interference
  PROVE  AbortInv'
<1> USE DEF missionVars, stateVars, runVars, pendingVars, worldVars, historyVars
<1>1. CASE WaypointReached
  <2>1. /\ Idle /\ aborted' = aborted
        /\ Waits' => Waits
        /\ TrajC <=> Continues(traj.done)
        /\ TrajC => Waits
    BY <1>1, Reached DEF Waits
  <2>2. CASE LastReached /\ ~OnSegment
    <3>1. traj.done \in Closures /\ traj.done.k # "failure" /\ todo' = <<Call(traj.done)>>
      <4>1. traj.done \in Completions \cup Segments
        BY <1>1, Reached
      <4> QED  BY <1>1, <2>2, <4>1, CompletionTypes, Reached DEF OnSegment
    <3> DEFINE f == Call(traj.done)
    <3>2. f.op = "call" /\ (Carry(f) <=> Continues(traj.done)) /\ todo' = <<f>>
      BY <3>1, CalmFrames
    <3> HIDE DEF f
    <3> QED  BY <2>1, <3>2, AbortCalls
  <2>3. CASE LastReached /\ OnSegment /\ traj.done.valid
    <3>1. todo' = <<RunItem>> /\ TrajC
      BY <1>1, <2>3, Reached
    <3>2. ~aborted
      BY <2>1, <3>1 DEF AbortInv, Token
    <3> QED  BY <2>1, <3>1, <3>2, AbortCalls
  <2>4. CASE ~LastReached \/ (OnSegment /\ ~traj.done.valid)
    <3>1. todo' = <<>>
      BY <1>1, <2>4, Reached
    <3> QED  BY <2>1, <3>1, AbortCalls
  <2> QED  BY <2>2, <2>3, <2>4
<1>2. CASE \E ok \in BOOLEAN : ModeCompletes(ok)
  <2>1. /\ Idle /\ sched' = NoSched /\ sched.done \in Closures
        /\ UNCHANGED <<aborted, timer, later, traj>>
        /\ todo' = <<Call(sched.done)>> \/ todo' = ModeFailed(sched.done)
    BY <1>2 DEF ModeCompletes, CoreInv, TypeOK
  <2>2. Waits' => Waits
    BY <2>1, CompletionTypes DEF Waits, SchedC, TimerC, LaterC, TrajC, NoSched
  <2>3. CASE todo' = <<Call(sched.done)>>
    <3> DEFINE f == Call(sched.done)
    <3>1. f.op = "call" /\ (Carry(f) => SchedC) /\ todo' = <<f>>
      BY <2>1, <2>3, NewCall DEF Carry, SchedC
    <3> HIDE DEF f
    <3> QED  BY <2>1, <2>2, <3>1, AbortCalls DEF Waits
  <2>4. CASE todo' = ModeFailed(sched.done)
    <3>1. CASE sched.done.fail = "descend" /\ sched.done.valid
      <4> DEFINE c == [sched.done EXCEPT !.fail = "ignore"]
                 f == RunMode("Descend", c)
      <4>1. todo' = <<f>> /\ sched.done.k = "failure"
        BY <2>1, <2>4, <3>1, CompletionTypes DEF ModeFailed
      <4>2. c \in Closures /\ ~Continues(c)
        BY <2>1, <4>1, IgnoringClosure
      <4> HIDE DEF c
      <4>3. f.op = "mode" /\ ~Carry(f)
        BY <4>2, NewMode DEF Modes, Carry
      <4> HIDE DEF f
      <4> QED  BY <2>1, <2>2, <4>1, <4>3, AbortCalls
    <3>2. CASE ~(sched.done.fail = "descend" /\ sched.done.valid)
      <4>1. todo' = <<Abort>> \/ todo' = <<>>
        BY <2>4, <3>2 DEF ModeFailed
      <4>2. Abort.op = "abort" /\ ~Carry(Abort)
        BY SimpleFrames, CompletionTypes DEF Carry
      <4> QED  BY <2>1, <2>2, <4>1, <4>2, AbortCalls
    <3> QED  BY <3>1, <3>2
  <2> QED  BY <2>1, <2>3, <2>4
<1>3. CASE TimerExpires
  <2>1. /\ Idle /\ timer' = Nothing /\ timer \in Closures
        /\ UNCHANGED <<aborted, sched, later, traj>> /\ todo' = <<Call(timer)>>
    BY <1>3, CompletionTypes DEF TimerExpires, CoreInv, TypeOK
  <2>2. Waits' => Waits
    BY <2>1, CompletionTypes DEF Waits, SchedC, TimerC, LaterC, TrajC
  <2> DEFINE f == Call(timer)
  <2>3. f.op = "call" /\ (Carry(f) => TimerC) /\ todo' = <<f>>
    BY <2>1, NewCall DEF Carry, TimerC
  <2> HIDE DEF f
  <2> QED  BY <2>1, <2>2, <2>3, AbortCalls DEF Waits
<1>4. CASE LaterCompletes
  <2>1. /\ Idle /\ later' = Nothing /\ later \in Closures
        /\ UNCHANGED <<aborted, sched, timer, traj>>
        /\ todo' = <<Call(later)>> \/ todo' = <<>>
    BY <1>4, CompletionTypes DEF LaterCompletes, CoreInv, TypeOK
  <2>2. Waits' => Waits
    BY <2>1, CompletionTypes DEF Waits, SchedC, TimerC, LaterC, TrajC
  <2> DEFINE f == Call(later)
  <2>3. f.op = "call" /\ (Carry(f) => LaterC) /\ (todo' = <<f>> \/ todo' = <<>>)
    BY <2>1, NewCall DEF Carry, LaterC
  <2> HIDE DEF f
  <2> QED  BY <2>1, <2>2, <2>3, AbortCalls DEF Waits
<1>5. CASE UserAbort \/ PositionInvalid
  <2>1. /\ Idle /\ todo' = <<Abort>>
        /\ UNCHANGED <<aborted, sched, timer, later, traj>>
    BY <1>5 DEF UserAbort, PositionInvalid
  <2>2. Abort.op = "abort" /\ ~Carry(Abort)
    BY SimpleFrames, CompletionTypes DEF Carry
  <2>3. Waits' => Waits
    BY <2>1 DEF Waits, SchedC, TimerC, LaterC, TrajC
  <2> QED  BY <2>1, <2>2, <2>3, AbortCalls
<1>6. CASE StatusUpdate \/ (\E m \in Missions : SetMission(m)) \/ ResetMission \/ LandedChanges
  <2>1. Idle /\ todo' = <<>> /\ UNCHANGED <<aborted, sched, timer, later, traj>>
    BY <1>6 DEF StatusUpdate, SetMission, ResetMission, LandedChanges, Idle
  <2>2. Waits' => Waits
    BY <2>1 DEF Waits, SchedC, TimerC, LaterC, TrajC
  <2> QED  BY <2>1, <2>2, AbortCalls
<1>7. CASE Activate
  <2> DEFINE f == Frame("begin", IF index = NoIndex THEN "start" ELSE "resume", Closure("begin"))
             g == Frame("begin", "resume", Closure("begin"))
  <2>1. ~aborted' /\ (todo' = <<f>> \/ todo' = <<Abort, g>> \/ todo' = <<Abort>>)
    BY <1>7 DEF Activate
  <2>2. f.op = "begin" /\ g.op = "begin"
    BY DEF Frame
  <2> HIDE DEF f, g
  <2>3. \A i \in DOMAIN todo' : todo'[i] \in {f, g, Abort}
    <3>1. /\ \A h : DOMAIN <<h>> = {1} /\ <<h>>[1] = h
          /\ \A h, k : DOMAIN <<h, k>> = {1, 2} /\ <<h, k>>[1] = h /\ <<h, k>>[2] = k
      OBVIOUS
    <3> QED  BY <2>1, <3>1
  <2>4. \A i \in DOMAIN todo' : todo'[i].op # "item"
    BY <2>2, <2>3, CalmFrames
  <2>5. ItemsAside'
    BY <2>4 DEF ItemsAside
  <2> QED  BY <2>1, <2>5 DEF AbortInv
<1>8. CASE \E mode \in {"own", "Loiter"}, known \in LandedKnown, result \in SaveResults :
             Deactivate(mode, known, result)
  <2>1. /\ Idle /\ todo' = <<>> /\ aborted' = aborted /\ active' = FALSE
    BY <1>8 DEF Deactivate, Idle
  <2>2. ~Waits'
    BY <1>8, <2>1, CoreDeactivate DEF CoreInv, TokenInv, Token
  <2> QED  BY <2>1, <2>2, AbortCalls
<1>9. CASE Crash
  <2>1. ~aborted' /\ todo' = <<>>
    BY <1>9 DEF Crash, Idle
  <2>2. DOMAIN todo' = {}
    BY <2>1
  <2>3. ItemsAside'
    BY <2>2 DEF ItemsAside
  <2> QED  BY <2>1, <2>3 DEF AbortInv
<1> QED  BY <1>1, <1>2, <1>3, <1>4, <1>5, <1>6, <1>7, <1>8, <1>9 DEF Answers, Interference

\* An aborted mission has no token, if no restored action aborts (abort(),
\* invalidateActionHandler()).  With such an action it has one: onActivate()
\* runs the current item after runStoredActions(), see the run
\* mission_abort_stored.
THEOREM AbortHolds == "abort" \notin StoredOutcomes /\ Spec => []AbortInv
<1> SUFFICES ASSUME "abort" \notin StoredOutcomes PROVE Spec => []AbortInv
  OBVIOUS
<1>1. Init => AbortInv
  <2>1. DOMAIN <<>> = {}
    OBVIOUS
  <2> QED  BY <2>1 DEF Init, Memory, AbortInv, ItemsAside
<1>2. CoreInv /\ CalmInv /\ AbortInv /\ [Next]_vars => AbortInv'
  <2>1. AbortInv /\ UNCHANGED vars => AbortInv'
    BY DEF AbortInv, vars, missionVars, stateVars, runVars, pendingVars, worldVars, historyVars,
           ItemsAside, Ops, Token, Waits, Carries, Carry, SchedC, TimerC, LaterC, TrajC
  <2> QED  BY <2>1, AbortStep, AbortIdleStep DEF Next
<1> QED  BY <1>1, <1>2, CoreHolds, CalmHolds, PTL DEF Spec

\* After an abort nothing carries the mission on, under the same condition:
\* every completion callback finds its handler invalid (isValid()).
THEOREM AbortsForGood == "abort" \notin StoredOutcomes /\ Spec => []AbortEndsMission
<1> SUFFICES ASSUME "abort" \notin StoredOutcomes PROVE Spec => []AbortEndsMission
  OBVIOUS
<1>1. AbortInv => AbortEndsMission
  BY DEF AbortInv, AbortEndsMission, Continuations, Token, Waits, SchedC, TimerC, LaterC, TrajC
<1>2. Spec => []AbortInv
  BY AbortHolds
<1> QED  BY <1>1, <1>2, PTL

-----------------------------------------------------------------------------
(* A mission flies in its own mode.                                         *)

\* The frames of a callback that comes.
LEMMA ComingFrames ==
  ASSUME CoreInv, Answers \/ Interference
  PROVE  /\ \A i \in DOMAIN todo' : todo'[i].op \in {"abort", "call", "item", "begin", "mode"}
         /\ todo' # <<>> => Len(todo') \in DOMAIN todo'
<1> USE DEF missionVars, stateVars, runVars, pendingVars, worldVars, historyVars
<1>1. /\ Abort.op = "abort" /\ RunItem.op = "item" /\ (\A c : Call(c).op = "call")
      /\ \A m, c : RunMode(m, c).op = "mode"
      /\ \A a, c : Frame("begin", a, c).op = "begin"
  BY DEF Abort, RunItem, Call, RunMode, Frame
<1> DEFINE Coming(f) == f.op \in {"abort", "call", "item", "begin", "mode"}
<1>2. /\ Coming(Abort) /\ Coming(RunItem) /\ (\A c : Coming(Call(c))) /\ (\A m, c : Coming(RunMode(m, c)))
      /\ \A a, c : Coming(Frame("begin", a, c))
  BY <1>1
<1> DEFINE F == {Frame("begin", a, Closure("begin")) : a \in {"start", "resume"}}
<1>3. /\ \A f : <<f>> # <<>> /\ DOMAIN <<f>> = {1} /\ <<f>>[1] = f /\ Len(<<f>>) = 1
      /\ \A f, g : <<f, g>> # <<>> /\ DOMAIN <<f, g>> = {1, 2} /\ <<f, g>>[1] = f
                   /\ <<f, g>>[2] = g /\ Len(<<f, g>>) = 2
      /\ DOMAIN <<>> = {}
  OBVIOUS
<1> HIDE DEF Coming
<1>4. \/ todo' = <<>>
      \/ \E f : Coming(f) /\ todo' = <<f>>
      \/ \E f, g : Coming(f) /\ Coming(g) /\ todo' = <<f, g>>
  <2>1. CASE WaypointReached
    BY <1>2, <2>1, Reached
  <2>2. CASE \E ok \in BOOLEAN : ModeCompletes(ok)
    <3>1. todo' = <<Call(sched.done)>> \/ todo' = ModeFailed(sched.done)
      BY <2>2 DEF ModeCompletes
    <3>2. CASE todo' = ModeFailed(sched.done)
      <4>1. sched.done.fail \in {"abort", "descend", "ignore"}
        BY CompletionTypes DEF CoreInv, TypeOK
      <4>2. \/ todo' = <<Abort>> \/ todo' = <<>>
            \/ todo' = <<RunMode("Descend", [sched.done EXCEPT !.fail = "ignore"])>>
        BY <3>2, <4>1 DEF ModeFailed
      <4> QED  BY <1>2, <4>2
    <3> QED  BY <1>2, <3>1, <3>2
  <2>3. CASE TimerExpires \/ LaterCompletes \/ UserAbort \/ PositionInvalid
    <3>1. \/ todo' = <<Call(timer)>> \/ todo' = <<Call(later)>> \/ todo' = <<>>
          \/ todo' = <<Abort>>
      BY <2>3 DEF TimerExpires, LaterCompletes, UserAbort, PositionInvalid
    <3> QED  BY <1>2, <3>1
  <2>4. CASE \/ StatusUpdate \/ (\E m \in Missions : SetMission(m)) \/ ResetMission
             \/ LandedChanges \/ Crash
             \/ \E mode \in {"own", "Loiter"}, known \in LandedKnown, result \in SaveResults :
                  Deactivate(mode, known, result)
    BY <2>4 DEF StatusUpdate, SetMission, ResetMission, LandedChanges, Crash, Deactivate, Idle
  <2>5. CASE Activate
    <3> DEFINE f == Frame("begin", IF index = NoIndex THEN "start" ELSE "resume", Closure("begin"))
               g == Frame("begin", "resume", Closure("begin"))
    <3>1. todo' = <<f>> \/ todo' = <<Abort, g>> \/ todo' = <<Abort>>
      BY <2>5 DEF Activate
    <3>2. Coming(f) /\ Coming(g)
      BY <1>2
    <3> HIDE DEF f, g
    <3> QED  BY <1>2, <3>1, <3>2
  <2> QED  BY <2>1, <2>2, <2>3, <2>4, <2>5 DEF Answers, Interference
<1>5. \A i \in DOMAIN todo' : Coming(todo'[i])
  BY <1>3, <1>4
<1>6. todo' # <<>> => Len(todo') \in DOMAIN todo'
  BY <1>3, <1>4
<1> QED  BY <1>5, <1>6 DEF Coming

\* The first frame is a scheduling.
LEMMA ModeStep ==
  ASSUME CoreInv, Step, todo[1].op = "mode"
  PROVE  ModeRuns
<1>1. Head(todo) = todo[1]
  BY StepRuns, TopFrame DEF CoreInv
<1> QED  BY <1>1 DEF Step, Begin, ItemRuns, Flying, ModeActionRuns, HoldRuns, HoldStarts,
         ChangeSettingsRuns, CameraRuns, CustomRuns, OnResumeRuns, OnFailureRuns, StoredRun,
         Aborts, AbortReturns, CallRuns, Action, Top

\* By runMode() and its failure.
LEMMA FlightMode ==
  ASSUME CoreInv, CalmInv, FlightInv, ModeRuns
  PROVE  FlightInv'
<1> USE DEF missionVars, stateVars, runVars, pendingVars, worldVars, historyVars
<1>1. /\ todo \in Seq(Frames) /\ todo # <<>> /\ 1 \in DOMAIN todo /\ todo[1].op = "mode"
      /\ Len(todo) \in Nat /\ Len(todo) > 0 /\ DOMAIN todo = 1 .. Len(todo) /\ Shape(todo)
      /\ todo[1] \in Frames /\ Done = todo[1].done /\ Arg = todo[1].arg
  BY TopFrame DEF ModeRuns, Top, CoreInv, StackInv, Done, Arg
<1>2. /\ itemState' = "Other" /\ aborted' = aborted
      /\ \/ activeMode' = todo[1].arg /\ nav' = todo[1].arg /\ todo' = <<>> \o Tail(todo)
         \/ activeMode' = NoMode /\ todo' = ModeFailed(Done) \o Tail(todo)
  BY <1>1 DEF ModeRuns, Then
<1>3. InMode' /\ InFlight'
  BY <1>2 DEF InMode, InFlight
<1>4. SUFFICES ASSUME ~aborted, Flies(todo')
               PROVE  \/ HeadIs("flying")' /\ activeMode' = "own"
                      \/ Len(todo') = 2 /\ HeadIs("abort")'
  BY <1>2, <1>3 DEF FlightInv, ToFlight
<1>5. Done.k # "failure" /\ Done \in Closures
  BY <1>1, <1>4, FrameTypes DEF CalmInv, CalmRun
<1>6. ModeFailed(Done) = <<Abort>>
  BY <1>5, CompletionTypes DEF ModeFailed
<1>7. /\ QuietFrames(<<>>) /\ QuietFrames(<<Abort>>)
      /\ <<>> \in Seq(Frames) /\ Len(<<>>) = 0
      /\ <<Abort>> \in Seq(Frames) /\ Len(<<Abort>>) = 1 /\ <<Abort>>[1] = Abort /\ Abort.op = "abort"
  BY QuietStacks, SimpleFrames, Stacks
<1>8. PICK fr \in {<<>>, <<Abort>>} : /\ todo' = fr \o Tail(todo)
                                      /\ fr = <<>> => activeMode' = todo[1].arg
  BY <1>2, <1>6
<1>9. /\ fr \in Seq(Frames) /\ Shape(fr) /\ ~Carries(fr) /\ ~Flies(fr)
      /\ Len(fr) \in Nat
  BY <1>7, <1>8 DEF QuietFrames
<1>10. Flies(todo) /\ Len(todo) > 1
  BY <1>1, <1>4, <1>8, <1>9, Pushed
<1>11. Len(todo) = 2 /\ todo[1].arg = "own"
  BY <1>1, <1>4, <1>10 DEF FlightInv, ToFlight, HeadIs
<1>12. /\ todo' \in Seq(Frames) /\ Len(todo') = Len(fr) + 1
       /\ \A i \in 1 .. Len(fr) : todo'[i] = fr[i]
       /\ todo'[Len(fr) + 1] = todo[2]
  <2>1. /\ todo' \in Seq(Frames) /\ Len(todo') = Len(fr) + Len(todo) - 1
        /\ \A i \in 1 .. Len(fr) : todo'[i] = fr[i]
        /\ \A i \in 2 .. Len(todo) : todo'[i + Len(fr) - 1] = todo[i]
    BY <1>1, <1>8, <1>9, Replaced
  <2>2. 2 \in 2 .. Len(todo) /\ 2 + Len(fr) - 1 = Len(fr) + 1
    BY <1>9, <1>11
  <2> QED  BY <1>9, <1>11, <2>1, <2>2
<1>13. CASE fr = <<>>
  <2>1. todo'[1] = todo[2] /\ todo' # <<>> /\ todo[2].op = "flying"
    BY <1>7, <1>10, <1>11, <1>12, <1>13 DEF Flies
  <2> QED  BY <1>8, <1>11, <1>13, <2>1 DEF HeadIs
<1>14. CASE fr = <<Abort>>
  <2>1. Len(todo') = 2 /\ todo'[1] = Abort /\ todo' # <<>>
    BY <1>7, <1>12, <1>14
  <2> QED  BY <1>7, <2>1 DEF HeadIs
<1> QED  BY <1>8, <1>13, <1>14

\* By a step without the token.
LEMMA FlightQuiet ==
  ASSUME CoreInv, CalmInv, FlightInv, ~Idle, active, ~Carry(todo[1]), QuietResult,
         todo[1].op \notin {"abort", "aborted", "mode"}
  PROVE  FlightInv'
<1>1. /\ todo \in Seq(Frames) /\ todo # <<>> /\ 1 \in DOMAIN todo /\ Shape(todo)
      /\ todo[1] \in Frames
  BY TopFrame DEF CoreInv, StackInv
<1>2. UNCHANGED <<active, aborted, activeMode, nav>>
  BY DEF QuietResult
<1>3. InMode'
  BY <1>2 DEF InMode, FlightInv
<1>4. SUFFICES ASSUME ~aborted PROVE InFlight' /\ ToFlight'
  BY <1>2, <1>3 DEF FlightInv
<1>5. todo[1].op # "action"
  BY <1>1, <1>4 DEF QuietResult, CalmInv, CalmRun
<1>6. InFlight'
  <2>1. ~HeadIs("abort")
    BY DEF HeadIs
  <2>2. CASE todo[1].op = "flying"
    <3>1. todo = <<todo[1]>>
      BY <1>1, <2>2, CarrierAlone
    <3>2. Flies(todo)
      BY <1>1, <2>2, <3>1, Stacks
    <3>3. activeMode = "own"
      BY <1>4, <2>2, <3>2 DEF FlightInv, ToFlight, HeadIs
    <3> QED  BY <1>2, <3>3 DEF InFlight
  <2>3. CASE todo[1].op # "flying"
    <3>1. itemState' = itemState
      BY <1>5, <2>3 DEF QuietResult
    <3> QED  BY <1>2, <1>4, <2>1, <3>1 DEF InFlight, FlightInv
  <2> QED  BY <2>2, <2>3
<1>7. ~Flies(todo')
  <2>1. SUFFICES ASSUME Flies(todo') PROVE FALSE
    OBVIOUS
  <2>2. PICK fr : Pushes(fr)
    BY DEF QuietResult
  <2>3. Flies(todo) /\ Len(todo) > 1
    BY <1>1, <2>1, <2>2, Pushed DEF Pushes, QuietFrames
  <2>4. todo[1].op = "flying"
    BY <1>4, <2>3 DEF FlightInv, ToFlight, HeadIs
  <2> QED  BY <1>1, <2>3, <2>4, CarrierAlone
<1> QED  BY <1>6, <1>7 DEF ToFlight

\* By a step with the token.
LEMMA FlightToken ==
  ASSUME CoreInv, FlightInv, ~Idle, ~aborted, active, Carry(todo[1]), TokenResult,
         todo[1].op # "mode"
  PROVE  FlightInv'
<1>1. UNCHANGED <<active, aborted, activeMode, nav>>
  BY DEF TokenResult
<1>2. InMode'
  BY <1>1 DEF InMode, FlightInv
<1>3. InFlight'
  <2>1. todo[1] \in Frames
    BY TopFrame DEF CoreInv
  <2>2. ~HeadIs("abort")
    BY <2>1, FrameTypes, CompletionTypes DEF HeadIs, Carry
  <2> QED  BY <1>1, <2>2 DEF InFlight, FlightInv, TokenResult
<1>4. /\ \A f : <<f>> # <<>> /\ DOMAIN <<f>> = {1} /\ <<f>>[1] = f /\ Len(<<f>>) = 1
      /\ \A f, g : <<f, g>> # <<>> /\ DOMAIN <<f, g>> = {1, 2} /\ <<f, g>>[1] = f
                   /\ <<f, g>>[2] = g /\ Len(<<f, g>>) = 2
  OBVIOUS
<1>5. ToFlight'
  <2>1. CASE HandsOn
    <3>1. \/ \E f : f.op # "flying" /\ todo' = <<f>>
          \/ \E f, g : g.op # "flying" /\ todo' = <<f, g>>
      BY <2>1 DEF HandsOn
    <3>2. ~Flies(todo')
      BY <1>4, <3>1 DEF Flies
    <3> QED  BY <3>2 DEF ToFlight
  <2>2. CASE Flight
    <3> DEFINE f == Frame("flying", "", Nothing)
               m == RunMode("own", Nothing)
    <3>1. /\ (activeMode = "own" /\ todo' = <<f>>) \/ todo' = <<m, f>>
          /\ f.op = "flying" /\ m.op = "mode" /\ m.arg = "own"
      BY <2>2, SimpleFrames DEF Flight
    <3> HIDE DEF f, m
    <3>2. CASE activeMode = "own" /\ todo' = <<f>>
      BY <1>1, <1>4, <3>1, <3>2 DEF ToFlight, HeadIs
    <3>3. CASE todo' = <<m, f>>
      BY <1>4, <3>1, <3>3 DEF ToFlight, HeadIs
    <3> QED  BY <3>1, <3>2, <3>3
  <2>3. CASE todo' = <<>> \/ todo' = <<Abort>> \/ todo' = <<RunMode("Loiter", Nothing)>>
    <3> DEFINE m == RunMode("Loiter", Nothing)
    <3>1. m.op = "mode" /\ Abort.op = "abort"
          /\ (todo' = <<>> \/ todo' = <<Abort>> \/ todo' = <<m>>)
      BY <2>3, SimpleFrames
    <3> HIDE DEF m
    <3>2. ~Flies(todo')
      BY <1>4, <3>1 DEF Flies
    <3> QED  BY <3>2 DEF ToFlight
  <2> QED  BY <2>1, <2>2, <2>3 DEF TokenResult
<1> QED  BY <1>1, <1>2, <1>3, <1>5 DEF FlightInv

\* By every step of a callback.
LEMMA FlightStep ==
  ASSUME CoreInv, CalmInv, FlightInv, Step
  PROVE  FlightInv'
<1> USE DEF missionVars, stateVars, runVars, pendingVars, worldVars, historyVars
<1>1. /\ ~Idle /\ active /\ 1 \in DOMAIN todo /\ todo[1] \in Frames
      /\ todo[1].op = "abort" => Aborts
      /\ todo[1].op = "aborted" => AbortReturns
  BY StepRuns
<1>2. CASE todo[1].op = "mode"
  BY <1>2, ModeStep, FlightMode
<1>3. CASE todo[1].op = "abort"
  <2>1. aborted' = TRUE /\ UNCHANGED <<active, activeMode, nav>>
    BY <1>1, <1>3 DEF Aborts
  <2> QED  BY <2>1 DEF FlightInv, InMode
<1>4. CASE todo[1].op = "aborted"
  <2>1. UNCHANGED <<active, aborted, activeMode, nav>>
    BY <1>1, <1>4 DEF AbortReturns
  <2>2. aborted
    BY <1>1, <1>4 DEF CalmInv, CalmRun
  <2> QED  BY <2>1, <2>2 DEF FlightInv, InMode
<1>5. CASE ~Carry(todo[1]) /\ todo[1].op \notin {"abort", "aborted", "mode"}
  <2>1. QuietResult
    BY <1>5, QuietSteps
  <2> QED  BY <1>1, <1>5, <2>1, FlightQuiet
<1>6. CASE Carry(todo[1]) /\ todo[1].op # "mode" /\ ~aborted
  <2>1. todo[1].arg # "onFailure"
    BY <1>1, <1>6 DEF CalmInv, CalmRun
  <2>2. TokenResult
    BY <1>6, <2>1, TokenSteps
  <2> QED  BY <1>1, <1>6, <2>2, FlightToken
<1>7. CASE Carry(todo[1]) /\ todo[1].op \notin {"mode", "abort", "aborted"} /\ aborted
  <2>1. UNCHANGED <<active, aborted, activeMode, nav>>
    <3>1. ~Top("mode") /\ ~Top("abort") /\ ~Top("aborted")
      BY <1>1, <1>7, TopFrame DEF CoreInv, Top
    <3> QED  BY <3>1 DEF Step, Begin, ItemRuns, Flying, ModeRuns, ModeActionRuns, HoldRuns,
         HoldStarts, ChangeSettingsRuns, CameraRuns, CustomRuns, OnResumeRuns, OnFailureRuns,
         StoredRun, Aborts, AbortReturns, CallRuns, Unmoved
  <2> QED  BY <1>7, <2>1 DEF FlightInv, InMode
<1> QED  BY <1>2, <1>3, <1>4, <1>5, <1>6, <1>7

\* By everything that happens between callbacks.
LEMMA FlightIdleStep ==
  ASSUME CoreInv, CalmInv, FlightInv, Answers \/ Interference
  PROVE  FlightInv'
<1> USE DEF missionVars, stateVars, runVars, pendingVars, worldVars, historyVars
<1>1. ToFlight'
  BY ComingFrames DEF ToFlight, Flies
<1>2. ~HeadIs("abort") \/ ~Idle
  BY DEF HeadIs, Idle
<1>3. CASE \E ok \in BOOLEAN : ModeCompletes(ok)
  <2>1. PICK ok \in BOOLEAN : ModeCompletes(ok)
    BY <1>3
  <2>2. /\ Idle /\ UNCHANGED <<active, aborted, nav, itemState>>
        /\ activeMode' = activeMode \/ (activeMode' = NoMode /\ todo' = ModeFailed(sched.done))
    BY <2>1 DEF ModeCompletes
  <2>3. ~aborted => ModeFailed(sched.done) = <<Abort>>
    <3>1. ~aborted => sched.done.k # "failure"
      BY DEF CalmInv, CalmRun
    <3>2. sched.done \in Closures
      BY DEF CoreInv, TypeOK
    <3> QED  BY <3>1, <3>2, CompletionTypes DEF ModeFailed
  <2>4. todo' = <<Abort>> => HeadIs("abort")'
    BY Called, CalmFrames
  <2> QED  BY <1>1, <1>2, <2>2, <2>3, <2>4 DEF FlightInv, InMode, InFlight
<1>4. CASE Activate
  BY <1>1, <1>4 DEF Activate, FlightInv, InMode, InFlight
<1>5. CASE \/ (\E m \in Missions : SetMission(m)) \/ ResetMission \/ LandedChanges \/ Crash
           \/ \E mode \in {"own", "Loiter"}, known \in LandedKnown, result \in SaveResults :
                Deactivate(mode, known, result)
  <2>1. active' = FALSE
    BY <1>5 DEF SetMission, ResetMission, LandedChanges, Crash, Deactivate, CoreInv, TypeOK
  <2> QED  BY <1>1, <2>1 DEF FlightInv, InMode, InFlight
<1>6. CASE WaypointReached \/ TimerExpires \/ LaterCompletes \/ StatusUpdate \/ UserAbort
           \/ PositionInvalid
  <2>1. Idle /\ UNCHANGED <<active, aborted, activeMode, nav, itemState>>
    BY <1>6 DEF WaypointReached, TimerExpires, LaterCompletes, StatusUpdate, UserAbort,
       PositionInvalid
  <2> QED  BY <1>1, <1>2, <2>1 DEF FlightInv, InMode, InFlight
<1> QED  BY <1>3, <1>4, <1>5, <1>6 DEF Answers, Interference

\* The mode that the mission believes to be active is the one of the FMU or
\* none, and the own mode has been activated before a trajectory is flown
\* (runTrajectory(), onActivate() of the mode, _active_mode).
THEOREM FlightHolds == Spec => []FlightInv
<1>1. Init => FlightInv
  BY DEF Init, Memory, FlightInv, InMode, InFlight, ToFlight, Flies
<1>2. CoreInv /\ CalmInv /\ FlightInv /\ [Next]_vars => FlightInv'
  <2>1. FlightInv /\ UNCHANGED vars => FlightInv'
    BY DEF FlightInv, InMode, InFlight, ToFlight, Flies, HeadIs, vars, missionVars, stateVars,
           runVars, pendingVars, worldVars, historyVars
  <2> QED  BY <2>1, FlightStep, FlightIdleStep DEF Next
<1> QED  BY <1>1, <1>2, CoreHolds, CalmHolds, PTL DEF Spec

\* A mission that is not aborted flies a trajectory in its own mode, which it
\* believes to be active and the FMU is in (runTrajectory()).
THEOREM FliesOnlyInOwnMode == Spec => []FliesInOwnMode
<1>1. CoreInv /\ FlightInv => FliesInOwnMode
  BY DEF FlightInv, InMode, InFlight, FliesInOwnMode, HeadIs, Idle, NoMode
<1> QED  BY <1>1, CoreHolds, FlightHolds, PTL

=============================================================================
