----------------------------- MODULE MissionFile -----------------------------
(***************************************************************************)
(* A mission's file (mission/mission.cpp): how it is parsed and written,    *)
(* and MissionFileMonitor, whose thread watches the directory and resets a  *)
(* timer, in whose callback the ROS thread reads the file again.            *)
(*                                                                         *)
(* A JSON object is a function from its keys; a key that is missing is not   *)
(* in its domain.  The inotify queue and the writers are external.          *)
(***************************************************************************)
EXTENDS Integers, Sequences, FiniteSets

CONSTANTS
  Documents,  \* what writers put into the file
  RelativeName, \* the file name has no directory part: the watch fails
  MaxWrites,  \* bound: changes of the file in a behaviour
  Absent, Partial, None

-----------------------------------------------------------------------------
(* Parsing and writing.                                                    *)

Has(object, k) == k \in DOMAIN object

OptionNames == {"horizontalVelocity", "verticalVelocity", "maxHeadingRate"}

\* Angles: degrees in the file, tenths of a radian in memory.  Both conversions
\* round, as the products of two floats do: one does not give back what the other
\* was given.
DegToRad(degrees) == (degrees * 175 + 500) \div 1000
RadToDeg(radians) == (radians * 5730 + 500) \div 1000

\* from_json(TrajectoryOptions), from_json(MissionDefaults): other keys are ignored.
OptionsFromJson(j) ==
  [k \in OptionNames \cap DOMAIN j |->
     IF k = "maxHeadingRate" THEN DegToRad(j[k]) ELSE j[k]]

OptionsToJson(options) ==
  [k \in DOMAIN options |->
     IF k = "maxHeadingRate" THEN RadToDeg(options[k]) ELSE options[k]]

NoId == ""

IdOf(j) == IF Has(j, "id") THEN j.id ELSE NoId

\* from_json() of an item throws for these.
ItemValid(j) ==
  /\ Has(j, "type")
  /\ j.type = "navigation" =>
       /\ Has(j, "navigationType") /\ j.navigationType = "waypoint"
       /\ Has(j, "frame") /\ j.frame = "global"
       /\ Has(j, "position")                 \* x, y and z

\* An action keeps the whole object as its arguments.
ItemFromJson(j) ==
  IF j.type = "navigation"
  THEN [kind |-> "navigation", id |-> IdOf(j), position |-> j.position]
  ELSE [kind |-> "action", id |-> IdOf(j), name |-> j.type, arguments |-> j]

\* Mutant: the id of an item is not written.
WithoutId(j, id) == j

WithId(j, id) ==
  IF id = NoId THEN j
  ELSE [k \in DOMAIN j \cup {"id"} |-> IF k = "id" THEN id ELSE j[k]]

ItemToJson(item) ==
  IF item.kind = "navigation"
  THEN WithId([type |-> "navigation", navigationType |-> "waypoint",
               frame |-> "global", position |-> item.position], item.id)
  ELSE LET j == WithId([type |-> item.name], item.id)
           a == item.arguments
       IN  [k \in DOMAIN j \cup DOMAIN a |-> IF Has(a, k) THEN a[k] ELSE j[k]]

\* from_json(Mission) does not throw.
Valid(document) ==
  /\ document \notin {Absent, Partial}
  /\ document.version = 1
  /\ \A i \in 1 .. Len(document.items) : ItemValid(document.items[i])

FromJson(document) ==
  [options |-> IF Has(document, "defaults") THEN OptionsFromJson(document.defaults)
               ELSE OptionsFromJson(<<>>),
   items |-> [i \in 1 .. Len(document.items) |-> ItemFromJson(document.items[i])]]

\* defaults is null when there are no options, which from_json() takes as well
ToJson(mission) ==
  [version |-> 1,
   defaults |-> OptionsToJson(mission.options),
   items |-> [i \in 1 .. Len(mission.items) |-> ItemToJson(mission.items[i])]]

\* A JSON object is a function, and a mission's items are objects.
IsObject(j) == j = [k \in DOMAIN j |-> j[k]]

WellFormed(document) ==
  /\ Len(document.items) \in Nat
  /\ \A i \in 1 .. Len(document.items) : IsObject(document.items[i])

\* What is written for a mission is neither Absent nor Partial.
FileAssumption ==
  /\ MaxWrites \in Nat /\ RelativeName \in BOOLEAN
  /\ \A d \in Documents :
       Valid(d) => WellFormed(d) /\ ToJson(FromJson(d)) \notin {Absent, Partial}

-----------------------------------------------------------------------------
(* MissionFileMonitor                                                      *)

VARIABLES
  file,    \* what is in the file
  writes,  \* changes so far
  event,   \* an IN_MOVED_TO or IN_CLOSE_WRITE of the file is in the queue
  watched, \* inotify_add_watch() succeeded
  thread,  \* the thread: "start", "watching", "poll" or "done"
  armed,   \* _update_timer is not cancelled
  ros,     \* the ROS thread: "spin", in the callback "called" or "cancelled", in
           \* the destructor "joining", "ended"
  loaded   \* the mission of the last _on_mission_update(), or None

vars == <<file, writes, event, watched, thread, armed, ros, loaded>>

TypeOK ==
  /\ file \in Documents \cup {Absent, Partial}
  /\ writes \in 0 .. MaxWrites
  /\ event \in BOOLEAN /\ watched \in BOOLEAN /\ armed \in BOOLEAN
  /\ thread \in {"start", "watching", "poll", "done"}
  /\ ros \in {"spin", "called", "cancelled", "joining", "ended"}
  /\ loaded \in {FromJson(d) : d \in {x \in Documents : Valid(x)}} \cup {None}

\* The constructor has cancelled its timer and started the thread.
Init ==
  /\ file \in Documents \cup {Absent}
  /\ writes = 0
  /\ event = FALSE /\ watched = FALSE
  /\ thread = "start"
  /\ armed = FALSE
  /\ ros = "spin"
  /\ loaded = None

\* Mutant: the thread looks for the file before it watches the directory.
AddWatchLast ==
  \/ /\ thread = "start"
     /\ thread' = "watching"
     /\ armed' = (armed \/ file # Absent)
     /\ UNCHANGED <<file, writes, event, watched, ros, loaded>>
  \/ /\ thread = "watching"
     /\ thread' = "poll"
     /\ watched' = ~RelativeName
     /\ UNCHANGED <<file, writes, event, armed, ros, loaded>>

\* run(): the watch, then a first notification if the file is there
AddWatch ==
  \/ /\ thread = "start"
     /\ thread' = "watching"
     /\ watched' = ~RelativeName
     /\ UNCHANGED <<file, writes, event, armed, ros, loaded>>
  \/ /\ thread = "watching"
     /\ thread' = "poll"
     /\ armed' = (armed \/ file # Absent)
     /\ UNCHANGED <<file, writes, event, watched, ros, loaded>>

\* Every event of this file in the buffer resets the timer.
ReadEvents ==
  /\ thread = "poll"
  /\ event
  /\ event' = FALSE
  /\ armed' = TRUE
  /\ UNCHANGED <<file, writes, watched, thread, ros, loaded>>

\* The timer's callback begins ...
TimerFires ==
  /\ ros = "spin" /\ armed
  /\ ros' = "called"
  /\ UNCHANGED <<file, writes, event, watched, thread, armed, loaded>>

CancelTimer ==
  /\ ros = "called"
  /\ ros' = "cancelled"
  /\ armed' = FALSE
  /\ UNCHANGED <<file, writes, event, watched, thread, loaded>>

\* Mutant: the version and the items are not checked.
FileReadUnchecked ==
  /\ ros = "cancelled"
  /\ ros' = "spin"
  /\ loaded' = IF file \in Documents THEN FromJson(file) ELSE loaded
  /\ UNCHANGED <<file, writes, event, watched, thread, armed>>

\* ... fileUpdated() parses the file: an exception keeps the mission.
FileUpdated ==
  /\ ros = "cancelled"
  /\ ros' = "spin"
  /\ loaded' = IF Valid(file) THEN FromJson(file) ELSE loaded
  /\ UNCHANGED <<file, writes, event, watched, thread, armed>>

\* ~MissionFileMonitor() wakes the thread up and joins it.
Destroy ==
  /\ ros = "spin"
  /\ ros' = "joining"
  /\ UNCHANGED <<file, writes, event, watched, thread, armed, loaded>>

ThreadReturns ==
  /\ ros = "joining" /\ thread = "poll"
  /\ thread' = "done"
  /\ UNCHANGED <<file, writes, event, watched, armed, ros, loaded>>

Joined ==
  /\ ros = "joining" /\ thread = "done"
  /\ ros' = "ended"
  /\ armed' = FALSE
  /\ UNCHANGED <<file, writes, event, watched, thread, loaded>>

\* Writers: a file is opened, which truncates it, and closed, or moved here.
Truncate ==
  /\ writes < MaxWrites
  /\ file' = Partial
  /\ writes' = writes + 1
  /\ UNCHANGED <<event, watched, thread, armed, ros, loaded>>

Complete(document) ==
  /\ \/ file = Partial /\ UNCHANGED writes
     \/ writes < MaxWrites /\ writes' = writes + 1
  /\ file' = document
  /\ event' = (event \/ watched)
  /\ UNCHANGED <<watched, thread, armed, ros, loaded>>

Next ==
  \/ AddWatch \/ ReadEvents
  \/ TimerFires \/ CancelTimer \/ FileUpdated
  \/ Destroy \/ ThreadReturns \/ Joined
  \/ Truncate \/ \E document \in Documents : Complete(document)

Spec == Init /\ [][Next]_vars

-----------------------------------------------------------------------------
\* When the monitor has nothing left to do, the mission in use is the one in the
\* file, if that is valid: no change made while the thread starts, or while the
\* file is read, is missed.  A name without a directory is not watched.
LatestLoaded ==
  (thread = "poll" /\ ~event /\ ros = "spin" /\ ~armed /\ ~RelativeName) =>
    (Valid(file) => loaded = FromJson(file))

\* A mission that is written out (to_json) and read again has the same items, in
\* their order, with their ids and all arguments, and the same options with the same
\* velocities.  The heading rate went through degrees and may have been rounded.
RoundTrip ==
  loaded # None =>
    LET again == FromJson(ToJson(loaded))
    IN  /\ Valid(ToJson(loaded))
        /\ again.items = loaded.items
        /\ DOMAIN again.options = DOMAIN loaded.options
        /\ \A k \in DOMAIN loaded.options \ {"maxHeadingRate"} :
             again.options[k] = loaded.options[k]
=============================================================================
