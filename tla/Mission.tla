------------------------------- MODULE Mission -------------------------------
(***************************************************************************)
(* What MissionExecutor promises about the place it has in a mission       *)
(* (include/px4_ros2/mission/mission_executor.hpp): the items are run in   *)
(* order, one after the other, unless an action moves to another one; a    *)
(* mission that is interrupted is resumed where it was, also by a new      *)
(* process that is given the same mission; one that is aborted stays where *)
(* it is; and only the last item ends it.  MissionExecutor implements this.*)
(***************************************************************************)
EXTENDS Integers, Sequences

CONSTANTS
  Missions,  \* the missions that can be set
  Runnable,  \* those that can be run
  Landings,  \* items that are not resumed on the ground
  Jumps,     \* items that may move to another one
  NoIndex,
  Unusable   \* what is left of a file that was not written to its end

VARIABLES
  mission,   \* the mission that is set, or <<>>
  index,     \* the item to be run, NoIndex before the first
  phase,     \* "idle", "resuming", "running" or "aborted"
  saved      \* what a new process would resume: a mission and an index

vars == <<mission, index, phase, saved>>

Nowhere == [mission |-> <<>>, index |-> NoIndex]
Here    == [mission |-> mission, index |-> index]

Items     == 0 .. Len(mission) - 1
Item      == mission[index + 1]

Init == mission = <<>> /\ index = NoIndex /\ phase = "idle" /\ saved = Nowhere

Set(m) ==
  /\ phase = "idle"
  /\ mission' = m
  /\ index' = IF saved.mission = m /\ saved.index \in 0 .. Len(m) - 1
              THEN saved.index ELSE NoIndex
  /\ UNCHANGED <<phase, saved>>

Reset ==
  /\ phase = "idle"
  /\ mission' = <<>> /\ index' = NoIndex
  /\ UNCHANGED <<phase, saved>>

\* The mission begins, or goes on where it was; a user may abort it at once.
Start ==
  /\ phase = "idle"
  /\ index' = IF mission \in Runnable /\ index = NoIndex THEN 0 ELSE index
  /\ \/ mission \in Runnable /\ phase' = "resuming"
     \/ phase' = "aborted"
  /\ UNCHANGED <<mission, saved>>

\* Nothing is to be done for a landing that has happened.
Skip ==
  /\ phase = "resuming"
  /\ index \in Items /\ Item \in Landings
  /\ index' = (index + 1) % Len(mission)
  /\ UNCHANGED <<mission, phase, saved>>

Go ==
  /\ phase = "resuming"
  /\ phase' = "running"
  /\ UNCHANGED <<mission, index, saved>>

Advance ==
  /\ phase = "running"
  /\ index \in Items
  /\ index' = index + 1
  /\ UNCHANGED <<mission, phase, saved>>

Jump ==
  /\ phase = "running"
  /\ index \in Items /\ Item \in Jumps
  /\ index' \in Items
  /\ UNCHANGED <<mission, phase, saved>>

Abort ==
  /\ phase \in {"resuming", "running"}
  /\ phase' = "aborted"
  /\ UNCHANGED <<mission, index, saved>>

\* Past the last item, or on the ground at the last one.
Finish ==
  /\ phase # "idle"
  /\ index # NoIndex /\ index >= Len(mission) - 1
  /\ phase' = "idle"
  /\ index' = NoIndex
  /\ saved' = Nowhere
  /\ UNCHANGED mission

\* The file may not be opened, or not be written to its end.
Interrupt ==
  /\ phase # "idle"
  /\ index < Len(mission)
  /\ phase' = "idle"
  /\ saved' \in {saved} \cup (IF index \in Items THEN {Here, Unusable} ELSE {Nowhere})
  /\ UNCHANGED <<mission, index>>

\* A new process.
Restart ==
  /\ mission' = <<>> /\ index' = NoIndex /\ phase' = "idle"
  /\ saved' \in {saved} \cup (IF phase = "idle" THEN {} ELSE {Unusable})

Next ==
  \/ \E m \in Missions : Set(m)
  \/ Reset \/ Start \/ Skip \/ Go \/ Advance \/ Jump \/ Abort
  \/ Finish \/ Interrupt \/ Restart

Spec == Init /\ [][Next]_vars
=============================================================================
