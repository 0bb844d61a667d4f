----------------------------- MODULE MCNodeParts -----------------------------
(* An instance of NodeParts for TLC.                                       *)
EXTENDS NodeParts, Sequences, TLC

Waypoint ==
  [type |-> "navigation", navigationType |-> "waypoint", frame |-> "global", position |-> 1]

MissionDocuments ==
  { [version |-> 1, items |-> <<Waypoint>>],
    [version |-> 1, defaults |-> [horizontalVelocity |-> 2, maxHeadingRate |-> 90, other |-> 1],
     items |-> <<"id" :> "a" @@ Waypoint, [type |-> "hold", duration |-> 3]>>],
    [version |-> 2, items |-> <<Waypoint>>],
    [version |-> 1, items |-> <<[type |-> "hold", id |-> "b"], "frame" :> "local" @@ Waypoint>>],
    [version |-> 1, items |-> <<>>] }

Bit == {-1, 0, 1}

AttitudeSamples == Bit \X Bit \X Bit \X Bit
PointSamples    == {<<1, 2, 3>>, <<0, -1, 2>>}
YawSamples      == {-450, -90, 0, 90, 180, 270, 450}
RateSamples     == {-200, 30, 400}
=============================================================================
