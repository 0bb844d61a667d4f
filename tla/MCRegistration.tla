--------------------------- MODULE MCRegistration ---------------------------
(* Instances of Registration for TLC.                                        *)
EXTENDS Registration

TwoTopics == <<"fmu/out/vehicle_status", "fmu/in/goto_setpoint">>

\* An FMU that matches, and a node that checks
Good == [rmw |-> "dds", skipping |-> {}, format |-> <<"same", "same">>,
         protocol |-> TRUE, api |-> TRUE]
Other == <<"same", "different">>

\* Each version and a definition may differ; the first part or both may skip the
\* check; under Zenoh whatever differs may go unnoticed, but for the API.
SomeSystems == {
  Good,
  [Good EXCEPT !.format = Other],
  [Good EXCEPT !.format = Other, !.skipping = {1}],
  [Good EXCEPT !.protocol = FALSE],
  [Good EXCEPT !.protocol = FALSE, !.format = Other, !.skipping = {1, 2}],
  [Good EXCEPT !.api = FALSE],
  [Good EXCEPT !.rmw = "zenoh", !.format = Other],
  [Good EXCEPT !.rmw = "zenoh", !.api = FALSE],
  [Good EXCEPT !.rmw = "untyped", !.protocol = FALSE, !.format = Other]}
=============================================================================
