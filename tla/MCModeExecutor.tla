-------------------------- MODULE MCModeExecutor --------------------------
(* Instances of ModeExecutor for TLC.                                      *)
EXTENDS ModeExecutor

CONSTANTS own, a, b

TwoModes   == {own, a}
ThreeModes == {own, a, b}

Call(kind) == [kind |-> kind, mode |-> own, forced |-> FALSE]
Schedule(m, f) == [kind |-> "schedule", mode |-> m, forced |-> f]

ScheduleCalls == {Schedule(a, FALSE), Schedule(own, TRUE)}
OneSchedule == {Schedule(a, FALSE)}
AllCalls == ScheduleCalls
            \cup {Call("arm"), Call("disarm"), Call("waitReady"), Call("waitDisarmed")}

\* The users: the code of examples/cpp makes its next request when the last one
\* succeeded; another reacts to refusals as well; the last reacts to everything.
ExampleUser == {"onActivate", "Success"}
RetryingUser == ExampleUser \cup {"Rejected", "Timeout"}
\* Makes its next request when the last one is cancelled.
Rescheduler == {"onActivate", "Deactivated"}
AnyUser == Results \cup {"onActivate", "onDeactivate", "onFailsafeDeferred", "ownedMode",
                         "timer"}
=============================================================================
