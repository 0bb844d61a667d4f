------------------------------- MODULE Command -------------------------------
(***************************************************************************)
(* What sendCommandSync() promises to its caller (the documentation of     *)
(* include/px4_ros2/utils/vehicle_command_sender.hpp): a call returns once, *)
(* the FMU acts on it at most MaxTries times, and a Success or a Rejected   *)
(* is backed by an action of the FMU of that fate on a command of the same  *)
(* signature (command and source component).  The FMU may act after the     *)
(* call has returned Timeout.                                              *)
(***************************************************************************)
EXTENDS Naturals

CONSTANTS Calls, Signatures, NoSig, MaxTries

Fates    == {"accepted", "rejected"}
Outcomes == {"unsent", "open", "Success", "Rejected", "Timeout"}

VARIABLES
  sig,      \* the signature of each call
  outcome,  \* what each call returned
  effects,  \* the tries of each call that the FMU acted on
  fate      \* how it acted

vars == <<sig, outcome, effects, fate>>

Init ==
  /\ sig = [k \in Calls |-> NoSig]
  /\ outcome = [k \in Calls |-> "unsent"]
  /\ effects = [k \in Calls |-> {}]
  /\ fate = [k \in Calls |-> {}]

Open(k, g) ==
  /\ outcome[k] = "unsent"
  /\ sig' = [sig EXCEPT ![k] = g]
  /\ outcome' = [outcome EXCEPT ![k] = "open"]
  /\ UNCHANGED <<effects, fate>>

Act(k, try, f) ==
  /\ outcome[k] # "unsent"
  /\ try \in 1 .. MaxTries
  /\ try \notin effects[k]
  /\ effects' = [effects EXCEPT ![k] = @ \cup {try}]
  /\ fate' = [fate EXCEPT ![k] = @ \cup {f}]
  /\ UNCHANGED <<sig, outcome>>

Backed(k, f) == \E j \in Calls : sig[j] = sig[k] /\ f \in fate[j]

Answer(k, result) ==
  /\ outcome[k] = "open"
  /\ \/ result = "Timeout"
     \/ result = "Success" /\ Backed(k, "accepted")
     \/ result = "Rejected" /\ Backed(k, "rejected")
  /\ outcome' = [outcome EXCEPT ![k] = result]
  /\ UNCHANGED <<sig, effects, fate>>

Next ==
  \E k \in Calls :
    \/ \E g \in Signatures : Open(k, g)
    \/ \E try \in 1 .. MaxTries, f \in Fates : Act(k, try, f)
    \/ \E result \in {"Success", "Rejected", "Timeout"} : Answer(k, result)

Spec == Init /\ [][Next]_vars
=============================================================================
