------------------------ MODULE VehicleCommandSender ------------------------
(***************************************************************************)
(* VehicleCommandSender::sendCommandSync (utils/vehicle_command_sender.cpp) *)
(* and the objects that send through it: mode executors and                *)
(* HomePositionSetters.                                                    *)
(*                                                                         *)
(* A call publishes its command, takes ACKs from a subscription of its own *)
(* with a queue of depth 1, and publishes again when 300 ms have passed    *)
(* without a matching ACK, at most three times.  The ACK topic is shared:   *)
(* every ACK reaches every call that is subscribed, unless it is lost.      *)
(* Commands and ACKs take time, so an ACK may come when its call is over.   *)
(***************************************************************************)
EXTENDS Naturals, Sequences, FiniteSets

CONSTANTS
  Senders,     \* the objects that send commands
  Thread,      \* the ROS executor thread each of them runs in
  Component,   \* cmd.source_component of each
  Commands,    \* cmd.command
  HomeCommands,\* those of a HomePositionSetter
  HomeSenders, \* the senders that are HomePositionSetters
  MaxTries,    \* how often a call publishes its command: 3 in the code
  MaxCalls,    \* bound: calls of sendCommandSync in a behaviour
  NoSig,       \* a call not made yet
  NoAck        \* an empty subscription queue

Calls      == 1 .. MaxCalls
NoCall     == 0
Signatures == [command : Commands, component : {Component[s] : s \in Senders}]
Fates      == {"accepted", "rejected"}
Outcomes   == {"unsent", "open", "Success", "Rejected", "Timeout"}

ASSUME SenderAssumption ==
  /\ MaxTries \in Nat \ {0}
  /\ MaxCalls \in Nat
  /\ Thread \in [Senders -> Senders]
  /\ HomeSenders \subseteq Senders
  /\ HomeCommands \subseteq Commands
  /\ DOMAIN Component = Senders
  /\ NoSig \notin Signatures
  /\ NoAck \notin [call : Calls, fate : Fates]

VARIABLES
  running,  \* the call each sender is in, or NoCall
  phase,    \* what it does: "idle", "publish" or "wait"
  tries,    \* how often each call has published its command
  inbox,    \* the queue of the running call's ACK subscription
  link,     \* commands on their way to the FMU
  acks,     \* ACKs on their way to the subscriptions
  issued,   \* number of calls made
  sig,      \* command and source component of each call
  outcome,  \* what each call returned
  effects,  \* history: the tries of each call that the FMU acted on
  fate,     \* history: how it acted on them
  rivals    \* history: for each call, the calls of the same signature whose
            \* ACK may have come while it ran

senderVars  == <<running, phase, tries, inbox>>
networkVars == <<link, acks>>
callVars    == <<issued, sig, outcome, rivals>>
fmuVars     == <<effects, fate>>
vars == <<senderVars, networkVars, callVars, fmuVars>>

Ack     == [call : Calls, fate : Fates]
Message == [call : Calls, try : 1 .. MaxTries]

TypeOK ==
  /\ running \in [Senders -> Calls \cup {NoCall}]
  /\ phase \in [Senders -> {"idle", "publish", "wait"}]
  /\ tries \in [Calls -> 0 .. MaxTries]
  /\ inbox \in [Senders -> Ack \cup {NoAck}]
  /\ link \subseteq Message
  /\ acks \in Seq(Ack)
  /\ issued \in 0 .. MaxCalls
  /\ sig \in [Calls -> Signatures \cup {NoSig}]
  /\ outcome \in [Calls -> Outcomes]
  /\ effects \in [Calls -> SUBSET (1 .. MaxTries)]
  /\ fate \in [Calls -> SUBSET Fates]
  /\ rivals \in [Calls -> SUBSET Calls]

Init ==
  /\ running = [s \in Senders |-> NoCall]
  /\ phase = [s \in Senders |-> "idle"]
  /\ tries = [k \in Calls |-> 0]
  /\ inbox = [s \in Senders |-> NoAck]
  /\ link = {}
  /\ acks = <<>>
  /\ issued = 0
  /\ sig = [k \in Calls |-> NoSig]
  /\ outcome = [k \in Calls |-> "unsent"]
  /\ effects = [k \in Calls |-> {}]
  /\ fate = [k \in Calls |-> {}]
  /\ rivals = [k \in Calls |-> {}]

-----------------------------------------------------------------------------
\* The ACK of call j may still come: j runs, or its command or an ACK is on the
\* way.
Alive(j) ==
  \/ \E s \in Senders : running[s] = j
  \/ \E m \in link : m.call = j
  \/ \E i \in 1 .. Len(acks) : acks[i].call = j
  \/ \E s \in Senders : inbox[s] # NoAck /\ inbox[s].call = j

RunningCall(k) == \E s \in Senders : running[s] = k

\* sendCommandSync() up to the loop: a fresh subscription, and waiting until
\* the ACK topic has a publisher, which takes time and changes nothing.
Begin(s, g) ==
  LET k == issued + 1
  IN  /\ k \in Calls
      /\ \A t \in Senders : Thread[t] = Thread[s] => running[t] = NoCall
      /\ issued' = k
      /\ running' = [running EXCEPT ![s] = k]
      /\ phase' = [phase EXCEPT ![s] = "publish"]
      /\ inbox' = [inbox EXCEPT ![s] = NoAck]
      /\ sig' = [sig EXCEPT ![k] = g]
      /\ outcome' = [outcome EXCEPT ![k] = "open"]
      /\ rivals' = [j \in Calls |->
           IF j = k THEN {i \in Calls : sig[i] = g /\ Alive(i)}
           ELSE IF sig[j] = g /\ RunningCall(j) THEN rivals[j] \cup {k}
           ELSE rivals[j]]
      /\ UNCHANGED <<tries, networkVars, fmuVars>>

\* ModeExecutorBase::sendCommandSync()
ExecutorSends(s, c) ==
  /\ s \notin HomeSenders
  /\ Begin(s, [command |-> c, component |-> Component[s]])

\* HomePositionSetter::sendCommand() for one of its three requests
HomeSetterSends(s, c) ==
  /\ s \in HomeSenders
  /\ c \in HomeCommands
  /\ Begin(s, [command |-> c, component |-> Component[s]])

\* The next iteration of the loop publishes the command.
Publish(s) ==
  LET k == running[s]
  IN  /\ phase[s] = "publish"
      /\ tries' = [tries EXCEPT ![k] = @ + 1]
      /\ link' = link \cup {[call |-> k, try |-> tries[k] + 1]}
      /\ phase' = [phase EXCEPT ![s] = "wait"]
      /\ UNCHANGED <<running, inbox, acks, callVars, fmuVars>>

\* The call returns, and its subscription is gone.
Return(s, result) ==
  /\ outcome' = [outcome EXCEPT ![running[s]] = result]
  /\ running' = [running EXCEPT ![s] = NoCall]
  /\ phase' = [phase EXCEPT ![s] = "idle"]
  /\ inbox' = [inbox EXCEPT ![s] = NoAck]

\* Mutant: the target component is not compared.
MatchesCommand(s, ack) == sig[ack.call].command = sig[running[s]].command

\* ack.command == cmd.command && ack.target_component == cmd.source_component
Matches(s, ack) == sig[ack.call] = sig[running[s]]

TakeAck(s) ==
  /\ phase[s] = "wait"
  /\ inbox[s] # NoAck
  /\ \/ /\ Matches(s, inbox[s])
        /\ Return(s, IF inbox[s].fate = "accepted" THEN "Success" ELSE "Rejected")
     \/ /\ ~Matches(s, inbox[s])
        /\ inbox' = [inbox EXCEPT ![s] = NoAck]
        /\ UNCHANGED <<running, phase, outcome>>
  /\ UNCHANGED <<tries, networkVars, issued, sig, rivals, fmuVars>>

\* Mutant: the loop makes one try more.
ExpireOneMore(s) ==
  /\ phase[s] = "wait"
  /\ \/ /\ tries[running[s]] <= MaxTries
        /\ phase' = [phase EXCEPT ![s] = "publish"]
        /\ UNCHANGED <<running, inbox, outcome>>
     \/ /\ tries[running[s]] > MaxTries
        /\ Return(s, "Timeout")
  /\ UNCHANGED <<tries, networkVars, issued, sig, rivals, fmuVars>>

\* Mutant: the loop has no last try.
ExpireForEver(s) ==
  /\ phase[s] = "wait"
  /\ phase' = [phase EXCEPT ![s] = IF tries[running[s]] < MaxTries
                                   THEN "publish" ELSE "wait"]
  /\ UNCHANGED <<running, tries, inbox, networkVars, callVars, fmuVars>>

\* Mutant: the result is left at its initial value when no ACK came.
ExpireEarly(s) ==
  /\ phase[s] = "wait"
  /\ \/ /\ tries[running[s]] < MaxTries
        /\ phase' = [phase EXCEPT ![s] = "publish"]
        /\ UNCHANGED <<running, inbox, outcome>>
     \/ /\ tries[running[s]] = MaxTries
        /\ Return(s, "Rejected")
  /\ UNCHANGED <<tries, networkVars, issued, sig, rivals, fmuVars>>

\* 300 ms have passed.  The time is looked at before the queue is, so this may
\* happen with an ACK in the queue.
Expire(s) ==
  /\ phase[s] = "wait"
  /\ \/ /\ tries[running[s]] < MaxTries
        /\ phase' = [phase EXCEPT ![s] = "publish"]
        /\ UNCHANGED <<running, inbox, outcome>>
     \/ /\ tries[running[s]] = MaxTries
        /\ Return(s, "Timeout")
  /\ UNCHANGED <<tries, networkVars, issued, sig, rivals, fmuVars>>

-----------------------------------------------------------------------------
(* The FMU and the network (external).  A publisher's commands stay in       *)
(* order.                                                                   *)

Before(m, n) == m.call < n.call \/ (m.call = n.call /\ m.try < n.try)

FmuActs(m, f) ==
  /\ \A n \in link : sig[n.call].component = sig[m.call].component => ~Before(n, m)
  /\ link' = link \ {m}
  /\ effects' = [effects EXCEPT ![m.call] = @ \cup {m.try}]
  /\ fate' = [fate EXCEPT ![m.call] = @ \cup {f}]
  /\ acks' = Append(acks, [call |-> m.call, fate |-> f])
  /\ UNCHANGED <<senderVars, callVars>>

CommandLost(m) ==
  /\ link' = link \ {m}
  /\ UNCHANGED <<senderVars, acks, callVars, fmuVars>>

\* The oldest ACK reaches some of the subscriptions, and replaces what is in
\* their queues.
AckArrives(receivers) ==
  /\ acks # <<>>
  /\ receivers \subseteq {s \in Senders : running[s] # NoCall}
  /\ inbox' = [s \in Senders |-> IF s \in receivers THEN Head(acks) ELSE inbox[s]]
  /\ acks' = Tail(acks)
  /\ UNCHANGED <<running, phase, tries, link, callVars, fmuVars>>

Sender(s) ==
  \/ \E c \in Commands : ExecutorSends(s, c) \/ HomeSetterSends(s, c)
  \/ Publish(s) \/ TakeAck(s) \/ Expire(s)

Network ==
  \/ \E m \in link : CommandLost(m) \/ \E f \in Fates : FmuActs(m, f)
  \/ \E receivers \in SUBSET Senders : AckArrives(receivers)

Next == (\E s \in Senders : Sender(s)) \/ Network

Spec == Init /\ [][Next]_vars

\* The loop is left or goes on: wait_set.wait() has a timeout.
Fairness == \A s \in Senders : WF_vars(Publish(s)) /\ WF_vars(Expire(s))

FairSpec == Spec /\ Fairness

-----------------------------------------------------------------------------
\* An answer other than Timeout is backed by the FMU's action on this call, or
\* on one of the same signature whose ACK was still to come when this call
\* began, or that ran beside it: never on an older one, nor on a command of
\* another component (the matching in sendCommandSync()).
AnswerBelongs ==
  \A k \in Calls :
    /\ outcome[k] = "Success" =>
         \E j \in {k} \cup rivals[k] : sig[j] = sig[k] /\ "accepted" \in fate[j]
    /\ outcome[k] = "Rejected" =>
         \E j \in {k} \cup rivals[k] : sig[j] = sig[k] /\ "rejected" \in fate[j]

\* The call is what Command promises.
C == INSTANCE Command
ImplementsCommand == C!Spec

\* sendCommandSync() comes back, whatever is lost.
CallReturns == \A k \in Calls : outcome[k] = "open" ~> outcome[k] # "open"
=============================================================================
