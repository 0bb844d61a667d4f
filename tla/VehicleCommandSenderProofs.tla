---------------------- MODULE VehicleCommandSenderProofs ----------------------
(***************************************************************************)
(* An answer of sendCommandSync() is backed by what the FMU did, and the     *)
(* module implements Command, for every number of senders, commands, calls    *)
(* and tries, whatever is lost or late.                                      *)
(***************************************************************************)
EXTENDS VehicleCommandSender, TLAPS

\* What a sender does fits the call it is in, and no two are in the same call.
RunInv ==
  /\ \A s \in Senders :
       /\ phase[s] = "idle" <=> running[s] = NoCall
       /\ running[s] # NoCall =>
            /\ running[s] \in Calls
            /\ running[s] <= issued
            /\ outcome[running[s]] = "open"
            /\ phase[s] = "publish" => tries[running[s]] < MaxTries
  /\ \A s, t \in Senders : running[s] # NoCall /\ running[s] = running[t] => s = t

\* Calls are numbered in the order in which they are made.
IssuedInv ==
  \A k \in Calls :
    /\ k <= issued => sig[k] \in Signatures /\ outcome[k] # "unsent"
    /\ k > issued => sig[k] = NoSig /\ outcome[k] = "unsent" /\ tries[k] = 0

\* A command on its way was published and has not been acted on: a try has a
\* number of its own.
LinkInv ==
  /\ \A m \in link :
       /\ m.call <= issued
       /\ m.try <= tries[m.call]
       /\ m.try \notin effects[m.call]
  /\ \A k \in Calls : \A try \in effects[k] : try <= tries[k]

\* An ACK says what the FMU did.
Genuine(ack) == ack.call <= issued /\ ack.fate \in fate[ack.call]

AckInv ==
  /\ \A i \in 1 .. Len(acks) : Genuine(acks[i])
  /\ \A s \in Senders : inbox[s] # NoAck => Genuine(inbox[s])

\* The ACKs that a call can take for its own are those of its rivals.
RivalInv ==
  \A s \in Senders, j \in Calls :
    running[s] # NoCall /\ Alive(j) /\ sig[j] = sig[running[s]]
      => j = running[s] \/ j \in rivals[running[s]]

Inv == TypeOK /\ RunInv /\ IssuedInv /\ LinkInv /\ AckInv /\ RivalInv /\ AnswerBelongs

-----------------------------------------------------------------------------
LEMMA NoCallIsNone == NoCall \notin Calls /\ Calls \subseteq Nat
  BY SenderAssumption DEF NoCall, Calls

LEMMA Initially == Init => Inv
  <1> SUFFICES ASSUME Init PROVE Inv
    OBVIOUS
  <1>1. TypeOK
    BY SenderAssumption DEF Init, TypeOK, NoCall, Calls, Outcomes
  <1>2. RunInv /\ IssuedInv /\ AckInv
    BY SenderAssumption DEF Init, RunInv, IssuedInv, AckInv, NoCall, Calls
  <1>3. LinkInv /\ RivalInv /\ AnswerBelongs
    BY DEF Init, LinkInv, RivalInv, AnswerBelongs
  <1>4. QED
    BY <1>1, <1>2, <1>3 DEF Inv

\* A call that is made.
LEMMA BeginInv ==
  ASSUME Inv, NEW s \in Senders, NEW g \in Signatures, Begin(s, g)
  PROVE  Inv'
  <1> DEFINE k == issued + 1
  <1>1. k \in Calls /\ issued \in Nat /\ k > issued
    BY DEF Inv, TypeOK, Begin, Calls
  <1>2. running[s] = NoCall
    BY SenderAssumption DEF Inv, Begin
  <1>3. /\ issued' = k
        /\ running' = [running EXCEPT ![s] = k]
        /\ phase' = [phase EXCEPT ![s] = "publish"]
        /\ inbox' = [inbox EXCEPT ![s] = NoAck]
        /\ sig' = [sig EXCEPT ![k] = g]
        /\ outcome' = [outcome EXCEPT ![k] = "open"]
        /\ rivals' = [j \in Calls |->
             IF j = k THEN {i \in Calls : sig[i] = g /\ Alive(i)}
             ELSE IF sig[j] = g /\ RunningCall(j) THEN rivals[j] \cup {k}
             ELSE rivals[j]]
        /\ UNCHANGED <<tries, link, acks, effects, fate>>
    BY DEF Begin, networkVars, fmuVars
  <1> HIDE DEF k
  <1>4. sig[k] = NoSig /\ outcome[k] = "unsent" /\ tries[k] = 0
    BY <1>1 DEF Inv, IssuedInv
  <1>5. \A j \in Calls : j # k => (j <= issued <=> j <= issued')
    BY <1>1, <1>3 DEF Inv, TypeOK, Calls, k
  <1>6. TypeOK'
    <2>1. rivals' \in [Calls -> SUBSET Calls]
      BY <1>1, <1>3 DEF Inv, TypeOK
    <2>2. QED
      BY <1>1, <1>3, <2>1 DEF Inv, TypeOK, Calls, Outcomes
  <1>7. RunInv'
    <2>1. \A t \in Senders : t # s => running'[t] = running[t] /\ phase'[t] = phase[t]
      BY <1>3 DEF Inv, TypeOK
    <2>2. running'[s] = k /\ phase'[s] = "publish" /\ k # NoCall
      BY <1>1, <1>3, NoCallIsNone DEF Inv, TypeOK
    <2>3. outcome'[k] = "open" /\ tries'[k] < MaxTries
      BY <1>1, <1>3, <1>4, SenderAssumption DEF Inv, TypeOK
    <2>4. \A t \in Senders : t # s /\ running[t] # NoCall =>
            running[t] # k /\ running[t] \in Calls /\ running[t] <= issued
      BY <1>1 DEF Inv, RunInv, Calls
    <2>5. \A t \in Senders : t # s /\ running[t] # NoCall => outcome'[running[t]] = "open"
      BY <1>3, <2>4 DEF Inv, RunInv, TypeOK
    <2>6. \A t \in Senders : t # s /\ running[t] # NoCall => running[t] <= issued'
      BY <2>4, <1>5
    <2>7. k <= issued'
      BY <1>1, <1>3 DEF Calls
    <2>8. QED
      BY <1>1, <1>3, <2>1, <2>2, <2>3, <2>4, <2>5, <2>6, <2>7 DEF Inv, RunInv
  <1>8. IssuedInv'
    <2>1. \A j \in Calls : j # k => sig'[j] = sig[j] /\ outcome'[j] = outcome[j] /\ tries'[j] = tries[j]
      BY <1>3 DEF Inv, TypeOK
    <2>2. sig'[k] = g /\ outcome'[k] = "open" /\ ~(k > issued')
      BY <1>1, <1>3 DEF Inv, TypeOK, Calls
    <2>3. \A j \in Calls : j # k => (j > issued' <=> j > issued)
      BY <1>1, <1>3, <1>5 DEF Inv, TypeOK, Calls
    <2>4. QED
      BY <1>5, <2>1, <2>2, <2>3 DEF Inv, IssuedInv
  <1>9. LinkInv'
    BY <1>1, <1>3, <1>5 DEF Inv, LinkInv, TypeOK, Message, Calls, k
  <1>10. AckInv'
    <2>1. \A a \in Ack : Genuine(a) => Genuine(a)'
      BY <1>1, <1>3 DEF Genuine, Ack, Calls, k
    <2>2. \A i \in 1 .. Len(acks) : acks[i] \in Ack
      BY DEF Inv, TypeOK
    <2>3. \A t \in Senders : inbox'[t] # NoAck => inbox'[t] = inbox[t] /\ inbox[t] \in Ack
      BY <1>3 DEF Inv, TypeOK
    <2>4. QED
      BY <1>3, <2>1, <2>2, <2>3 DEF Inv, AckInv
  <1>11. RivalInv'
    <2>1. \A j \in Calls : Alive(j)' => Alive(j) \/ j = k
      <3>1. \A t \in Senders : running'[t] = running[t] \/ running'[t] = k
        BY <1>3 DEF Inv, TypeOK
      <3>2. \A t \in Senders : inbox'[t] = inbox[t] \/ inbox'[t] = NoAck
        BY <1>3 DEF Inv, TypeOK
      <3>3. QED
        BY <1>3, <3>1, <3>2 DEF Alive
    <2>2. \A j \in Calls : j # k => sig'[j] = sig[j]
      BY <1>3 DEF Inv, TypeOK
    <2>3. sig'[k] = g
      BY <1>1, <1>3 DEF Inv, TypeOK
    <2> SUFFICES ASSUME NEW t \in Senders, NEW j \in Calls, running'[t] # NoCall,
                        Alive(j)', sig'[j] = sig'[running'[t]], j # running'[t]
                 PROVE  j \in rivals'[running'[t]]
      BY DEF RivalInv
    <2>4. CASE t = s
      <3>1. running'[t] = k
        BY <1>3, <2>4 DEF Inv, TypeOK
      <3>2. Alive(j) /\ sig[j] = g
        BY <2>1, <2>2, <2>3, <3>1
      <3>3. QED BY <1>1, <1>3, <3>1, <3>2
    <2>5. CASE t # s
      <3>1. running'[t] = running[t] /\ running[t] \in Calls /\ running[t] # k
        BY <1>1, <1>3, <2>5 DEF Inv, TypeOK, RunInv, Calls
      <3>2. CASE j = k
        <4>1. sig[running[t]] = g
          BY <2>2, <2>3, <3>1, <3>2
        <4>2. RunningCall(running[t])
          BY DEF RunningCall
        <4>3. rivals'[running[t]] = rivals[running[t]] \cup {k}
          BY <1>3, <3>1, <4>1, <4>2
        <4>4. QED BY <3>1, <3>2, <4>3
      <3>3. CASE j # k
        <4>1. j \in rivals[running[t]]
          BY <2>1, <2>2, <3>1, <3>3 DEF Inv, RivalInv
        <4>2. rivals[running[t]] \subseteq rivals'[running[t]]
          BY <1>3, <3>1
        <4>3. QED BY <3>1, <4>1, <4>2
      <3>4. QED BY <3>2, <3>3
    <2>6. QED BY <2>4, <2>5
  <1>12. AnswerBelongs'
    <2>1. \A i \in Calls : outcome'[i] \in {"Success", "Rejected"} =>
            i # k /\ outcome'[i] = outcome[i]
      BY <1>1, <1>3 DEF Inv, TypeOK
    <2>2. \A i \in Calls : i # k => rivals[i] \subseteq rivals'[i]
      BY <1>3
    <2>3. \A i \in Calls : i # k /\ outcome[i] # "unsent" => sig[i] # NoSig
      BY SenderAssumption DEF Inv, IssuedInv, TypeOK, Calls
    <2>4. \A i, j \in Calls : i # k /\ outcome[i] # "unsent" /\ sig[j] = sig[i] =>
            sig'[j] = sig'[i]
      BY <1>3, <1>4, <2>3 DEF Inv, TypeOK
    <2>5. \A i \in Calls : rivals[i] \subseteq Calls
      BY DEF Inv, TypeOK
    <2>6. QED
      BY <1>3, <2>1, <2>2, <2>4, <2>5 DEF Inv, AnswerBelongs
  <1>13. QED
    BY <1>6, <1>7, <1>8, <1>9, <1>10, <1>11, <1>12 DEF Inv

\* What is alive was alive when no call is made, and so are the rivals.
LEMMA RivalsKept ==
  ASSUME Inv, UNCHANGED <<sig, rivals>>,
         \A s \in Senders : running'[s] = running[s] \/ running'[s] = NoCall,
         \A j \in Calls : Alive(j)' => Alive(j)
  PROVE  RivalInv'
  BY DEF Inv, RivalInv

\* A command that is published.
LEMMA PublishInv ==
  ASSUME Inv, NEW s \in Senders, Publish(s)
  PROVE  Inv'
  <1> DEFINE k == running[s]
             message == [call |-> k, try |-> tries[k] + 1]
  <1>1. /\ k \in Calls /\ k <= issued /\ outcome[k] = "open"
        /\ tries[k] \in Nat /\ tries[k] < MaxTries
        /\ phase[s] = "publish"
    BY DEF Publish, Inv, TypeOK, RunInv
  <1>2. /\ tries' = [tries EXCEPT ![k] = @ + 1]
        /\ link' = link \cup {message}
        /\ phase' = [phase EXCEPT ![s] = "wait"]
        /\ UNCHANGED <<running, inbox, acks, issued, sig, outcome, rivals, effects, fate>>
    BY DEF Publish, callVars, fmuVars
  <1>3. message \in Message
    BY <1>1, SenderAssumption DEF Message
  <1>4. TypeOK'
    BY <1>1, <1>2, <1>3, SenderAssumption DEF Inv, TypeOK
  <1>5. RunInv'
    <2>1. \A t \in Senders : t # s => phase'[t] = phase[t]
      BY <1>2 DEF Inv, TypeOK
    <2>2. \A t \in Senders : t # s /\ running[t] # NoCall =>
            running[t] \in Calls /\ tries'[running[t]] = tries[running[t]]
      BY <1>2 DEF Inv, TypeOK, RunInv
    <2>3. phase'[s] = "wait" /\ running[s] # NoCall
      BY <1>1, <1>2, NoCallIsNone DEF Inv, TypeOK
    <2>4. QED
      BY <1>2, <2>1, <2>2, <2>3 DEF Inv, RunInv
  <1>6. IssuedInv'
    BY <1>1, <1>2 DEF Inv, TypeOK, IssuedInv, Calls
  <1>7. LinkInv'
    <2>1. \A j \in Calls : tries[j] \in Nat /\ tries'[j] \in Nat /\ tries[j] <= tries'[j]
      BY <1>1, <1>2 DEF Inv, TypeOK
    <2>2. tries'[k] = tries[k] + 1
      BY <1>1, <1>2 DEF Inv, TypeOK
    <2>3. tries[k] + 1 \notin effects[k]
      BY <1>1 DEF Inv, LinkInv
    <2>4. \A m \in link : m.call \in Calls /\ m.try \in Nat
      BY DEF Inv, TypeOK, Message
    <2>5. message.call = k /\ message.try = tries[k] + 1
      OBVIOUS
    <2>6. \A j \in Calls : \A try \in effects[j] : try \in Nat
      BY DEF Inv, TypeOK
    <2> HIDE DEF message
    <2>7. \A m \in link' : m.call <= issued' /\ m.try <= tries'[m.call] /\ m.try \notin effects'[m.call]
      BY <1>1, <1>2, <2>1, <2>2, <2>3, <2>4, <2>5 DEF Inv, LinkInv
    <2>8. \A j \in Calls : \A try \in effects'[j] : try <= tries'[j]
      BY <1>2, <2>1, <2>6 DEF Inv, LinkInv
    <2>9. QED
      BY <2>7, <2>8 DEF LinkInv
  <1>8. AckInv' /\ AnswerBelongs'
    BY <1>2 DEF Inv, AckInv, AnswerBelongs, Genuine
  <1>9. RivalInv'
    <2>1. \A j \in Calls : Alive(j)' => Alive(j)
      BY <1>2 DEF Alive
    <2>2. QED BY <1>2, <2>1, RivalsKept
  <1>10. QED
    BY <1>4, <1>5, <1>6, <1>7, <1>8, <1>9 DEF Inv

\* A call that returns with a result that is backed.
LEMMA ReturnInv ==
  ASSUME Inv, NEW s \in Senders, NEW result \in {"Success", "Rejected", "Timeout"},
         running[s] # NoCall, Return(s, result),
         UNCHANGED <<tries, link, acks, issued, sig, rivals, effects, fate>>,
         result = "Success" => \E j \in {running[s]} \cup rivals[running[s]] :
                                 sig[j] = sig[running[s]] /\ "accepted" \in fate[j],
         result = "Rejected" => \E j \in {running[s]} \cup rivals[running[s]] :
                                 sig[j] = sig[running[s]] /\ "rejected" \in fate[j]
  PROVE  Inv'
  <1> DEFINE k == running[s]
  <1>1. k \in Calls /\ k <= issued /\ outcome[k] = "open"
    BY DEF Inv, RunInv
  <1>2. /\ outcome' = [outcome EXCEPT ![k] = result]
        /\ running' = [running EXCEPT ![s] = NoCall]
        /\ phase' = [phase EXCEPT ![s] = "idle"]
        /\ inbox' = [inbox EXCEPT ![s] = NoAck]
    BY DEF Return
  <1>3. TypeOK'
    BY <1>1, <1>2 DEF Inv, TypeOK, Outcomes
  <1>4. RunInv'
    <2>1. \A t \in Senders : t # s => running'[t] = running[t] /\ phase'[t] = phase[t]
      BY <1>2 DEF Inv, TypeOK
    <2>2. \A t \in Senders : t # s /\ running[t] # NoCall =>
            running[t] # k /\ running[t] \in Calls
      BY DEF Inv, RunInv
    <2>3. running'[s] = NoCall /\ phase'[s] = "idle"
      BY <1>2 DEF Inv, TypeOK
    <2>4. \A t \in Senders : t # s /\ running[t] # NoCall =>
            outcome'[running[t]] = outcome[running[t]]
      BY <1>2, <2>2 DEF Inv, TypeOK
    <2>5. QED
      BY <2>1, <2>2, <2>3, <2>4 DEF Inv, RunInv
  <1>5. IssuedInv'
    BY <1>1, <1>2 DEF Inv, TypeOK, IssuedInv, Calls
  <1>6. LinkInv'
    BY DEF Inv, LinkInv
  <1>7. \A t \in Senders : inbox'[t] = inbox[t] \/ inbox'[t] = NoAck
    BY <1>2 DEF Inv, TypeOK
  <1>8. AckInv'
    BY <1>7 DEF Inv, AckInv, Genuine
  <1>9. RivalInv'
    <2>1. \A t \in Senders : running'[t] = running[t] \/ running'[t] = NoCall
      BY <1>2 DEF Inv, TypeOK
    <2>2. \A j \in Calls : Alive(j)' => Alive(j)
      BY <1>7, <2>1, NoCallIsNone DEF Alive
    <2>3. QED BY <2>1, <2>2, RivalsKept
  <1>10. AnswerBelongs'
    BY <1>1, <1>2 DEF Inv, TypeOK, AnswerBelongs
  <1>11. QED
    BY <1>3, <1>4, <1>5, <1>6, <1>8, <1>9, <1>10 DEF Inv

\* An ACK that is taken from the queue.
LEMMA TakeAckInv ==
  ASSUME Inv, NEW s \in Senders, TakeAck(s)
  PROVE  Inv'
  <1> DEFINE k == running[s]
             ack == inbox[s]
  <1>1. /\ phase[s] = "wait" /\ ack # NoAck
        /\ UNCHANGED <<tries, link, acks, issued, sig, rivals, effects, fate>>
    BY DEF TakeAck, networkVars, fmuVars
  <1>2. k \in Calls /\ k # NoCall
    BY <1>1 DEF Inv, RunInv
  <1>3. ack \in Ack /\ Genuine(ack)
    BY <1>1 DEF Inv, TypeOK, AckInv
  <1>4. CASE Matches(s, ack) /\ Return(s, IF ack.fate = "accepted" THEN "Success" ELSE "Rejected")
    <2>1. ack.call \in Calls /\ ack.fate \in Fates /\ ack.fate \in fate[ack.call]
      BY <1>3 DEF Ack, Genuine
    <2>2. ack.call \in {k} \cup rivals[k] /\ sig[ack.call] = sig[k]
      BY <1>1, <1>2, <1>4, <2>1 DEF Inv, RivalInv, Matches, Alive
    <2>3. CASE ack.fate = "accepted"
      BY <1>1, <1>2, <1>4, <2>1, <2>2, <2>3, ReturnInv
    <2>4. CASE ack.fate = "rejected"
      BY <1>1, <1>2, <1>4, <2>1, <2>2, <2>4, ReturnInv
    <2>5. QED BY <2>1, <2>3, <2>4 DEF Fates
  <1>5. CASE /\ ~Matches(s, ack)
             /\ inbox' = [inbox EXCEPT ![s] = NoAck]
             /\ UNCHANGED <<running, phase, outcome>>
    <2>1. \A t \in Senders : inbox'[t] = inbox[t] \/ inbox'[t] = NoAck
      BY <1>5 DEF Inv, TypeOK
    <2>2. TypeOK' /\ RunInv' /\ IssuedInv' /\ LinkInv' /\ AnswerBelongs'
      BY <1>1, <1>5 DEF Inv, TypeOK, RunInv, IssuedInv, LinkInv, AnswerBelongs
    <2>3. AckInv'
      BY <1>1, <2>1 DEF Inv, AckInv, Genuine
    <2>4. \A j \in Calls : Alive(j)' => Alive(j)
      BY <1>1, <1>5, <2>1 DEF Alive
    <2>5. RivalInv'
      BY <1>1, <1>5, <2>4, RivalsKept
    <2>6. QED BY <2>2, <2>3, <2>5 DEF Inv
  <1>6. QED
    BY <1>4, <1>5 DEF TakeAck

\* 300 ms without an ACK.
LEMMA ExpireInv ==
  ASSUME Inv, NEW s \in Senders, Expire(s)
  PROVE  Inv'
  <1>1. /\ phase[s] = "wait" /\ running[s] # NoCall /\ running[s] \in Calls
        /\ UNCHANGED <<tries, link, acks, issued, sig, rivals, effects, fate>>
    BY DEF Expire, networkVars, fmuVars, Inv, RunInv
  <1>2. CASE /\ tries[running[s]] < MaxTries
             /\ phase' = [phase EXCEPT ![s] = "publish"]
             /\ UNCHANGED <<running, inbox, outcome>>
    <2>1. TypeOK' /\ IssuedInv' /\ LinkInv' /\ AnswerBelongs' /\ AckInv'
      BY <1>1, <1>2 DEF Inv, TypeOK, IssuedInv, LinkInv, AnswerBelongs, AckInv, Genuine
    <2>2. RunInv'
      <3>1. \A t \in Senders : t # s => phase'[t] = phase[t]
        BY <1>2 DEF Inv, TypeOK
      <3>2. phase'[s] = "publish"
        BY <1>2 DEF Inv, TypeOK
      <3>3. QED
        BY <1>1, <1>2, <3>1, <3>2 DEF Inv, RunInv
    <2>3. RivalInv'
      <3>1. \A j \in Calls : Alive(j)' => Alive(j)
        BY <1>1, <1>2 DEF Alive
      <3>2. QED BY <1>1, <1>2, <3>1, RivalsKept
    <2>4. QED BY <2>1, <2>2, <2>3 DEF Inv
  <1>3. CASE Return(s, "Timeout")
    BY <1>1, <1>3, ReturnInv
  <1>4. QED
    BY <1>2, <1>3 DEF Expire

\* The FMU acts on a command and sends an ACK.
LEMMA FmuActsInv ==
  ASSUME Inv, NEW m \in link, NEW f \in Fates, FmuActs(m, f)
  PROVE  Inv'
  <1> DEFINE ack == [call |-> m.call, fate |-> f]
  <1>1. m \in Message /\ m.call \in Calls /\ m.try \in 1 .. MaxTries
        /\ m.call <= issued /\ m.try <= tries[m.call] /\ m.try \notin effects[m.call]
    BY DEF Inv, TypeOK, Message, LinkInv
  <1>2. /\ link' = link \ {m}
        /\ effects' = [effects EXCEPT ![m.call] = @ \cup {m.try}]
        /\ fate' = [fate EXCEPT ![m.call] = @ \cup {f}]
        /\ acks' = Append(acks, ack)
        /\ UNCHANGED <<running, phase, tries, inbox, issued, sig, outcome, rivals>>
    BY DEF FmuActs, senderVars, callVars
  <1>3. ack \in Ack
    BY <1>1 DEF Ack
  <1>4. TypeOK'
    BY <1>1, <1>2, <1>3 DEF Inv, TypeOK
  <1>5. RunInv' /\ IssuedInv'
    BY <1>2 DEF Inv, RunInv, IssuedInv
  <1>6. \A k \in Calls : fate[k] \subseteq fate'[k]
    BY <1>1, <1>2 DEF Inv, TypeOK
  <1>7. \A k \in Calls : \A try \in effects'[k] :
          try \in effects[k] \/ (k = m.call /\ try = m.try)
    BY <1>1, <1>2 DEF Inv, TypeOK
  <1>8. LinkInv'
    <2>1. \A n \in link' : n \in link /\ n # m /\ n \in Message
      BY <1>2 DEF Inv, TypeOK
    <2>2. \A n \in link' : n.call # m.call \/ n.try # m.try
      BY <1>1, <2>1 DEF Message
    <2>3. \A n \in link' : n.try \notin effects'[n.call]
      BY <1>7, <2>1, <2>2 DEF Inv, LinkInv, Message
    <2>4. \A n \in link' : n.call <= issued' /\ n.try <= tries'[n.call]
      BY <1>2, <2>1 DEF Inv, LinkInv
    <2>5. \A k \in Calls : \A try \in effects'[k] : try <= tries'[k]
      BY <1>1, <1>2, <1>7 DEF Inv, LinkInv
    <2>6. QED BY <2>3, <2>4, <2>5 DEF LinkInv
  <1>9. \A a \in Ack : Genuine(a) => Genuine(a)'
    BY <1>2, <1>6 DEF Genuine, Ack
  <1>10. \A i \in 1 .. Len(acks') :
           (i \in 1 .. Len(acks) /\ acks'[i] = acks[i] /\ acks[i] \in Ack) \/ acks'[i] = ack
    BY <1>2, <1>3 DEF Inv, TypeOK
  <1>11. AckInv'
    <2>1. Genuine(ack)'
      BY <1>1, <1>2 DEF Genuine, Inv, TypeOK
    <2>2. \A i \in 1 .. Len(acks') : Genuine(acks[i])'
      <3> SUFFICES ASSUME NEW i \in 1 .. Len(acks') PROVE Genuine(acks[i])'
        OBVIOUS
      <3>1. CASE i \in 1 .. Len(acks) /\ acks'[i] = acks[i] /\ acks[i] \in Ack
        BY <1>2, <1>6, <3>1 DEF Inv, AckInv, Genuine, Ack
      <3>2. CASE acks'[i] = ack
        BY <2>1, <3>2 DEF Genuine
      <3>3. QED BY <1>10, <3>1, <3>2
    <2>3. \A s \in Senders : inbox[s] # NoAck => inbox[s] \in Ack
      BY DEF Inv, TypeOK
    <2>4. \A s \in Senders : inbox'[s] # NoAck => Genuine(inbox[s])'
      BY <1>2, <1>6, <2>3 DEF Inv, AckInv, Genuine, Ack
    <2>5. QED BY <2>2, <2>4 DEF AckInv, Genuine
  <1>12. RivalInv'
    <2>1. \A j \in Calls : Alive(j)' => Alive(j)
      <3>1. \A j \in Calls : (\E i \in 1 .. Len(acks') : acks'[i].call = j) =>
              (\E i \in 1 .. Len(acks) : acks[i].call = j) \/ j = m.call
        BY <1>10
      <3>2. QED BY <1>2, <3>1 DEF Alive
    <2>2. QED BY <1>2, <2>1, RivalsKept
  <1>13. AnswerBelongs'
    <2>1. \A k \in Calls : rivals[k] \subseteq Calls
      BY DEF Inv, TypeOK
    <2>2. QED BY <1>2, <1>6, <2>1 DEF Inv, AnswerBelongs
  <1>14. QED
    BY <1>4, <1>5, <1>8, <1>11, <1>12, <1>13 DEF Inv

\* A command is lost.
LEMMA CommandLostInv ==
  ASSUME Inv, NEW m \in link, CommandLost(m)
  PROVE  Inv'
  <1>1. /\ link' = link \ {m}
        /\ UNCHANGED <<running, phase, tries, inbox, acks, issued, sig, outcome, rivals,
                       effects, fate>>
    BY DEF CommandLost, senderVars, callVars, fmuVars
  <1>2. TypeOK' /\ RunInv' /\ IssuedInv' /\ LinkInv' /\ AckInv' /\ AnswerBelongs'
    BY <1>1 DEF Inv, TypeOK, RunInv, IssuedInv, LinkInv, AckInv, Genuine, AnswerBelongs
  <1>3. \A j \in Calls : Alive(j)' => Alive(j)
    BY <1>1 DEF Alive
  <1>4. QED
    BY <1>1, <1>2, <1>3, RivalsKept DEF Inv

\* An ACK reaches some of the queues.
LEMMA AckArrivesInv ==
  ASSUME Inv, NEW receivers \in SUBSET Senders, AckArrives(receivers)
  PROVE  Inv'
  <1>1. /\ acks # <<>>
        /\ inbox' = [s \in Senders |-> IF s \in receivers THEN Head(acks) ELSE inbox[s]]
        /\ acks' = Tail(acks)
        /\ UNCHANGED <<running, phase, tries, link, issued, sig, outcome, rivals, effects, fate>>
    BY DEF AckArrives, callVars, fmuVars
  <1>2. acks \in Seq(Ack) /\ Len(acks) \in Nat /\ 1 \in 1 .. Len(acks) /\ Head(acks) = acks[1]
    BY <1>1 DEF Inv, TypeOK
  <1>3. Head(acks) \in Ack /\ Tail(acks) \in Seq(Ack)
    BY <1>2
  <1>4. \A i \in 1 .. Len(acks') : i + 1 \in 1 .. Len(acks) /\ acks'[i] = acks[i + 1]
    BY <1>1, <1>2
  <1>5. TypeOK'
    BY <1>1, <1>3 DEF Inv, TypeOK
  <1>6. RunInv' /\ IssuedInv' /\ LinkInv' /\ AnswerBelongs'
    BY <1>1 DEF Inv, RunInv, IssuedInv, LinkInv, AnswerBelongs
  <1>7. AckInv'
    <2>1. \A i \in 1 .. Len(acks) : Genuine(acks[i])
      BY DEF Inv, AckInv
    <2>2. \A i \in 1 .. Len(acks') : Genuine(acks[i])'
      BY <1>1, <1>4, <2>1 DEF Genuine
    <2>3. \A s \in Senders : inbox'[s] = acks[1] \/ inbox'[s] = inbox[s]
      BY <1>1, <1>2
    <2>4. \A s \in Senders : inbox'[s] # NoAck => Genuine(inbox[s])'
      BY <1>1, <1>2, <2>1, <2>3 DEF Inv, AckInv, Genuine
    <2>5. QED BY <2>2, <2>4 DEF AckInv, Genuine
  <1>8. \A j \in Calls : Alive(j)' => Alive(j)
    <2>1. \A s \in Senders : inbox'[s] = acks[1] \/ inbox'[s] = inbox[s]
      BY <1>1, <1>2
    <2>2. \A i \in 1 .. Len(acks') : \E n \in 1 .. Len(acks) : acks'[i] = acks[n]
      BY <1>4
    <2>3. QED
      BY <1>1, <1>2, <2>1, <2>2 DEF Alive
  <1>9. QED
    BY <1>1, <1>5, <1>6, <1>7, <1>8, RivalsKept DEF Inv

(***************************************************************************)
(* Every step keeps the invariant.                                          *)
(***************************************************************************)
LEMMA StepInv == Inv /\ [Next]_vars => Inv'
  <1> SUFFICES ASSUME Inv, [Next]_vars PROVE Inv'
    OBVIOUS
  <1>1. ASSUME NEW s \in Senders, NEW c \in Commands, ExecutorSends(s, c) \/ HomeSetterSends(s, c)
        PROVE  Inv'
    <2>1. [command |-> c, component |-> Component[s]] \in Signatures
      BY DEF Signatures
    <2>2. QED
      BY <1>1, <2>1, BeginInv DEF ExecutorSends, HomeSetterSends
  <1>2. ASSUME NEW s \in Senders, Publish(s) \/ TakeAck(s) \/ Expire(s) PROVE Inv'
    BY <1>2, PublishInv, TakeAckInv, ExpireInv
  <1>3. ASSUME Network PROVE Inv'
    BY <1>3, FmuActsInv, CommandLostInv, AckArrivesInv DEF Network
  <1>4. CASE UNCHANGED vars
    <2>1. UNCHANGED <<running, phase, tries, inbox, link, acks, issued, sig, outcome, rivals,
                      effects, fate>>
      BY <1>4 DEF vars, senderVars, networkVars, callVars, fmuVars
    <2>2. TypeOK' /\ RunInv' /\ IssuedInv' /\ LinkInv' /\ AckInv' /\ AnswerBelongs'
      BY <2>1 DEF Inv, TypeOK, RunInv, IssuedInv, LinkInv, AckInv, Genuine, AnswerBelongs
    <2>3. \A j \in Calls : Alive(j)' => Alive(j)
      BY <2>1 DEF Alive
    <2>4. QED
      BY <2>1, <2>2, <2>3, RivalsKept DEF Inv
  <1>5. QED
    BY <1>1, <1>2, <1>3, <1>4 DEF Next, Sender

\* The state keeps its type: a command is published at most MaxTries times
\* (the loop of sendCommandSync()).
THEOREM TypeCorrect == Spec => []TypeOK
  <1>1. Inv => TypeOK
    BY DEF Inv
  <1>2. QED
    BY <1>1, Initially, StepInv, PTL DEF Spec

\* A Success or a Rejected is backed by what the FMU did, on this call or on one of
\* the same signature whose ACK was still to come (the matching of ACKs).
THEOREM AnswersBelong == Spec => []AnswerBelongs
  <1>1. Inv => AnswerBelongs
    BY DEF Inv
  <1>2. QED
    BY <1>1, Initially, StepInv, PTL DEF Spec

-----------------------------------------------------------------------------
(* Each step is one of Command, or leaves its variables alone.              *)

LEMMA InitiallyCommand == Init => C!Init
  BY DEF Init, C!Init

\* A result of a call that is backed is an Answer.
LEMMA ReturnAnswers ==
  ASSUME Inv, NEW s \in Senders, NEW result \in {"Success", "Rejected", "Timeout"},
         running[s] # NoCall, Return(s, result), UNCHANGED <<sig, effects, fate>>,
         result = "Success" => \E j \in Calls : sig[j] = sig[running[s]] /\ "accepted" \in fate[j],
         result = "Rejected" => \E j \in Calls : sig[j] = sig[running[s]] /\ "rejected" \in fate[j]
  PROVE  C!Next
  <1>1. running[s] \in Calls /\ outcome[running[s]] = "open"
    BY DEF Inv, RunInv
  <1>2. C!Answer(running[s], result)
    BY <1>1 DEF Return, C!Answer, C!Backed
  <1>3. QED
    BY <1>1, <1>2 DEF C!Next

LEMMA StepCommand == Inv /\ [Next]_vars => [C!Next]_(C!vars)
  <1> SUFFICES ASSUME Inv, [Next]_vars PROVE C!Next \/ UNCHANGED <<sig, outcome, effects, fate>>
    BY DEF C!vars
  <1>1. ASSUME NEW s \in Senders, NEW c \in Commands, ExecutorSends(s, c) \/ HomeSetterSends(s, c)
        PROVE  C!Next
    <2> DEFINE g == [command |-> c, component |-> Component[s]]
               k == issued + 1
    <2>1. g \in Signatures /\ Begin(s, g)
      BY <1>1 DEF Signatures, ExecutorSends, HomeSetterSends
    <2>2. k \in Calls /\ k > issued
      BY <2>1 DEF Begin, Inv, TypeOK, Calls
    <2>3. outcome[k] = "unsent"
      BY <2>2 DEF Inv, IssuedInv
    <2>4. C!Open(k, g)
      BY <2>1, <2>3 DEF Begin, fmuVars, C!Open
    <2>5. QED
      BY <2>1, <2>2, <2>4 DEF C!Next
  <1>2. ASSUME NEW s \in Senders, Publish(s)
        PROVE  UNCHANGED <<sig, outcome, effects, fate>>
    BY <1>2 DEF Publish, callVars, fmuVars
  <1>3. ASSUME NEW s \in Senders, TakeAck(s)
        PROVE  C!Next \/ UNCHANGED <<sig, outcome, effects, fate>>
    <2> DEFINE ack == inbox[s]
    <2>1. running[s] # NoCall /\ ack \in Ack /\ Genuine(ack)
      BY <1>3 DEF TakeAck, Inv, TypeOK, RunInv, AckInv
    <2>2. UNCHANGED <<sig, effects, fate>>
      BY <1>3 DEF TakeAck, fmuVars
    <2>3. CASE Matches(s, ack) /\ Return(s, IF ack.fate = "accepted" THEN "Success" ELSE "Rejected")
      <3>1. ack.call \in Calls /\ ack.fate \in Fates /\ ack.fate \in fate[ack.call]
            /\ sig[ack.call] = sig[running[s]]
        BY <2>1, <2>3 DEF Ack, Genuine, Matches
      <3>2. CASE ack.fate = "accepted"
        BY <2>1, <2>2, <2>3, <3>1, <3>2, ReturnAnswers
      <3>3. CASE ack.fate = "rejected"
        BY <2>1, <2>2, <2>3, <3>1, <3>3, ReturnAnswers
      <3>4. QED BY <3>1, <3>2, <3>3 DEF Fates
    <2>4. CASE UNCHANGED outcome
      BY <2>2, <2>4
    <2>5. QED BY <1>3, <2>3, <2>4 DEF TakeAck
  <1>4. ASSUME NEW s \in Senders, Expire(s)
        PROVE  C!Next \/ UNCHANGED <<sig, outcome, effects, fate>>
    <2>1. running[s] # NoCall /\ UNCHANGED <<sig, effects, fate>>
      BY <1>4 DEF Expire, fmuVars, Inv, RunInv
    <2>2. CASE Return(s, "Timeout")
      BY <2>1, <2>2, ReturnAnswers
    <2>3. QED BY <1>4, <2>1, <2>2 DEF Expire
  <1>5. ASSUME NEW m \in link, NEW f \in Fates, FmuActs(m, f)
        PROVE  C!Next
    <2>1. m.call \in Calls /\ m.try \in 1 .. MaxTries /\ m.try \notin effects[m.call]
          /\ m.call <= issued
      BY DEF Inv, TypeOK, Message, LinkInv
    <2>2. outcome[m.call] # "unsent"
      BY <2>1 DEF Inv, IssuedInv
    <2>3. C!Act(m.call, m.try, f)
      BY <1>5, <2>1, <2>2 DEF FmuActs, callVars, C!Act
    <2>4. f \in C!Fates
      BY DEF Fates, C!Fates
    <2>5. QED
      BY <2>1, <2>3, <2>4 DEF C!Next
  <1>6. ASSUME NEW m \in link, CommandLost(m)
        PROVE  UNCHANGED <<sig, outcome, effects, fate>>
    BY <1>6 DEF CommandLost, callVars, fmuVars
  <1>7. ASSUME NEW receivers \in SUBSET Senders, AckArrives(receivers)
        PROVE  UNCHANGED <<sig, outcome, effects, fate>>
    BY <1>7 DEF AckArrives, callVars, fmuVars
  <1>8. CASE UNCHANGED vars
    BY <1>8 DEF vars, callVars, fmuVars
  <1>9. QED
    BY <1>1, <1>2, <1>3, <1>4, <1>5, <1>6, <1>7, <1>8 DEF Next, Sender, Network

\* sendCommandSync() is what its callers are promised: it returns once, the FMU acts
\* on a call at most MaxTries times, and an answer is backed by what it did.
THEOREM SenderImplementsCommand == Spec => ImplementsCommand
  <1>1. QED
    BY Initially, StepInv, InitiallyCommand, StepCommand, PTL DEF Spec, ImplementsCommand, C!Spec
=============================================================================
