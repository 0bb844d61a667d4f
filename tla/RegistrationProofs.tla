-------------------------- MODULE RegistrationProofs --------------------------
(***************************************************************************)
(* A node registers all its parts or gives back what it got, each with a slot *)
(* of its own and only with an FMU that matches as far as it is compared, for *)
(* every number of parts, topics, slots and tries, every middleware and FMU,   *)
(* whatever is lost, late or meant for another process, and whenever the      *)
(* context is shut down.                                                    *)
(***************************************************************************)
EXTENDS Registration, TLAPS

\* A reply of success tells of a slot the FMU granted, with a matching API version.
Valid(reply) ==
  reply.answer = "success" => system.api /\ reply.slot \in granted[reply.request]

\* A slot is granted once, and what is registered is a slot that was granted.
SlotInv ==
  /\ \A r \in Requests : \A s \in granted[r] : holder[s] = r
  /\ \A reply \in replies : Valid(reply)
  /\ \A p \in Parts : inbox[p] # NoMsg => Valid(inbox[p])
  /\ \A p \in Parts : registered[p] => ids[p] \in granted[p]

\* What the comparison finds out when it asks the FMU.
Match == system.protocol /\ \A n \in Numbers : system.format[n] = "same"

\* The definitions compared so far, and what their comparison is needed for.
CompatInv ==
  /\ ~mismatch => \A n \in Numbers : n < topic => system.format[n] = "same"
  /\ topic > 1 => system.protocol
  /\ compatible = "yes" /\ system.rmw = "dds" => Match
  /\ stage \in {"register", "requested"} => part \in system.skipping \/ compatible = "yes"
  /\ CompatibleOnly

\* A request of part r, or a reply to it, is on its way or in a queue.
Out(r) ==
  \/ r \in requests
  \/ \E reply \in replies : reply.request = r
  \/ \E p \in Parts : inbox[p] # NoMsg /\ inbox[p].request = r

\* A part has asked when it was its turn, and after the shutdown none asks any more:
\* a reply that still comes is for the part that waited then.
AskInv ==
  /\ \A r \in Parts : Out(r) =>
       r < part \/ (r = part /\ stage \notin {"start", "waitFmu", "compare", "formatSent"})
  /\ ~context => \A r \in Parts : Out(r) =>
       r < part \/ r \in asking \/ stage \notin Starting

\* The parts before the one that registers are done, the overrides wait or are
\* published, and no registration is forgotten.
DoneInv ==
  /\ \A p \in Parts : p < part \/ stage = "spin" => ids[p] # NoSlot /\ isSetup[p]
  /\ context => \A p \in Parts : pending[p] \/ published[p] = current[p]
  /\ \A p \in Parts : isSetup[p] => ~pending[p]

\* What was got is registered until it is given back, in the shutdown if not before;
\* only the part that asked in the shutdown is registered too late.
BackInv ==
  /\ stage # "ending" => alive = Parts
  /\ context => \A p \in Parts : ids[p] # NoSlot => registered[p] \/ p \in unregistered
  /\ context => \A p \in Parts \ alive : ~registered[p]
  /\ ~context /\ PreShutdown =>
       \A p \in Parts : ids[p] # NoSlot => p \in unregistered \/ p \in asking

Inv == TypeOK /\ SlotInv /\ CompatInv /\ AskInv /\ DoneInv /\ BackInv

-----------------------------------------------------------------------------
LEMMA Initially == Init => Inv
  <1> SUFFICES ASSUME Init PROVE Inv
    OBVIOUS
  <1>1. Len(Topics) \in Nat /\ 1 \in Parts
    BY RegistrationAssumption DEF Parts
  <1>2. TypeOK
    <2>1. pending \in [Parts -> BOOLEAN] /\ current \in [Parts -> Values]
      BY DEF Init, Values
    <2>2. published \in [Parts -> Values] /\ registered \in [Parts -> BOOLEAN]
          /\ isSetup \in [Parts -> BOOLEAN]
      BY DEF Init, Values
    <2>3. fmuUp \in BOOLEAN /\ system \in Systems /\ mismatch \in BOOLEAN
          /\ alive \subseteq Parts /\ context \in BOOLEAN /\ asking \subseteq Parts
      BY DEF Init
    <2>4. stage \in Stages /\ part \in Parts /\ topic \in 1 .. Len(Topics) + 1
          /\ tries \in 0 .. (IF stage \in {"compare", "formatSent"} THEN FormatTries ELSE RequestTries)
      BY <1>1, RegistrationAssumption DEF Init, Stages, Starting
    <2>5. compatible \in {"unset", "yes", "no"} /\ response \in Numbers \cup {NoMsg}
          /\ inbox \in [Parts -> Reply \cup {NoMsg}] /\ ids \in [Parts -> Slots \cup {NoSlot}]
      BY DEF Init
    <2>6. unregistered \subseteq Parts /\ requests \subseteq Requests /\ replies \subseteq Reply
          /\ holder \in [Slots -> Requests \cup {None}] /\ granted \in [Requests -> SUBSET Slots]
      BY DEF Init
    <2>7. QED
      BY <2>1, <2>2, <2>3, <2>4, <2>5, <2>6, Zenon DEF TypeOK
  <1>3. SlotInv /\ CompatInv /\ AskInv /\ BackInv
    BY <1>1 DEF Init, SlotInv, CompatInv, CompatibleOnly, Numbers, AskInv, Out, BackInv
  <1>4. DoneInv
    <2>1. \A p \in Parts : ~(p < part) /\ ids[p] = NoSlot /\ stage = "start"
      BY <1>1 DEF Init, Parts
    <2>2. \A p \in Parts : ~isSetup[p] /\ (pending[p] \/ published[p] = current[p])
      <3> SUFFICES ASSUME NEW p \in Parts
                   PROVE  ~isSetup[p] /\ (pending[p] \/ published[p] = current[p])
        OBVIOUS
      <3>1. pending[p] <=> p \in EarlyOverrides
        BY Zenon DEF Init
      <3>2. ~isSetup[p] /\ (p \notin EarlyOverrides => published[p] = current[p])
        BY DEF Init
      <3>3. QED BY <3>1, <3>2
    <2>3. QED
      BY <2>1, <2>2 DEF DoneInv
  <1>5. QED
    BY <1>2, <1>3, <1>4 DEF Inv

\* What a shutdown and the destruction of a part do to the registrations.
LEMMA GivesBack ==
  ASSUME TypeOK, Shutdown \/ \E p \in Parts : Destroy(p)
  PROVE  /\ registered' \in [Parts -> BOOLEAN]
         /\ \A q \in Parts : registered'[q] => registered[q]
         /\ unregistered' \subseteq Parts /\ unregistered \subseteq unregistered'
         /\ context => \A q \in Parts : registered[q] => registered'[q] \/ q \in unregistered'
         /\ alive' \subseteq alive /\ context' \in BOOLEAN /\ asking' \subseteq Parts
         /\ UNCHANGED <<startVars, compatVars, inbox, ids, overrideVars, linkVars, fmuVars>>
  <1> USE DEF TypeOK
  <1> DEFINE Frame == UNCHANGED <<startVars, compatVars, inbox, ids, overrideVars, linkVars, fmuVars>>
  <1>1. ASSUME NEW back \in SUBSET Parts, DoUnregister(back)
        PROVE  /\ registered' \in [Parts -> BOOLEAN]
               /\ \A q \in Parts : registered'[q] => registered[q]
               /\ unregistered' \subseteq Parts /\ unregistered \subseteq unregistered'
               /\ context => \A q \in Parts : registered[q] => registered'[q] \/ q \in unregistered'
    <2>1. registered' = [p \in Parts |-> IF p \in back THEN FALSE ELSE registered[p]]
      BY <1>1 DEF DoUnregister
    <2>2. registered' \in [Parts -> BOOLEAN]
      BY <2>1
    <2>3. \A q \in Parts : (registered'[q] => registered[q]) /\ (q \notin back => registered'[q] = registered[q])
      BY <2>1
    <2>4. unregistered' = IF context THEN unregistered \cup {p \in back : registered[p]} ELSE unregistered
      BY <1>1 DEF DoUnregister
    <2>5. QED
      BY <2>2, <2>3, <2>4
  <1>2. CASE Shutdown
    <2>1. Frame /\ alive' = alive /\ context' = FALSE /\ asking' \subseteq Parts
      BY <1>2 DEF Shutdown
    <2>2. CASE PreShutdown
      BY <1>1, <1>2, <2>1, <2>2 DEF Shutdown
    <2>3. CASE ~PreShutdown
      BY <1>2, <2>1, <2>3 DEF Shutdown
    <2>4. QED BY <2>2, <2>3
  <1>3. ASSUME NEW p \in Parts, Destroy(p)
        PROVE  /\ Frame /\ alive' \subseteq alive /\ UNCHANGED <<context, asking>>
               /\ DoUnregister({p}) \/ (~context /\ UNCHANGED <<registered, unregistered>>)
    BY <1>3 DEF Destroy
  <1>4. ASSUME NEW p \in Parts, Destroy(p)
        PROVE  /\ registered' \in [Parts -> BOOLEAN]
               /\ \A q \in Parts : registered'[q] => registered[q]
               /\ unregistered' \subseteq Parts /\ unregistered \subseteq unregistered'
               /\ context => \A q \in Parts : registered[q] => registered'[q] \/ q \in unregistered'
    <2>1. CASE DoUnregister({p})
      BY <1>1, <2>1
    <2>2. CASE UNCHANGED <<registered, unregistered>>
      BY <2>2
    <2>3. QED BY <1>3, <1>4, <2>1, <2>2
  <1>5. QED
    BY <1>2, <1>3, <1>4

\* How the wait for the FMU ends.
LEMMA WaitEnds ==
  ASSUME TypeOK, WaitForFMU
  PROVE  /\ UNCHANGED part /\ tries' = 0 /\ stage' \in {"compare", "register", "failed"}
         /\ compatible # "yes" => stage' # "register"
  <1>1. compatible \in {"unset", "yes", "no"}
    BY DEF TypeOK
  <1>2. CASE compatible = "unset"
    BY <1>2 DEF WaitForFMU, GoTo, Fail
  <1>3. CASE compatible = "yes"
    BY <1>3 DEF WaitForFMU, GoTo, Fail
  <1>4. CASE compatible = "no"
    BY <1>4 DEF WaitForFMU, GoTo, Fail
  <1>5. QED BY <1>1, <1>2, <1>3, <1>4

LEMMA TypeKept == TypeOK /\ [Next]_vars => TypeOK'
  <1> SUFFICES ASSUME TypeOK, [Next]_vars PROVE TypeOK'
    OBVIOUS
  <1> USE DEF TypeOK
  <1>1. Len(Topics) \in Nat /\  FormatTries \in Nat /\ RequestTries \in Nat
    BY RegistrationAssumption
  <1>2. CASE DoRegister \/ CompareGraph
    BY <1>1, <1>2 DEF CompareGraph, Compared, Fail, DoRegister, GoTo, Stages, Starting, compatVars, regVars, endVars, overrideVars, linkVars, fmuVars
  <1>3. CASE WaitForFMU
    <2>1. tries' = 0 /\ UNCHANGED part /\ stage' \in {"compare", "register", "failed"}
      BY <1>3, WaitEnds
    <2>2. UNCHANGED <<compatVars, regVars, endVars, overrideVars, linkVars, fmuVars>>
      BY <1>3 DEF WaitForFMU
    <2>3. QED
      BY <1>1, <2>1, <2>2 DEF Stages, Starting, compatVars, regVars, endVars, overrideVars, linkVars, fmuVars
  <1>4. CASE RequestFormat
    BY <1>1, <1>4 DEF RequestFormat, Compared, Fail, GoTo, Stages, Starting, regVars, endVars, overrideVars, linkVars, fmuVars
  <1>5. CASE TakeResponse
    <2>1. response' = NoMsg /\ UNCHANGED <<regVars, endVars, overrideVars, linkVars, fmuVars>>
      BY <1>5 DEF TakeResponse
    <2>2. CASE Compared(FALSE) /\ UNCHANGED <<topic, mismatch>>
      BY <1>1, <2>1, <2>2 DEF Compared, Fail, GoTo, Stages, Starting,
         regVars, endVars, overrideVars, linkVars, fmuVars
    <2>3. CASE UNCHANGED <<startVars, topic, mismatch, compatible>>
      BY <2>1, <2>3 DEF startVars, regVars, endVars, overrideVars, linkVars, fmuVars
    <2>4. CASE /\ ResponseMatches(response) /\ response # NoMsg
               /\ mismatch' = (mismatch \/ system.format[response] # "same")
               /\ topic' = topic + 1 /\ GoTo("compare") /\ UNCHANGED compatible
      <3>1. topic' \in 1 .. Len(Topics) + 1
        BY <1>1, <2>4 DEF ResponseMatches, Numbers
      <3>2. mismatch' \in BOOLEAN
        BY <2>4, Zenon
      <3>3. QED
        BY <1>1, <2>1, <2>4, <3>1, <3>2 DEF GoTo, Stages, Starting,
           regVars, endVars, overrideVars, linkVars, fmuVars
    <2>5. QED BY <1>5, <2>2, <2>3, <2>4 DEF TakeResponse
  <1>6. CASE FormatTimeout
    BY <1>1, <1>6 DEF FormatTimeout, Stages, Starting, compatVars, regVars, endVars, overrideVars, linkVars, fmuVars
  <1>7. CASE PublishRequest
    BY <1>1, <1>7 DEF PublishRequest, Fail, GoTo, Stages, Starting, Requests, compatVars, regVars, endVars, overrideVars, fmuVars
  <1>8. CASE TakeReply
    <2> DEFINE reply == inbox[part]
    <2>1. /\ reply \in Reply
          /\ inbox' = [inbox EXCEPT ![part] = NoMsg]
          /\ UNCHANGED <<compatVars, unregistered, endVars, linkVars, fmuVars>>
      BY <1>8 DEF TakeReply
    <2>2. CASE UNCHANGED <<startVars, registered, ids, overrideVars>>
      BY <2>1, <2>2 DEF startVars, compatVars, endVars, overrideVars, linkVars, fmuVars
    <2>3. CASE Fail /\ UNCHANGED <<registered, ids, overrideVars>>
      BY <1>1, <2>1, <2>3 DEF Fail, GoTo, Stages, Starting, compatVars, endVars, overrideVars, linkVars, fmuVars
    <2>4. CASE /\ registered' = [registered EXCEPT ![part] = TRUE]
               /\ ids' = [ids EXCEPT ![part] = reply.slot]
               /\ Registered
      <3>1. registered' \in [Parts -> BOOLEAN] /\ ids' \in [Parts -> Slots \cup {NoSlot}]
        BY <2>1, <2>4 DEF Reply
      <3>2. isSetup' \in [Parts -> BOOLEAN] /\ pending' \in [Parts -> BOOLEAN]
            /\ published' \in [Parts -> Values] /\ current' = current
        BY <2>4 DEF Registered, SetupOverrides
      <3>3. tries' = 0 /\ stage' \in {"failed", "spin", "start"}
        BY <2>4 DEF Registered
      <3>4. part' \in Parts
        BY <2>4, RegistrationAssumption DEF Registered, Parts
      <3>5. QED
        <4>1. stage' \in Stages /\ tries' \in 0 .. (IF stage' \in {"compare", "formatSent"}
                                                   THEN FormatTries ELSE RequestTries)
          BY <1>1, <3>3 DEF Stages, Starting
        <4>2. UNCHANGED <<compatible, topic, mismatch, response, unregistered, requests, replies,
                          holder, granted, fmuUp, system, alive, context, asking>>
          BY <2>1 DEF compatVars, linkVars, fmuVars, endVars
        <4>3. inbox' \in [Parts -> Reply \cup {NoMsg}]
          BY <2>1
        <4>4. current' \in [Parts -> Values]
          BY <3>2
        <4>5. QED
          BY <3>1, <3>2, <3>4, <4>1, <4>2, <4>3, <4>4, Zenon
    <2>5. QED
      BY <1>8, <2>2, <2>3, <2>4 DEF TakeReply
  <1>9. CASE RequestTimeout
    BY <1>1, <1>9 DEF RequestTimeout, Stages, Starting, compatVars, regVars, endVars, overrideVars, linkVars, fmuVars
  <1>10. CASE Shutdown \/ \E p \in Parts : Destroy(p)
    BY <1>1, <1>10, GivesBack DEF startVars, compatVars, overrideVars, linkVars, fmuVars
  <1>11. ASSUME NEW p \in Parts, NEW value \in Values, SetOverride(p, value) PROVE TypeOK'
    BY <1>1, <1>11 DEF SetOverride, startVars, compatVars, regVars, endVars, linkVars, fmuVars
  <1>12. CASE Leave \/ Die
    BY <1>1, <1>12 DEF Leave, Die, GoTo, Stages, Starting, compatVars, regVars, endVars,
       overrideVars, linkVars, fmuVars
  <1> USE DEF Environment, startVars, overrideVars, endVars
  <1>13. CASE FmuBoots
    BY <1>13 DEF FmuBoots, linkVars
  <1>14. ASSUME NEW n \in Numbers, ResponseArrives(n) PROVE TypeOK'
    BY <1>14 DEF ResponseArrives, linkVars, fmuVars
  <1>15. ASSUME NEW r \in Requests, RequestLost(r) PROVE TypeOK'
    BY <1>15 DEF RequestLost, fmuVars
  <1>16. ASSUME NEW r \in Requests, NEW answer \in Answers, NEW slot \in Slots \cup {NoSlot},
                FmuAnswers(r, answer, slot)
         PROVE  TypeOK'
    <2>1. [request |-> r, answer |-> answer, slot |-> slot] \in Reply
      BY DEF Reply
    <2>2. holder' \in [Slots -> Requests \cup {None}]
      BY <1>16 DEF FmuAnswers
    <2>3. granted' \in [Requests -> SUBSET Slots]
      BY <1>16 DEF FmuAnswers
    <2>4. QED
      BY <1>16, <2>1, <2>2, <2>3 DEF FmuAnswers
  <1>17. CASE OtherRequests
    BY <1>17 DEF OtherRequests, Requests, fmuVars
  <1>18. ASSUME NEW reply \in replies, NEW receivers \in SUBSET Parts, ReplyArrives(reply, receivers)
         PROVE  TypeOK'
    BY <1>18 DEF ReplyArrives, fmuVars
  <1>19. CASE UNCHANGED vars
    BY <1>19 DEF vars, compatVars, regVars, endVars, linkVars, fmuVars
  <1>20. QED
    BY <1>2, <1>3, <1>4, <1>5, <1>6, <1>7, <1>8, <1>9, <1>10, <1>11, <1>12, <1>13, <1>14,
       <1>15, <1>16, <1>17, <1>18, <1>19 DEF Next, Startup, Running, Ending, External

-----------------------------------------------------------------------------
(* Slots.                                                                   *)

\* Steps of this process leave the FMU and what is on the way alone, and take or
\* give back what was granted.
LEMMA SlotsKept ==
  ASSUME SlotInv, UNCHANGED <<granted, holder, system, replies>>,
         \A p \in Parts : inbox'[p] = inbox[p] \/ inbox'[p] = NoMsg,
         \A p \in Parts : registered'[p] => ids'[p] \in granted[p]
  PROVE  SlotInv'
  BY DEF SlotInv, Valid

LEMMA SlotStep == Inv /\ [Next]_vars => SlotInv'
  <1> SUFFICES ASSUME Inv, [Next]_vars PROVE SlotInv'
    OBVIOUS
  <1> USE DEF Inv
  <1> DEFINE Quiet == UNCHANGED <<granted, holder, system, replies, inbox, registered, ids>>
  <1>1. ASSUME Quiet PROVE SlotInv'
    BY <1>1, SlotsKept DEF SlotInv
  <1>2. CASE DoRegister \/ WaitForFMU \/ CompareGraph \/ RequestFormat \/ FormatTimeout
             \/ PublishRequest \/ RequestTimeout \/ Leave \/ Die
    <2>1. Quiet
      BY <1>2 DEF DoRegister, WaitForFMU, CompareGraph, RequestFormat, FormatTimeout,
         PublishRequest, RequestTimeout, Leave, Die, regVars, linkVars, fmuVars
    <2>2. QED BY <1>1, <2>1
  <1>3. CASE TakeResponse
    BY <1>1, <1>3 DEF TakeResponse, regVars, linkVars, fmuVars
  <1>4. CASE TakeReply
    <2> DEFINE reply == inbox[part]
    <2>1. /\ inbox' = [inbox EXCEPT ![part] = NoMsg]
          /\ UNCHANGED <<granted, holder, system, replies>>
          /\ \/ UNCHANGED <<registered, ids>>
             \/ /\ reply.request = part /\ reply.answer = "success"
                /\ registered' = [registered EXCEPT ![part] = TRUE]
                /\ ids' = [ids EXCEPT ![part] = reply.slot]
      BY <1>4 DEF TakeReply, ReplyMatches, linkVars, fmuVars
    <2>2. reply # NoMsg /\ part \in Parts
      BY <1>4 DEF TakeReply, TypeOK
    <2>3. Valid(reply)
      BY <2>2 DEF SlotInv
    <2>4. \A p \in Parts : inbox'[p] = inbox[p] \/ inbox'[p] = NoMsg
      BY <2>1 DEF TypeOK
    <2>5. \A p \in Parts : registered'[p] => ids'[p] \in granted[p]
      BY <2>1, <2>3 DEF Valid, SlotInv, TypeOK
    <2>6. QED BY <2>1, <2>4, <2>5, SlotsKept
  <1>5. CASE Shutdown \/ \E p \in Parts : Destroy(p)
    <2>1. \A q \in Parts : registered'[q] => registered[q]
      BY <1>5, GivesBack
    <2>2. UNCHANGED <<granted, holder, system, replies, inbox, ids>>
      BY <1>5, GivesBack DEF linkVars, fmuVars
    <2>3. QED BY <2>1, <2>2, SlotsKept DEF SlotInv
  <1>6. ASSUME NEW p \in Parts, NEW value \in Values, SetOverride(p, value) PROVE SlotInv'
    BY <1>1, <1>6 DEF SetOverride, regVars, linkVars, fmuVars
  <1>7. CASE FmuBoots
    BY <1>1, <1>7 DEF FmuBoots, Environment, linkVars
  <1>8. ASSUME NEW n \in Numbers, ResponseArrives(n) PROVE SlotInv'
    BY <1>1, <1>8 DEF ResponseArrives, Environment, linkVars, fmuVars
  <1>9. ASSUME NEW r \in Requests, RequestLost(r) PROVE SlotInv'
    BY <1>1, <1>9 DEF RequestLost, Environment, fmuVars
  <1>10. CASE OtherRequests
    BY <1>1, <1>10 DEF OtherRequests, Environment, fmuVars
  <1>11. ASSUME NEW reply \in replies, NEW receivers \in SUBSET Parts, ReplyArrives(reply, receivers)
         PROVE  SlotInv'
    <2>1. /\ replies' = replies \ {reply}
          /\ \A p \in Parts : inbox'[p] = inbox[p] \/ inbox'[p] = reply
          /\ UNCHANGED <<granted, holder, system, registered, ids>>
      BY <1>11 DEF ReplyArrives, Environment, fmuVars
    <2>2. QED BY <2>1 DEF SlotInv, Valid
  <1>12. ASSUME NEW r \in Requests, NEW answer \in Answers, NEW slot \in Slots \cup {NoSlot},
                FmuAnswers(r, answer, slot)
         PROVE  SlotInv'
    <2> DEFINE new == [request |-> r, answer |-> answer, slot |-> slot]
    <2>1. /\ replies' = replies \cup {new}
          /\ UNCHANGED <<inbox, system, registered, ids>>
          /\ answer = "success" => system.api
          /\ answer # "failure" => slot \in Slots /\ holder[slot] \in {None, r}
          /\ answer = "failure" => slot = NoSlot
      BY <1>12 DEF FmuAnswers, Environment
    <2>2. CASE slot = NoSlot
      <3>1. UNCHANGED <<holder, granted>>
        BY <1>12, <2>2 DEF FmuAnswers
      <3>2. answer = "failure"
        BY <2>1, <2>2, RegistrationAssumption
      <3>3. Valid(new)'
        BY <3>2 DEF Valid
      <3>4. \A reply \in replies : Valid(reply)'
        BY <2>1, <3>1 DEF SlotInv, Valid
      <3>5. \A p \in Parts : inbox[p] # NoMsg => Valid(inbox[p])'
        BY <2>1, <3>1 DEF SlotInv, Valid
      <3> HIDE DEF new
      <3>6. QED BY <2>1, <3>1, <3>3, <3>4, <3>5 DEF SlotInv
    <2>3. CASE slot # NoSlot
      <3>1. /\ slot \in Slots /\ holder[slot] \in {None, r}
            /\ holder' = [holder EXCEPT ![slot] = r]
            /\ granted' = [granted EXCEPT ![r] = @ \cup {slot}]
        BY <1>12, <2>1, <2>3 DEF FmuAnswers
      <3>2. \A q \in Requests : granted[q] \subseteq granted'[q]
        BY <3>1 DEF TypeOK
      <3>3. \A q \in Requests : \A s \in granted'[q] :
              (s \in granted[q] /\ s \in Slots) \/ (q = r /\ s = slot)
        BY <3>1 DEF TypeOK
      <3>4. \A q \in Requests : q # r => slot \notin granted[q]
        BY <3>1, RegistrationAssumption DEF SlotInv
      <3>5. \A q \in Requests : \A s \in granted'[q] : holder'[s] = q
        BY <3>1, <3>3, <3>4 DEF SlotInv, TypeOK
      <3>6. \A reply \in Reply : Valid(reply) => Valid(reply)'
        BY <2>1, <3>2 DEF Valid, Reply
      <3>7. Valid(new)'
        BY <2>1, <3>1 DEF Valid, TypeOK
      <3>8. \A reply \in replies' : Valid(reply)'
        BY <2>1, <3>6, <3>7 DEF SlotInv, TypeOK
      <3>9. \A p \in Parts : inbox[p] # NoMsg => inbox[p] \in Reply
        BY DEF TypeOK
      <3>10. \A p \in Parts : inbox[p] # NoMsg => Valid(inbox[p])'
        BY <2>1, <3>2, <3>9 DEF Valid, Reply, SlotInv
      <3>11. \A p \in Parts : registered[p] => ids[p] \in granted'[p]
        BY <3>2 DEF SlotInv, Requests
      <3> HIDE DEF new
      <3>12. QED BY <2>1, <3>5, <3>8, <3>10, <3>11 DEF SlotInv
    <2>4. QED BY <2>2, <2>3
  <1>13. CASE UNCHANGED vars
    BY <1>1, <1>13 DEF vars, regVars, linkVars, fmuVars
  <1>14. QED
    BY <1>2, <1>3, <1>4, <1>5, <1>6, <1>7, <1>8, <1>9, <1>10, <1>11, <1>12, <1>13
       DEF Next, Startup, Running, Ending, External

-----------------------------------------------------------------------------
(* Definitions.                                                             *)

LEMMA CompatStep == Inv /\ [Next]_vars => CompatInv'
  <1> SUFFICES ASSUME Inv, [Next]_vars PROVE CompatInv'
    OBVIOUS
  <1> USE DEF Inv
  <1> DEFINE Same == \A n \in Numbers : system.format[n] = "same"
  <1>1. topic \in Nat /\ Len(Topics) \in Nat
    BY RegistrationAssumption DEF TypeOK
  <1>2. ASSUME UNCHANGED <<compatible, topic, mismatch, ids, system>>,
               stage' \in {"register", "requested"} =>
                 part' \in system.skipping \/ (part' = part /\ stage \in {"register", "requested"})
        PROVE  CompatInv'
    <2>1. CompatibleOnly' /\ (Match' <=> Match)
      BY <1>2 DEF CompatInv, CompatibleOnly, Match
    <2>2. QED
      BY <1>2, <2>1 DEF CompatInv
  <1>3. CASE DoRegister \/ FormatTimeout \/ PublishRequest \/ RequestTimeout \/ Leave \/ Die
    <2>1. UNCHANGED <<compatible, topic, mismatch, ids, system>>
      BY <1>3 DEF DoRegister, FormatTimeout, PublishRequest, RequestTimeout, Leave, Die,
         compatVars, regVars, fmuVars
    <2>2. stage' \in {"register", "requested"} =>
            part' \in system.skipping \/ (part' = part /\ stage \in {"register", "requested"})
      BY <1>3 DEF DoRegister, FormatTimeout, PublishRequest, RequestTimeout, Leave, Die, GoTo, Fail
    <2>3. QED BY <1>2, <2>1, <2>2
  <1>4. CASE WaitForFMU
    <2>1. UNCHANGED <<compatible, topic, mismatch, ids, system>>
      BY <1>4 DEF WaitForFMU, compatVars, regVars, fmuVars
    <2>2. compatible # "yes" => stage' \in {"compare", "failed"}
      BY <1>4, WaitEnds
    <2>3. stage' # "requested"
      BY <1>4, WaitEnds
    <2>4. CompatibleOnly' /\ (Match' <=> Match)
      BY <2>1 DEF CompatInv, CompatibleOnly, Match
    <2>5. QED BY <2>1, <2>2, <2>3, <2>4 DEF CompatInv
  <1>5. ASSUME NEW result \in BOOLEAN, Compared(result), UNCHANGED <<topic, mismatch, ids, system>>,
               result /\ system.rmw = "dds" => Match
        PROVE  CompatInv'
    <2>1. CompatibleOnly' /\ (Match' <=> Match)
      BY <1>5 DEF CompatInv, CompatibleOnly, Match
    <2>2. compatible' = (IF result THEN "yes" ELSE "no") /\ part' = part
          /\ (~result => stage' = "failed")
      BY <1>5 DEF Compared, Fail, GoTo
    <2>3. QED
      BY <1>5, <2>1, <2>2 DEF CompatInv
  <1>6. CASE CompareGraph
    <2>1. UNCHANGED <<topic, mismatch, ids, system>> /\ system.rmw # "dds"
          /\ \E result \in BOOLEAN : Compared(result)
      BY <1>6 DEF CompareGraph, regVars, fmuVars
    <2>2. QED BY <1>5, <2>1
  <1>7. CASE RequestFormat
    <2>1. UNCHANGED <<topic, mismatch, ids, system>>
      BY <1>7 DEF RequestFormat, regVars, fmuVars
    <2>2. CASE topic > Len(Topics)
      <3>1. ~mismatch => Match
        <4>1. Len(Topics) > 0
          BY RegistrationAssumption
        <4>2. system.protocol /\ (~mismatch => Same)
          BY <1>1, <2>2, <4>1 DEF CompatInv, Numbers
        <4>3. QED BY <4>2 DEF Match
      <3>2. Compared(~mismatch) /\ mismatch \in BOOLEAN
        BY <1>7, <2>2 DEF RequestFormat, TypeOK
      <3>3. QED BY <1>5, <2>1, <3>1, <3>2
    <2>3. CASE ~(topic > Len(Topics)) /\ tries = FormatTries
      BY <1>5, <1>7, <2>1, <2>3 DEF RequestFormat
    <2>4. CASE ~(topic > Len(Topics)) /\ tries # FormatTries
      <3>1. stage' = "formatSent" /\ UNCHANGED <<part, compatible>>
        BY <1>7, <2>4 DEF RequestFormat
      <3>2. QED BY <1>2, <2>1, <3>1
    <2>5. QED BY <2>2, <2>3, <2>4
  <1>8. CASE TakeResponse
    <2>1. UNCHANGED <<ids, system>>
      BY <1>8 DEF TakeResponse, regVars, fmuVars
    <2>2. CASE Compared(FALSE) /\ UNCHANGED <<topic, mismatch>>
      BY <1>5, <2>1, <2>2
    <2>3. CASE UNCHANGED <<startVars, topic, mismatch, compatible>>
      BY <1>2, <2>1, <2>3 DEF startVars
    <2>4. CASE /\ system.protocol /\ ResponseMatches(response)
               /\ mismatch' = (mismatch \/ system.format[response] # "same")
               /\ topic' = topic + 1
               /\ GoTo("compare")
               /\ UNCHANGED compatible
      <3>1. response = topic
        BY <2>4 DEF ResponseMatches
      <3>2. ~mismatch' => ~mismatch /\ system.format[topic] = "same"
        BY <2>4, <3>1
      <3>3. \A n \in Numbers : n < topic' => n < topic \/ n = topic
        BY <1>1, <2>4 DEF Numbers
      <3>4. ~mismatch' => \A n \in Numbers : n < topic' => system.format[n] = "same"
        BY <3>2, <3>3 DEF CompatInv
      <3>5. CompatibleOnly' /\ (Match' <=> Match)
        BY <2>1 DEF CompatInv, CompatibleOnly, Match
      <3>6. QED BY <2>1, <2>4, <3>4, <3>5 DEF CompatInv, GoTo
    <2>5. QED BY <1>8, <2>2, <2>3, <2>4 DEF TakeResponse
  <1>9. CASE TakeReply
    <2> DEFINE reply == inbox[part]
    <2>1. UNCHANGED <<compatible, topic, mismatch, system>> /\ stage = "requested"
          /\ part \in Parts
      BY <1>9 DEF TakeReply, compatVars, fmuVars, TypeOK
    <2>2. CASE UNCHANGED <<startVars, registered, ids, overrideVars>>
      BY <1>2, <2>1, <2>2 DEF startVars
    <2>3. CASE Fail /\ UNCHANGED <<registered, ids, overrideVars>>
      BY <1>2, <2>1, <2>3 DEF Fail, GoTo
    <2>4. CASE /\ ReplyMatches(reply) /\ reply.answer = "success"
               /\ ids' = [ids EXCEPT ![part] = reply.slot]
               /\ Registered
      <3>1. Valid(reply)
        BY <1>9, <2>1 DEF TakeReply, SlotInv
      <3>2. system.api /\ (system.rmw = "dds" /\ part \notin system.skipping => Match)
        BY <2>1, <2>4, <3>1 DEF CompatInv, Valid
      <3>3. \A p \in Parts : ids'[p] # NoSlot => p = part \/ ids[p] # NoSlot
        BY <2>1, <2>4 DEF TypeOK
      <3>4. CompatibleOnly'
        <4>1. SUFFICES ASSUME NEW p \in Parts, ids'[p] # NoSlot
                       PROVE  /\ system.api
                              /\ system.rmw = "dds" /\ p \notin system.skipping => Match
          BY <2>1 DEF CompatibleOnly, Match
        <4>2. CASE p = part
          BY <3>2, <4>2
        <4>3. CASE ids[p] # NoSlot
          BY <4>3 DEF CompatInv, CompatibleOnly, Match
        <4>4. QED BY <3>3, <4>1, <4>2, <4>3
      <3>5. stage' \notin {"register", "requested"}
        BY <2>4 DEF Registered
      <3>6. QED BY <2>1, <3>4, <3>5 DEF CompatInv, Match
    <2>5. QED BY <1>9, <2>2, <2>3, <2>4 DEF TakeReply
  <1>10. CASE Shutdown \/ \E p \in Parts : Destroy(p)
    BY <1>2, <1>10, GivesBack DEF startVars, compatVars, fmuVars
  <1>11. ASSUME NEW p \in Parts, NEW value \in Values, SetOverride(p, value) PROVE CompatInv'
    BY <1>2, <1>11 DEF SetOverride, startVars, compatVars, regVars, fmuVars
  <1>12. CASE External
    <2>1. UNCHANGED <<stage, part, compatible, topic, mismatch, ids, system>>
      BY <1>12 DEF External, FmuBoots, ResponseArrives, RequestLost, FmuAnswers, OtherRequests,
         ReplyArrives, Environment, startVars, fmuVars
    <2>2. QED BY <1>2, <2>1
  <1>13. CASE UNCHANGED vars
    BY <1>2, <1>13 DEF vars, startVars, compatVars, regVars, fmuVars
  <1>14. QED
    BY <1>3, <1>4, <1>6, <1>7, <1>8, <1>9, <1>10, <1>11, <1>12, <1>13
       DEF Next, Startup, Running, Ending

-----------------------------------------------------------------------------
(* Requests and replies after the shutdown.                                 *)

\* Steps that put nothing on the way.
LEMMA AskKept ==
  ASSUME AskInv, \A r \in Parts : Out(r)' => Out(r),
         part' = part \/ (part < part' /\ part \in Int /\ part' \in Int /\ Parts \subseteq Int),
         part' = part /\ stage' \in {"start", "waitFmu", "compare", "formatSent"} =>
           stage \in {"start", "waitFmu", "compare", "formatSent"},
         stage' \in Starting => stage \in Starting,
         UNCHANGED <<context, asking>>
  PROVE  AskInv'
  <1>1. ASSUME NEW r \in Parts, Out(r)'
        PROVE  r < part' \/ (r = part' /\ stage' \notin {"start", "waitFmu", "compare", "formatSent"})
    <2>1. r < part \/ (r = part /\ stage \notin {"start", "waitFmu", "compare", "formatSent"})
      BY <1>1 DEF AskInv
    <2>2. QED BY <2>1
  <1>2. ASSUME NEW r \in Parts, Out(r)', ~context'
        PROVE  r < part' \/ r \in asking' \/ stage' \notin Starting
    <2>1. r < part \/ r \in asking \/ stage \notin Starting
      BY <1>2 DEF AskInv
    <2>2. QED BY <2>1
  <1>3. QED
    BY <1>1, <1>2 DEF AskInv

LEMMA AskStep == Inv /\ [Next]_vars => AskInv'
  <1> SUFFICES ASSUME Inv, [Next]_vars PROVE AskInv'
    OBVIOUS
  <1> USE DEF Inv
  <1>1. ASSUME UNCHANGED <<requests, replies, inbox>>
        PROVE  \A r \in Parts : Out(r)' => Out(r)
    BY <1>1 DEF Out
  <1>2. CASE DoRegister \/ CompareGraph \/ FormatTimeout \/ RequestTimeout \/ Leave \/ Die
    <2>1. UNCHANGED <<requests, replies, inbox, part, context, asking>>
      BY <1>2 DEF DoRegister, CompareGraph, FormatTimeout, RequestTimeout, Leave, Die, GoTo, Fail,
         Compared, regVars, linkVars, endVars
    <2>2. stage' \in Starting => stage \in Starting
      BY <1>2 DEF DoRegister, CompareGraph, FormatTimeout, RequestTimeout, Leave, Die, GoTo, Fail,
         Compared, Starting
    <2>3. stage' \in {"start", "waitFmu", "compare", "formatSent"} =>
            stage \in {"start", "waitFmu", "compare", "formatSent"}
      BY <1>2 DEF DoRegister, CompareGraph, FormatTimeout, RequestTimeout, Leave, Die, GoTo, Fail,
         Compared
    <2>4. QED BY <1>1, <2>1, <2>2, <2>3, AskKept
  <1>3. CASE WaitForFMU \/ RequestFormat \/ TakeResponse
    <2>1. UNCHANGED <<requests, replies, inbox, context, asking>>
      BY <1>3 DEF WaitForFMU, RequestFormat, TakeResponse, regVars, linkVars, endVars
    <2>2. part' = part
      <3>1. CASE WaitForFMU
        BY <3>1, WaitEnds
      <3>2. CASE RequestFormat \/ TakeResponse
        BY <3>2 DEF RequestFormat, TakeResponse, Compared, GoTo, Fail, startVars
      <3>3. QED BY <1>3, <3>1, <3>2
    <2>3. stage \in {"waitFmu", "compare", "formatSent"}
      BY <1>3 DEF WaitForFMU, RequestFormat, TakeResponse
    <2>4. QED BY <1>1, <2>1, <2>2, <2>3, AskKept DEF Starting
  <1>4. CASE PublishRequest
    <2>1. UNCHANGED <<replies, inbox, context, asking, part>> /\ stage = "register"
          /\ stage' \in {"requested", "failed"}
      BY <1>4 DEF PublishRequest, Fail, GoTo, regVars, endVars
    <2>2. CASE requests' = requests
      BY <1>1, <2>1, <2>2, AskKept DEF Starting
    <2>3. CASE context /\ requests' = requests \cup {part}
      <3>1. \A r \in Parts : Out(r)' => Out(r) \/ r = part
        BY <2>1, <2>3 DEF Out
      <3>2. QED BY <2>1, <2>3, <3>1 DEF AskInv
    <2>4. QED BY <1>4, <2>2, <2>3 DEF PublishRequest
  <1>5. CASE TakeReply
    <2>1. /\ inbox' = [inbox EXCEPT ![part] = NoMsg] /\ stage = "requested"
          /\ UNCHANGED <<requests, replies, context, asking>>
      BY <1>5 DEF TakeReply, linkVars, endVars
    <2>2. \A r \in Parts : Out(r)' => Out(r)
      BY <2>1 DEF Out, TypeOK
    <2>3. \/ part' = part /\ stage' \in {"requested", "failed", "spin"}
          \/ part' = part + 1
      <3>1. CASE UNCHANGED startVars
        BY <2>1, <3>1 DEF startVars
      <3>2. CASE Fail
        BY <3>2 DEF Fail, GoTo
      <3>3. CASE Registered
        BY <3>3 DEF Registered
      <3>4. QED BY <1>5, <3>1, <3>2, <3>3 DEF TakeReply, startVars
    <2>4. part \in Int /\ Parts \subseteq Int
      BY DEF TypeOK, Parts
    <2>5. QED BY <2>1, <2>2, <2>3, <2>4, AskKept DEF Starting
  <1>6. CASE Shutdown
    <2>1. /\ UNCHANGED <<requests, replies, inbox, part, stage>>
          /\ asking' = IF stage \in {"register", "requested"} THEN {part} ELSE {}
      BY <1>6 DEF Shutdown, linkVars, startVars
    <2>2. \A r \in Parts : Out(r)' => Out(r)
      BY <1>1, <2>1
    <2>3. \A r \in Parts : Out(r)' => r < part \/ r \in asking' \/ stage \notin Starting
      BY <2>1, <2>2 DEF AskInv, Starting
    <2>4. QED BY <2>1, <2>2, <2>3 DEF AskInv
  <1>7. ASSUME NEW p \in Parts, Destroy(p) PROVE AskInv'
    BY <1>1, <1>7, AskKept DEF Destroy, linkVars, startVars
  <1>8. ASSUME NEW p \in Parts, NEW value \in Values, SetOverride(p, value) PROVE AskInv'
    BY <1>1, <1>8, AskKept DEF SetOverride, linkVars, startVars, regVars, endVars
  <1>9. CASE External
    <2>1. UNCHANGED <<stage, part, context, asking>>
      BY <1>9 DEF External, FmuBoots, ResponseArrives, RequestLost, FmuAnswers, OtherRequests,
         ReplyArrives, Environment, startVars, endVars
    <2>2. \A r \in Parts : Out(r)' => Out(r)
      <3>1. CASE FmuBoots \/ \E n \in Numbers : ResponseArrives(n)
        BY <1>1, <3>1 DEF FmuBoots, ResponseArrives, linkVars
      <3>2. ASSUME NEW r \in Requests, RequestLost(r) PROVE \A q \in Parts : Out(q)' => Out(q)
        BY <3>2 DEF RequestLost, Out
      <3>3. CASE OtherRequests
        BY <3>3, RegistrationAssumption DEF OtherRequests, Out
      <3>4. ASSUME NEW reply \in replies, NEW receivers \in SUBSET Parts, ReplyArrives(reply, receivers)
            PROVE  \A q \in Parts : Out(q)' => Out(q)
        <4>1. /\ UNCHANGED requests /\ replies' \subseteq replies
              /\ \A p \in Parts : inbox'[p] = inbox[p] \/ inbox'[p] = reply
          BY <3>4 DEF ReplyArrives
        <4>2. QED BY <4>1 DEF Out
      <3>5. ASSUME NEW r \in Requests, NEW answer \in Answers, NEW slot \in Slots \cup {NoSlot},
                   FmuAnswers(r, answer, slot)
            PROVE  \A q \in Parts : Out(q)' => Out(q)
        <4> DEFINE new == [request |-> r, answer |-> answer, slot |-> slot]
        <4>1. /\ r \in requests /\ requests' = requests \ {r} /\ UNCHANGED inbox
              /\ replies' = replies \cup {new}
          BY <3>5 DEF FmuAnswers
        <4>2. new.request = r
          OBVIOUS
        <4> HIDE DEF new
        <4>3. QED BY <4>1, <4>2 DEF Out
      <3>6. QED BY <1>9, <3>1, <3>2, <3>3, <3>4, <3>5 DEF External
    <2>3. QED BY <2>1, <2>2, AskKept
  <1>10. CASE UNCHANGED vars
    BY <1>1, <1>10, AskKept DEF vars, startVars, regVars, linkVars, endVars
  <1>11. QED
    BY <1>2, <1>3, <1>4, <1>5, <1>6, <1>7, <1>8, <1>9, <1>10 DEF Next, Startup, Running, Ending

-----------------------------------------------------------------------------
(* All or nothing.                                                          *)

\* Steps that leave the parts alone.
LEMMA DoneKept ==
  ASSUME DoneInv, UNCHANGED <<part, ids, isSetup, pending, current, published>>,
         context' => context, stage' = "spin" => stage = "spin"
  PROVE  DoneInv'
  BY DEF DoneInv

\* Nor gives anything back.
LEMMA BackKept ==
  ASSUME BackInv, UNCHANGED <<ids, registered, unregistered, alive, context, asking>>,
         stage = "ending" => stage' = "ending"
  PROVE  BackInv'
  BY DEF BackInv

\* What a reply brings to the part that asked for it.
LEMMA ReplyTaken ==
  ASSUME Inv, TakeReply
  PROVE  /\ part \in Parts /\ stage = "requested"
         /\ UNCHANGED <<unregistered, alive, context, asking>>
         /\ \/ UNCHANGED <<stage, part, registered, ids, overrideVars>>
            \/ stage' = "failed" /\ UNCHANGED <<part, registered, ids, overrideVars>>
            \/ /\ registered' = [registered EXCEPT ![part] = TRUE]
               /\ ids' = [ids EXCEPT ![part] = inbox[part].slot]
               /\ inbox[part].slot # NoSlot
               /\ ~context => part \in asking
               /\ Registered
  <1> USE DEF Inv
  <1> DEFINE reply == inbox[part]
  <1>1. part \in Parts /\ stage = "requested" /\ UNCHANGED <<unregistered, alive, context, asking>>
    BY DEF TakeReply, TypeOK, endVars
  <1>2. CASE UNCHANGED <<startVars, registered, ids, overrideVars>>
    BY <1>1, <1>2 DEF startVars
  <1>3. CASE Fail /\ UNCHANGED <<registered, ids, overrideVars>>
    BY <1>1, <1>3 DEF Fail, GoTo
  <1>4. CASE /\ ReplyMatches(reply) /\ reply.answer = "success"
             /\ registered' = [registered EXCEPT ![part] = TRUE]
             /\ ids' = [ids EXCEPT ![part] = reply.slot]
             /\ Registered
    <2>1. reply # NoMsg /\ reply.request = part
      BY <1>4 DEF TakeReply, ReplyMatches
    <2>2. reply.slot \in granted[part]
      BY <1>1, <1>4, <2>1 DEF SlotInv, Valid
    <2>3. reply.slot # NoSlot
      <3>1. granted[part] \subseteq Slots
        BY <1>1 DEF TypeOK, Requests
      <3>2. QED BY <2>2, <3>1, RegistrationAssumption
    <2>4. ~context => part \in asking
      <3>1. Out(part)
        BY <1>1, <2>1 DEF Out
      <3>2. part \in Int
        BY <1>1 DEF Parts
      <3>3. QED BY <1>1, <3>1, <3>2 DEF AskInv, Starting
    <2>5. QED BY <1>1, <1>4, <2>3, <2>4
  <1>5. QED
    BY <1>1, <1>2, <1>3, <1>4 DEF TakeReply

LEMMA DoneStep == Inv /\ [Next]_vars => DoneInv'
  <1> SUFFICES ASSUME Inv, [Next]_vars PROVE DoneInv'
    OBVIOUS
  <1> USE DEF Inv
  <1>1. CASE DoRegister \/ WaitForFMU \/ CompareGraph \/ RequestFormat \/ TakeResponse
             \/ FormatTimeout \/ PublishRequest \/ RequestTimeout \/ Leave \/ Die
    <2>1. UNCHANGED <<ids, isSetup, pending, current, published, context>>
      BY <1>1 DEF DoRegister, WaitForFMU, CompareGraph, RequestFormat, TakeResponse, FormatTimeout,
         PublishRequest, RequestTimeout, Leave, Die, regVars, overrideVars, endVars
    <2>2. UNCHANGED part /\ stage' # "spin"
      <3>1. CASE WaitForFMU
        BY <3>1, WaitEnds
      <3>2. CASE CompareGraph \/ RequestFormat \/ TakeResponse
        BY <3>2 DEF CompareGraph, RequestFormat, TakeResponse, Compared, GoTo, Fail, startVars
      <3>3. CASE DoRegister \/ FormatTimeout \/ PublishRequest \/ RequestTimeout \/ Leave \/ Die
        BY <3>3 DEF DoRegister, FormatTimeout, PublishRequest, RequestTimeout, Leave, Die, GoTo, Fail
      <3>4. QED BY <1>1, <3>1, <3>2, <3>3
    <2>3. QED BY <2>1, <2>2, DoneKept
  <1>2. CASE TakeReply
    <2>1. /\ part \in Parts /\ stage = "requested" /\ UNCHANGED context
      BY <1>2, ReplyTaken
    <2>2. CASE /\ UNCHANGED <<part, ids, overrideVars>>
               /\ stage' = stage \/ stage' = "failed"
      BY <2>1, <2>2, DoneKept DEF overrideVars
    <2>3. CASE /\ ids' = [ids EXCEPT ![part] = inbox[part].slot]
               /\ inbox[part].slot # NoSlot
               /\ Registered
      <3>1. /\ isSetup' = [isSetup EXCEPT ![part] = TRUE]
            /\ published' = [published EXCEPT ![part] =
                               IF pending[part] /\ context THEN current[part] ELSE @]
            /\ pending' = [pending EXCEPT ![part] = FALSE]
            /\ UNCHANGED current
        BY <2>3 DEF Registered, SetupOverrides
      <3>2. context => \A p \in Parts : pending'[p] \/ published'[p] = current'[p]
        BY <2>1, <3>1 DEF TypeOK, DoneInv
      <3>3. \A p \in Parts : isSetup'[p] => ~pending'[p]
        BY <2>1, <3>1 DEF TypeOK, DoneInv
      <3>4. ids'[part] # NoSlot /\ isSetup'[part]
        BY <2>1, <2>3, <3>1 DEF TypeOK
      <3>5. \A p \in Parts : ids[p] # NoSlot /\ isSetup[p] => ids'[p] # NoSlot /\ isSetup'[p]
        BY <2>3, <3>1, <3>4 DEF TypeOK
      <3>6. \A p \in Parts : p < part' \/ stage' = "spin" => p < part \/ p = part
        BY <2>1, <2>3, RegistrationAssumption DEF Registered, Parts
      <3>7. \A p \in Parts : p < part' \/ stage' = "spin" => ids'[p] # NoSlot /\ isSetup'[p]
        BY <3>4, <3>5, <3>6 DEF DoneInv
      <3>8. QED
        BY <2>1, <3>2, <3>3, <3>7 DEF DoneInv
    <2>4. QED BY <1>2, <2>2, <2>3, ReplyTaken
  <1>3. CASE Shutdown \/ \E p \in Parts : Destroy(p)
    <2>1. context' => context
      BY <1>3 DEF Shutdown, Destroy
    <2>2. UNCHANGED <<stage, part, ids, isSetup, pending, current, published>>
      BY <1>3, GivesBack DEF startVars, overrideVars
    <2>3. QED BY <2>1, <2>2, DoneKept
  <1>4. ASSUME NEW p \in Parts, NEW value \in Values, SetOverride(p, value) PROVE DoneInv'
    <2>1. /\ UNCHANGED <<stage, part, ids, isSetup, context>>
          /\ current' = [current EXCEPT ![p] = value]
      BY <1>4 DEF SetOverride, startVars, regVars, endVars
    <2>2. /\ context => \A q \in Parts : pending'[q] \/ published'[q] = current'[q]
          /\ \A q \in Parts : isSetup'[q] => ~pending'[q]
      <3>1. CASE isSetup[p]
        <4>1. published' = [published EXCEPT ![p] = IF context THEN value ELSE @]
              /\ UNCHANGED pending
          BY <1>4, <3>1 DEF SetOverride
        <4>2. QED BY <2>1, <4>1 DEF TypeOK, DoneInv
      <3>2. CASE ~isSetup[p]
        <4>1. pending' = [pending EXCEPT ![p] = TRUE] /\ UNCHANGED published
          BY <1>4, <3>2 DEF SetOverride
        <4>2. \A q \in Parts : q # p => pending'[q] = pending[q] /\ current'[q] = current[q]
          BY <2>1, <4>1 DEF TypeOK
        <4>3. pending'[p]
          BY <4>1 DEF TypeOK
        <4>4. QED BY <2>1, <3>2, <4>1, <4>2, <4>3 DEF DoneInv
      <3>3. QED BY <3>1, <3>2
    <2>3. QED BY <2>1, <2>2 DEF DoneInv
  <1>5. CASE External
    <2>1. UNCHANGED <<stage, part, ids, isSetup, pending, current, published, context>>
      BY <1>5 DEF External, FmuBoots, ResponseArrives, RequestLost, FmuAnswers, OtherRequests,
         ReplyArrives, Environment, startVars, overrideVars, endVars
    <2>2. QED BY <2>1, DoneKept
  <1>6. CASE UNCHANGED vars
    BY <1>6, DoneKept DEF vars, startVars, regVars, overrideVars, endVars
  <1>7. QED
    BY <1>1, <1>2, <1>3, <1>4, <1>5, <1>6 DEF Next, Startup, Running, Ending

LEMMA BackStep == Inv /\ [Next]_vars => BackInv'
  <1> SUFFICES ASSUME Inv, [Next]_vars PROVE BackInv'
    OBVIOUS
  <1> USE DEF Inv
  <1>1. CASE DoRegister \/ WaitForFMU \/ CompareGraph \/ RequestFormat \/ TakeResponse
             \/ FormatTimeout \/ PublishRequest \/ RequestTimeout \/ Leave \/ Die
    <2>1. UNCHANGED <<ids, registered, unregistered, alive, context, asking>> /\ stage # "ending"
      BY <1>1 DEF DoRegister, WaitForFMU, CompareGraph, RequestFormat, TakeResponse, FormatTimeout,
         PublishRequest, RequestTimeout, Leave, Die, regVars, endVars
    <2>2. QED BY <2>1, BackKept
  <1>2. CASE TakeReply
    <2>1. /\ part \in Parts /\ stage = "requested"
          /\ UNCHANGED <<unregistered, alive, context, asking>>
      BY <1>2, ReplyTaken
    <2>2. CASE UNCHANGED <<registered, ids>>
      BY <2>1, <2>2, BackKept
    <2>3. CASE /\ registered' = [registered EXCEPT ![part] = TRUE]
               /\ ids' = [ids EXCEPT ![part] = inbox[part].slot]
               /\ ~context => part \in asking
      <3>1. alive' = Parts /\ alive = Parts
        BY <2>1 DEF BackInv
      <3>2. \A p \in Parts : p # part => ids'[p] = ids[p] /\ registered'[p] = registered[p]
        BY <2>1, <2>3 DEF TypeOK
      <3>3. registered'[part]
        BY <2>1, <2>3 DEF TypeOK
      <3>4. QED BY <2>1, <2>3, <3>1, <3>2, <3>3 DEF BackInv
    <2>4. QED BY <1>2, <2>2, <2>3, ReplyTaken
  <1>3. CASE Shutdown
    <2>1. UNCHANGED <<stage, ids, alive>> /\ context /\ ~context'
      BY <1>3 DEF Shutdown, startVars
    <2>2. ASSUME PreShutdown, NEW p \in Parts, ids[p] # NoSlot
          PROVE  p \in unregistered'
      <3>1. unregistered' = unregistered \cup {q \in alive : registered[q]}
        BY <1>3, <2>1, <2>2 DEF Shutdown, DoUnregister
      <3>2. registered[p] \/ p \in unregistered
        BY <2>1, <2>2 DEF BackInv
      <3>3. registered[p] => p \in alive
        BY <2>1 DEF BackInv
      <3>4. QED BY <3>1, <3>2, <3>3
    <2>3. QED BY <2>1, <2>2 DEF BackInv
  <1>4. ASSUME NEW p \in Parts, Destroy(p) PROVE BackInv'
    <2>1. /\ stage = "ending" /\ UNCHANGED <<stage, ids, context, asking>>
          /\ alive' = alive \ {p}
      BY <1>4 DEF Destroy, startVars
    <2>2. CASE context
      <3>1. registered' = [q \in Parts |-> IF q \in {p} THEN FALSE ELSE registered[q]]
        BY <1>4, <2>2 DEF Destroy, DoUnregister
      <3>2. ~registered'[p] /\ \A q \in Parts : q # p => registered'[q] = registered[q]
        BY <3>1
      <3>3. unregistered' = unregistered \cup {q \in {p} : registered[q]}
        BY <1>4, <2>2 DEF Destroy, DoUnregister
      <3>4. \A q \in Parts : ids'[q] # NoSlot => registered'[q] \/ q \in unregistered'
        BY <2>1, <2>2, <3>2, <3>3 DEF BackInv
      <3>5. \A q \in Parts \ alive' : ~registered'[q]
        BY <2>1, <2>2, <3>2 DEF BackInv
      <3>6. QED BY <2>1, <2>2, <3>4, <3>5 DEF BackInv
    <2>3. CASE ~context
      <3>1. UNCHANGED <<registered, unregistered>>
        BY <1>4, <2>3 DEF Destroy
      <3>2. QED BY <2>1, <2>3, <3>1 DEF BackInv
    <2>4. QED BY <2>2, <2>3
  <1>5. CASE External \/ \E p \in Parts, value \in Values : SetOverride(p, value)
    <2>1. UNCHANGED <<stage, ids, registered, unregistered, alive, context, asking>>
      BY <1>5 DEF External, FmuBoots, ResponseArrives, RequestLost, FmuAnswers, OtherRequests,
         ReplyArrives, SetOverride, Environment, startVars, regVars, endVars
    <2>2. QED BY <2>1, BackKept
  <1>6. CASE UNCHANGED vars
    BY <1>6, BackKept DEF vars, startVars, regVars, endVars
  <1>7. QED
    BY <1>1, <1>2, <1>3, <1>4, <1>5, <1>6 DEF Next, Startup, Running, Ending

-----------------------------------------------------------------------------
LEMMA InvHolds == Spec => []Inv
  <1>1. Inv /\ [Next]_vars => Inv'
    BY TypeKept, SlotStep, CompatStep, AskStep, DoneStep, BackStep DEF Inv
  <1>2. QED
    BY <1>1, Initially, PTL DEF Spec

\* The state keeps its type: no loop of the constructor makes a try too many.
THEOREM TypeCorrect == Spec => []TypeOK
  <1>1. Inv => TypeOK
    BY DEF Inv
  <1>2. QED
    BY <1>1, InvHolds, PTL

\* A part's ids are a slot that the FMU granted to its own request, which no other part
\* has (the request id and the name in Registration::doRegister()).
THEOREM SlotsAreOwn == Spec => []OwnSlot
  <1>1. Inv => OwnSlot
    BY DEF Inv, SlotInv, OwnSlot, Requests
  <1>2. QED
    BY <1>1, InvHolds, PTL

\* A part gets its ids from an FMU of the same API version (Registration::doRegister()),
\* and unless it skipped the check or Zenoh is used, one whose protocol and definitions
\* match (messageCompatibilityCheck()).
THEOREM OnlyCompatible == Spec => []CompatibleOnly
  <1>1. Inv => CompatibleOnly
    BY DEF Inv, CompatInv
  <1>2. QED
    BY <1>1, InvHolds, PTL

\* A node that runs is registered whole, with its overrides sent; a part that is
\* destroyed has been given back (~Registration(), the shutdown callback), but for the
\* one that waited for its reply in the shutdown.
THEOREM RegisteredWholeOrNot == Spec => []AllOrNothing
  <1>1. Inv => AllOrNothing
    BY DEF Inv, DoneInv, BackInv, AllOrNothing
  <1>2. QED
    BY <1>1, InvHolds, PTL
=============================================================================
