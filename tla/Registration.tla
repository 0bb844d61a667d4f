---------------------------- MODULE Registration ----------------------------
(***************************************************************************)
(* The start and the end of a node: NodeWithMode and NodeWithModeExecutor   *)
(* (components/node_with_mode.hpp) register their parts one after another.  *)
(* ModeBase::doRegister and ModeExecutorBase::doRegister wait for the FMU    *)
(* (wait_for_fmu.cpp), compare the message definitions                      *)
(* (message_compatibility_check.cpp), register (registration.cpp) and set    *)
(* up what needs the ids (overrides.cpp).  All of it blocks in the node's    *)
(* constructor: each loop below publishes, takes what its subscription has,   *)
(* and gives up after a number of tries.                                    *)
(*                                                                         *)
(* The topics are shared: replies to another process of the same name reach *)
(* this one as well.  The FMU and the other process are external; what they  *)
(* do is left out once the constructor is over and nobody takes a reply.     *)
(*                                                                         *)
(* The context may be shut down at any time, also while the constructor      *)
(* waits.  A node ends with its destructors, or without them when the        *)
(* exception of the constructor is not caught.                              *)
(***************************************************************************)
EXTENDS Integers, Sequences, FiniteSets

CONSTANTS
  NumParts,      \* what the node registers: an executor with its mode, modes
  Topics,        \* a sequence: ALL_PX4_ROS2_MESSAGES
  FormatTries,   \* 5 in requestMessageFormat()
  RequestTries,  \* 5 in Registration::doRegister()
  Slots,         \* registration ids of the FMU
  NoSlot, NoMsg, None,
  OtherProcess,  \* a process that registers a part of the same name
  Systems,       \* the nodes and FMUs considered: see System
  PreShutdown,   \* HAS_RCLCPP_PRE_SHUTDOWN
  EmptyParts,    \* parts that may have no setpoint type
  EarlyOverrides \* parts whose constructor sets an override

Parts    == 1 .. NumParts
Numbers  == 1 .. Len(Topics)
Requests == Parts \cup {OtherProcess}   \* request_id is drawn at random
Values   == {"off", "on"}               \* of an override; "off" is the FMU's own
Answers  == {"success", "failure", "oldApi"}

\* What does not change while a node lives: the middleware ("untyped": Zenoh on ROS 2
\* Humble), the parts that called setSkipMessageCompatibilityCheck(), and of the FMU
\* its definitions of the topics, and whether its message format protocol and its API
\* have the version of the library.  The two versions are independent.
System == [rmw : {"dds", "zenoh", "untyped"}, skipping : SUBSET Parts,
           format : [Numbers -> {"same", "different"}],
           protocol : BOOLEAN, api : BOOLEAN]

\* What the constants are.
ASSUME RegistrationAssumption ==
  /\ NumParts \in Nat \ {0}
  /\ Topics \in Seq(STRING) /\ Topics # <<>>
  /\ FormatTries \in Nat \ {0} /\ RequestTries \in Nat \ {0}
  /\ NoSlot \notin Slots
  /\ OtherProcess \notin Parts /\ None \notin Requests
  /\ Systems \subseteq System /\ PreShutdown \in BOOLEAN
  /\ EmptyParts \subseteq Parts /\ EarlyOverrides \subseteq Parts

VARIABLES
  stage,     \* where the constructor is, or "spin", "failed", "ending", "died"
  part,      \* the part it registers
  compatible,\* kResult of defaultMessageCompatibilityCheck()
  topic,     \* the topic whose definition is compared
  mismatch,  \* ~ret of messageCompatibilityCheck()
  tries,     \* iterations of the running loop
  response,  \* queue of the MessageFormatResponse subscription
  inbox,     \* queue of the RegisterExtComponentReply subscription of each part
  registered, ids,           \* Registration
  isSetup, pending, current, published, \* ConfigOverrides: _is_setup,
             \* _require_update_after_setup, the last value, the last one sent
  unregistered,              \* parts whose UnregisterExtComponent was published
  alive,     \* the parts whose Registration exists
  context,   \* rclcpp's context is valid
  asking,    \* history: the part that asked when the context was shut down
  requests,  \* RegisterExtComponentRequests on their way to the FMU
  replies,   \* replies on their way
  holder,    \* FMU: the request each slot was granted to
  granted,   \* history: the slots the FMU granted to each request
  fmuUp,     \* FMU: it runs
  system     \* see System

startVars    == <<stage, part, tries>>
compatVars   == <<compatible, topic, mismatch, response>>
regVars      == <<inbox, registered, ids, unregistered>>
endVars      == <<alive, context, asking>>
overrideVars == <<isSetup, pending, current, published>>
linkVars     == <<requests, replies>>
fmuVars      == <<holder, granted, fmuUp, system>>
vars == <<startVars, compatVars, regVars, endVars, overrideVars, linkVars, fmuVars>>

Starting == {"start", "waitFmu", "compare", "formatSent", "register", "requested"}
Stages   == Starting \cup {"spin", "failed", "ending", "died"}
Reply  == [request : Requests, answer : Answers, slot : Slots \cup {NoSlot}]

TypeOK ==
  /\ stage \in Stages /\ part \in Parts
  /\ tries \in 0 .. (IF stage \in {"compare", "formatSent"} THEN FormatTries ELSE RequestTries)
  /\ compatible \in {"unset", "yes", "no"} /\ mismatch \in BOOLEAN
  /\ topic \in 1 .. Len(Topics) + 1
  /\ response \in Numbers \cup {NoMsg}
  /\ inbox \in [Parts -> Reply \cup {NoMsg}]
  /\ registered \in [Parts -> BOOLEAN]
  /\ ids \in [Parts -> Slots \cup {NoSlot}]
  /\ isSetup \in [Parts -> BOOLEAN] /\ pending \in [Parts -> BOOLEAN]
  /\ current \in [Parts -> Values] /\ published \in [Parts -> Values]
  /\ unregistered \subseteq Parts
  /\ alive \subseteq Parts /\ context \in BOOLEAN /\ asking \subseteq Parts
  /\ requests \subseteq Requests /\ replies \subseteq Reply
  /\ holder \in [Slots -> Requests \cup {None}]
  /\ granted \in [Requests -> SUBSET Slots]
  /\ fmuUp \in BOOLEAN /\ system \in Systems

\* The constructors of the parts have run; some have set an override.
Init ==
  /\ stage = "start" /\ part = 1 /\ tries = 0
  /\ compatible = "unset" /\ topic = 1 /\ mismatch = FALSE /\ response = NoMsg
  /\ inbox = [p \in Parts |-> NoMsg]
  /\ registered = [p \in Parts |-> FALSE]
  /\ ids = [p \in Parts |-> NoSlot]
  /\ isSetup = [p \in Parts |-> FALSE]
  /\ pending = [p \in Parts |-> p \in EarlyOverrides]
  /\ current = [p \in Parts |-> IF p \in EarlyOverrides THEN "on" ELSE "off"]
  /\ published = [p \in Parts |-> "off"]
  /\ unregistered = {}
  /\ alive = Parts /\ context = TRUE /\ asking = {}
  /\ requests = {} /\ replies = {}
  /\ holder = [s \in Slots |-> None]
  /\ granted = [r \in Requests |-> {}]
  /\ fmuUp = FALSE /\ system \in Systems

-----------------------------------------------------------------------------
(* doRegister() of one part.                                               *)

GoTo(next) == stage' = next /\ tries' = 0 /\ UNCHANGED part

\* throw Exception("Registration failed")
Fail == GoTo("failed")

\* The check may be skipped, and with it the wait.
DoRegister ==
  /\ stage = "start"
  /\ GoTo(IF part \in system.skipping THEN "register" ELSE "waitFmu")
  /\ UNCHANGED <<compatVars, regVars, endVars, overrideVars, linkVars, fmuVars>>

\* waitForFMU() takes a VehicleStatus, or 15 s pass.  The result of the
\* comparison is kept in a static variable for the parts that follow.
WaitForFMU ==
  /\ stage = "waitFmu"
  /\ \/ /\ fmuUp
        /\ CASE compatible = "unset" -> GoTo("compare")
             [] compatible = "yes"   -> GoTo("register")
             [] compatible = "no"    -> Fail
     \/ Fail
  /\ UNCHANGED <<compatVars, regVars, endVars, overrideVars, linkVars, fmuVars>>

\* The end of messageCompatibilityCheck(), which sets kResult.
Compared(result) ==
  /\ compatible' = IF result THEN "yes" ELSE "no"
  /\ IF result THEN GoTo("register") ELSE Fail

\* Under Zenoh nothing is asked: one definition of each topic that the graph shows is
\* compared.  It is the FMU's for the topics `shown`, for the others that of a process
\* that matches.  Before ROS 2 Jazzy the graph has no definitions.
CompareGraph ==
  /\ stage = "compare"
  /\ \/ system.rmw = "untyped" /\ Compared(TRUE)
     \/ /\ system.rmw = "zenoh"
        /\ \E shown \in SUBSET Numbers :
             Compared(\A n \in shown : system.format[n] = "same")
  /\ UNCHANGED <<topic, mismatch, response, regVars, endVars, overrideVars, linkVars,
                 fmuVars>>

\* The next iteration of the loop in requestMessageFormat(), or its end.
RequestFormat ==
  /\ stage = "compare" /\ system.rmw = "dds"
  /\ IF topic > Len(Topics)
     THEN Compared(~mismatch)
     ELSE IF tries = FormatTries
          THEN Compared(FALSE)     \* Timeout: other formats are not tried
          ELSE /\ tries' = tries + 1
               /\ stage' = "formatSent"
               /\ UNCHANGED <<part, compatible>>
  /\ UNCHANGED <<topic, mismatch, response, regVars, endVars, overrideVars, linkVars,
                 fmuVars>>

\* Mutant: the topic name of the response is not compared.
AnyResponse(n) == TRUE

\* strcmp(response.topic_name, request.topic_name) == 0
ResponseMatches(n) == n = topic

TakeResponse ==
  /\ stage = "formatSent"
  /\ response # NoMsg
  /\ response' = NoMsg
  /\ \/ /\ ~system.protocol        \* ProtocolVersionMismatch
        /\ Compared(FALSE)
        /\ UNCHANGED <<topic, mismatch>>
     \/ /\ system.protocol /\ ResponseMatches(response)
        /\ mismatch' = (mismatch \/ system.format[response] # "same")
        /\ topic' = topic + 1
        /\ GoTo("compare")
        /\ UNCHANGED compatible
     \/ /\ system.protocol /\ ~ResponseMatches(response)
        /\ UNCHANGED <<startVars, topic, mismatch, compatible>>
  /\ UNCHANGED <<regVars, endVars, overrideVars, linkVars, fmuVars>>

FormatTimeout ==
  /\ stage = "formatSent"
  /\ stage' = "compare"
  /\ UNCHANGED <<part, tries, compatVars, regVars, endVars, overrideVars, linkVars, fmuVars>>

\* Mutant: the loop of doRegister() has no end.
PublishForEver ==
  /\ stage = "register"
  /\ stage' = "requested"
  /\ requests' = requests \cup {part}
  /\ UNCHANGED <<part, tries, compatVars, regVars, endVars, overrideVars, replies, fmuVars>>

\* Mutant: the loop of doRegister() makes one try too many.
PublishOneMore ==
  /\ stage = "register"
  /\ IF tries > RequestTries
     THEN Fail /\ UNCHANGED requests
     ELSE /\ tries' = tries + 1
          /\ stage' = "requested"
          /\ requests' = requests \cup {part}
          /\ UNCHANGED part
  /\ UNCHANGED <<compatVars, regVars, endVars, overrideVars, replies, fmuVars>>

\* Registration::doRegister(): the next try, or the end of the loop.  Without a valid
\* context nothing is published.
PublishRequest ==
  /\ stage = "register"
  /\ IF tries = RequestTries
     THEN Fail /\ UNCHANGED requests
     ELSE /\ tries' = tries + 1
          /\ stage' = "requested"
          /\ requests' = IF context THEN requests \cup {part} ELSE requests
          /\ UNCHANGED part
  /\ UNCHANGED <<compatVars, regVars, endVars, overrideVars, replies, fmuVars>>

\* Mutant: the request id is not compared.
SameName(reply) == TRUE

\* The names are the same, so only the id tells the processes apart.
ReplyMatches(reply) == reply.request = part

\* ConfigOverrides::setup() in onRegistered()
SetupOverrides ==
  /\ isSetup' = [isSetup EXCEPT ![part] = TRUE]
  /\ published' = [published EXCEPT ![part] =
                     IF pending[part] /\ context THEN current[part] ELSE @]
  /\ pending' = [pending EXCEPT ![part] = FALSE]
  /\ UNCHANGED current

\* onRegistered() fails when the mode has no setpoint type; then, and when the
\* next part does not come, the constructor is over.
Registered ==
  /\ SetupOverrides
  /\ tries' = 0
  /\ \/ part \in EmptyParts /\ stage' = "failed" /\ UNCHANGED part
     \/ part = NumParts /\ stage' = "spin" /\ UNCHANGED part
     \/ part < NumParts /\ stage' = "start" /\ part' = part + 1

TakeReply ==
  LET reply == inbox[part]
  IN  /\ stage = "requested"
      /\ reply # NoMsg
      /\ inbox' = [inbox EXCEPT ![part] = NoMsg]
      /\ \/ /\ ~ReplyMatches(reply)
            /\ UNCHANGED <<startVars, registered, ids, overrideVars>>
         \/ /\ ReplyMatches(reply) /\ reply.answer = "success"
            /\ registered' = [registered EXCEPT ![part] = TRUE]
            /\ ids' = [ids EXCEPT ![part] = reply.slot]
            /\ Registered
         \/ /\ ReplyMatches(reply) /\ reply.answer # "success"
            /\ Fail
            /\ UNCHANGED <<registered, ids, overrideVars>>
      /\ UNCHANGED <<compatVars, unregistered, endVars, linkVars, fmuVars>>

RequestTimeout ==
  /\ stage = "requested"
  /\ stage' = "register"
  /\ UNCHANGED <<part, tries, compatVars, regVars, endVars, overrideVars, linkVars, fmuVars>>

-----------------------------------------------------------------------------
(* The running node and its end.                                           *)

\* controlAutoDisarm(), controlAutoSetHome(), deferFailsafes(): update()
SetOverride(p, value) ==
  /\ stage = "spin"
  /\ current' = [current EXCEPT ![p] = value]
  /\ IF isSetup[p]
     THEN /\ published' = [published EXCEPT ![p] = IF context THEN value ELSE @]
          /\ UNCHANGED pending
     ELSE pending' = [pending EXCEPT ![p] = TRUE] /\ UNCHANGED published
  /\ UNCHANGED <<isSetup, startVars, compatVars, regVars, endVars, linkVars, fmuVars>>

\* doUnregister() of some parts: the FMU is told while the context is valid, and that
\* they are registered is forgotten in any case.
DoUnregister(back) ==
  /\ registered' = [p \in Parts |-> IF p \in back THEN FALSE ELSE registered[p]]
  /\ unregistered' = IF context THEN unregistered \cup {p \in back : registered[p]}
                     ELSE unregistered

\* Mutant: the callbacks are called when the context is no longer valid.
ShutdownFirst ==
  /\ context /\ stage # "died"
  /\ context' = FALSE
  /\ asking' = IF stage \in {"register", "requested"} THEN {part} ELSE {}
  /\ registered' = [p \in Parts |-> FALSE]
  /\ UNCHANGED <<startVars, compatVars, inbox, ids, unregistered, alive, overrideVars,
                 linkVars, fmuVars>>

\* rclcpp::shutdown(), of a signal or the watchdog, at any time.  The callbacks of
\* the parts come before the context is invalid.
Shutdown ==
  /\ context /\ stage # "died"
  /\ context' = FALSE
  /\ asking' = IF stage \in {"register", "requested"} THEN {part} ELSE {}
  /\ IF PreShutdown THEN DoUnregister(alive) ELSE UNCHANGED <<registered, unregistered>>
  /\ UNCHANGED <<startVars, compatVars, inbox, ids, alive, overrideVars, linkVars,
                 fmuVars>>

\* spin() returns, or somebody catches the exception: destructors run.
Leave ==
  /\ stage \in {"spin", "failed"}
  /\ GoTo("ending")
  /\ UNCHANGED <<compatVars, regVars, endVars, overrideVars, linkVars, fmuVars>>

\* Nobody catches "Registration failed": the process ends without destructors.
Die ==
  /\ stage = "failed"
  /\ GoTo("died")
  /\ UNCHANGED <<compatVars, regVars, endVars, overrideVars, linkVars, fmuVars>>

\* ~Registration() of part p
Destroy(p) ==
  /\ stage = "ending" /\ p \in alive
  /\ alive' = alive \ {p}
  /\ IF context THEN DoUnregister({p}) ELSE UNCHANGED <<registered, unregistered>>
  /\ UNCHANGED <<startVars, compatVars, inbox, ids, context, asking, overrideVars,
                 linkVars, fmuVars>>

-----------------------------------------------------------------------------
(* The FMU, the network and another process (external).                     *)

Environment ==
  /\ stage \in Starting
  /\ UNCHANGED <<startVars, compatible, topic, mismatch, registered, ids,
                 unregistered, endVars, overrideVars>>

FmuBoots ==
  /\ ~fmuUp
  /\ fmuUp' = TRUE
  /\ Environment
  /\ UNCHANGED <<response, inbox, linkVars, holder, granted, system>>

\* A response to this process or another one, in time or late.
ResponseArrives(n) ==
  /\ fmuUp /\ stage = "formatSent"
  /\ response' = n
  /\ Environment
  /\ UNCHANGED <<inbox, linkVars, fmuVars>>

\* A request is answered with a new slot, with the one its first try got, or
\* refused.  The FMU grants a slot to a library of another API version as well, and
\* tells its own.
FmuAnswers(r, answer, slot) ==
  /\ fmuUp
  /\ r \in requests
  /\ answer \in {"failure", IF system.api THEN "success" ELSE "oldApi"}
  /\ IF answer = "failure" THEN slot = NoSlot
     ELSE slot \in Slots /\ holder[slot] \in {None, r}
  /\ holder' = IF slot = NoSlot THEN holder ELSE [holder EXCEPT ![slot] = r]
  /\ granted' = IF slot = NoSlot THEN granted ELSE [granted EXCEPT ![r] = @ \cup {slot}]
  /\ requests' = requests \ {r}
  /\ replies' = replies \cup {[request |-> r, answer |-> answer, slot |-> slot]}
  /\ Environment
  /\ UNCHANGED <<response, inbox, fmuUp, system>>

OtherRequests ==
  /\ granted[OtherProcess] = {}
  /\ requests' = requests \cup {OtherProcess}
  /\ Environment
  /\ UNCHANGED <<response, inbox, replies, fmuVars>>

RequestLost(r) ==
  /\ r \in requests
  /\ requests' = requests \ {r}
  /\ Environment
  /\ UNCHANGED <<response, inbox, replies, fmuVars>>

\* A reply reaches the subscriptions of all parts, or of some: it is lost for the
\* others.  Those of the parts before this one are not looked at any more.
ReplyArrives(reply, receivers) ==
  /\ reply \in replies
  /\ \A p \in receivers : p >= part
  /\ replies' = replies \ {reply}
  /\ inbox' = [p \in Parts |-> IF p \in receivers THEN reply ELSE inbox[p]]
  /\ Environment
  /\ UNCHANGED <<response, requests, fmuVars>>

Startup ==
  \/ DoRegister \/ WaitForFMU
  \/ CompareGraph \/ RequestFormat \/ TakeResponse \/ FormatTimeout
  \/ PublishRequest \/ TakeReply \/ RequestTimeout

Running == \E p \in Parts, value \in Values : SetOverride(p, value)

Ending == Shutdown \/ Leave \/ Die \/ \E p \in Parts : Destroy(p)

External ==
  \/ FmuBoots
  \/ \E n \in Numbers : ResponseArrives(n)
  \/ \E r \in Requests : RequestLost(r)
  \/ \E r \in Requests, answer \in Answers, slot \in Slots \cup {NoSlot} :
       FmuAnswers(r, answer, slot)
  \/ OtherRequests
  \/ \E reply \in replies, receivers \in SUBSET Parts : ReplyArrives(reply, receivers)

Next == Startup \/ Running \/ Ending \/ External

Spec == Init /\ [][Next]_vars

\* The loops of the constructor have timeouts.
Fairness ==
  /\ WF_vars(DoRegister) /\ WF_vars(WaitForFMU)
  /\ WF_vars(CompareGraph) /\ WF_vars(RequestFormat) /\ WF_vars(FormatTimeout)
  /\ WF_vars(PublishRequest) /\ WF_vars(RequestTimeout)

FairSpec == Spec /\ Fairness

-----------------------------------------------------------------------------
\* What a part takes for its ids is a slot the FMU granted to its own request,
\* and no two parts share one, although replies to another process of the same
\* name and late replies to earlier tries come to the same subscription.
OwnSlot ==
  \A p \in Parts : registered[p] =>
    /\ ids[p] \in granted[p]
    /\ \A q \in Parts \ {p} : registered[q] => ids[p] # ids[q]

\* What a part got, it got from an FMU of the same API version; and when it did not
\* skip the check and the middleware is not Zenoh, from one whose protocol version and
\* every definition match, whatever responses for other topics arrive in between.
\* This holds also for a part after one that skipped the check.
CompatibleOnly ==
  \A p \in Parts : ids[p] # NoSlot =>
    /\ system.api
    /\ system.rmw = "dds" /\ p \notin system.skipping =>
         system.protocol /\ \A n \in Numbers : system.format[n] = "same"

\* A node that runs has registered all its parts, and the FMU has been told the
\* override of each that was set last, also when it was set before there was an
\* id to send it with.  A part that is destroyed has been given back, also when it was
\* a later one that failed, and when the context was shut down first.  There remains one
\* that waited for its reply in the shutdown; and every part if rclcpp has no
\* callbacks before the shutdown.
AllOrNothing ==
  /\ stage = "spin" /\ context =>
       \A p \in Parts : ids[p] # NoSlot /\ isSetup[p] /\ published[p] = current[p]
  /\ \A p \in Parts \ alive : ids[p] # NoSlot /\ p \notin unregistered =>
       ~context /\ (PreShutdown => p \in asking)

\* The constructor ends, whatever is lost.
StartupEnds == <>(stage \in {"spin", "failed", "ending", "died"})
=============================================================================
