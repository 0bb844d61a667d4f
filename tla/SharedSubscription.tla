-------------------------- MODULE SharedSubscription --------------------------
(***************************************************************************)
(* SharedSubscription (components/shared_subscription.hpp) for one message  *)
(* type: the instances of one static map, keyed by node and topic, and the  *)
(* callbacks registered with them.  The nodes and topics are numbered in    *)
(* the order of their addresses and names.                                  *)
(***************************************************************************)
EXTENDS Naturals, FiniteSets, Sequences

CONSTANTS
  Nodes, Topics,  \* sets of numbers
  MaxInstances,   \* bound: instances made in a behaviour
  MaxTokens,      \* bound: callbacks registered with one of them
  MaxCallbacks,   \* bound: callbacks registered in a behaviour
  None

Keys      == [node : Nodes, topic : Topics]
Instances == 1 .. MaxInstances
Tokens    == 1 .. MaxTokens

\* None is neither an instance nor a key.
SharedAssumption ==
  /\ MaxInstances \in Nat /\ MaxTokens \in Nat /\ MaxCallbacks \in Nat
  /\ None \notin Instances /\ None \notin Keys

VARIABLES
  key,       \* key of each instance made, or None
  mapped,    \* the instances in the static map
  nextToken, \* _next_token of each
  callbacks, \* _callbacks of each: the tokens
  handles,   \* SharedSubscriptionCallbackInstances that are held: <<instance, token>>
  message,   \* the instance whose onUpdate() runs, or None
  called,    \* the tokens it has called, in this order
  due        \* history: callbacks registered when the message came, and since

instanceVars == <<key, mapped, nextToken, callbacks, handles>>
updateVars   == <<message, called, due>>
vars == <<instanceVars, updateVars>>

TypeOK ==
  /\ key \in [Instances -> Keys \cup {None}]
  /\ mapped \subseteq Instances
  /\ nextToken \in [Instances -> 1 .. MaxTokens + 1]
  /\ callbacks \in [Instances -> SUBSET Tokens]
  /\ handles \subseteq Instances \X Tokens
  /\ message \in Instances \cup {None}
  /\ called \in Seq(Tokens)
  /\ due \subseteq Tokens

Init ==
  /\ key = [i \in Instances |-> None]
  /\ mapped = {}
  /\ nextToken = [i \in Instances |-> 1]
  /\ callbacks = [i \in Instances |-> {}]
  /\ handles = {}
  /\ message = None /\ called = <<>> /\ due = {}

-----------------------------------------------------------------------------
\* The callbacks ever registered.
Registered == {c \in Instances \X Tokens : c[2] < nextToken[c[1]]}

\* Key::operator<
Less(a, b) == a.node < b.node \/ a.topic < b.topic

\* std::map needs a strict weak order.  When two keys are each less than the
\* other, what find() and emplace() do is undefined: an entry may be missed.
Ordered(keys) == \A a, b \in keys : ~(Less(a, b) /\ Less(b, a))

MapKeys == {key[i] : i \in mapped}

Found(k) == {i \in mapped : key[i] = k}

Missed(k) == Found(k) = {} \/ ~Ordered(MapKeys \cup {k})

\* registerOnUpdateCallback(): the callback is the last one of the instance.
Register(i) ==
  /\ nextToken[i] \in Tokens /\ Cardinality(Registered) < MaxCallbacks
  /\ nextToken' = [nextToken EXCEPT ![i] = @ + 1]
  /\ callbacks' = [callbacks EXCEPT ![i] = @ \cup {nextToken[i]}]
  /\ handles' = handles \cup {<<i, nextToken[i]>>}
  /\ due' = IF message = i THEN due \cup {nextToken[i]} ELSE due
  /\ UNCHANGED <<message, called>>

\* create(): instance() finds the instance of the key or makes one.  When
\* find() has missed the entry, emplace() may find it, and the new instance is gone
\* when instance() returns it.
Create(k) ==
  \/ \E i \in Found(k) : Register(i) /\ UNCHANGED <<key, mapped>>
  \/ /\ Missed(k)
     /\ \E i \in Instances :
          /\ key[i] = None /\ \A j \in Instances : j < i => key[j] # None
          /\ key' = [key EXCEPT ![i] = k]
          /\ \/ mapped' = mapped \cup {i}
             \/ Found(k) # {} /\ mapped' = mapped
          /\ Register(i)

\* Mutant: the instance is removed with its first callback.
CleanupAlways(i) == mapped \ {i}

\* cleanupInstanceIfUnused()
CleanupIfUnused(i) == IF callbacks'[i] = {} THEN mapped \ {i} ELSE mapped

\* The deleter of a handle.  A callback does not destroy its own handle, which
\* would erase the element onUpdate() is at.
Destroy(h) ==
  LET i == h[1]
      t == h[2]
  IN  /\ h \in handles
      /\ ~(message = i /\ called # <<>> /\ called[Len(called)] = t)
      /\ handles' = handles \ {h}
      /\ callbacks' = [callbacks EXCEPT ![i] = @ \ {t}]
      /\ mapped' = CleanupIfUnused(i)
      /\ due' = IF message = i THEN due \ {t} ELSE due
      /\ UNCHANGED <<key, nextToken, message, called>>

-----------------------------------------------------------------------------
(* onUpdate() in the node's thread; callbacks may create and destroy others. *)

Waiting(i) ==
  {t \in callbacks[i] : called = <<>> \/ t > called[Len(called)]}

MessageArrives(i) ==
  /\ message = None
  /\ callbacks[i] # {}
  /\ message' = i
  /\ called' = <<>>
  /\ due' = callbacks[i]
  /\ UNCHANGED instanceVars

\* Mutant: the callbacks are kept in no order, the newest comes first.
CallNewest(t) == \A u \in callbacks[message] : u <= t

\* The next element of the map, which is ordered by token.
IsNext(t) == t \in Waiting(message) /\ \A u \in Waiting(message) : t <= u

Call(t) ==
  /\ message # None
  /\ t \in callbacks[message]
  /\ IsNext(t)
  /\ called' = Append(called, t)
  /\ UNCHANGED <<instanceVars, message, due>>

UpdateDone ==
  /\ message # None
  /\ Waiting(message) = {}
  /\ message' = None
  /\ UNCHANGED <<instanceVars, called, due>>

Next ==
  \/ \E k \in Keys : Create(k)
  \/ \E h \in handles : Destroy(h)
  \/ \E i \in Instances : MessageArrives(i)
  \/ \E t \in Tokens : Call(t)
  \/ UpdateDone

Spec == Init /\ [][Next]_vars

-----------------------------------------------------------------------------
\* The keys of all instances made so far.
Used == {key[i] : i \in {j \in Instances : key[j] # None}}

\* The comment of the class: "maintain a single instance per node and topic name".  The
\* map holds one instance of a key, and that is the one every handle of the key is with.
SingleInstance ==
  /\ \A i, j \in mapped : key[i] = key[j] => i = j
  /\ \A h \in handles : h[1] \in mapped

\* That is so as long as Key::operator< orders the keys the process has used (instance()
\* and cleanupInstanceIfUnused()).  The comment knows no such condition, but the code
\* does not keep it for two nodes of which the first has the greater topic.
OneInstance == Ordered(Used) => SingleInstance

\* A message reaches the callbacks in the order of their registration: all that
\* are registered and stay so while it is delivered, each once.
InOrderOfRegistration ==
  /\ \A m, n \in 1 .. Len(called) : m < n => called[m] < called[n]
  /\ message = None => \A t \in due : \E n \in 1 .. Len(called) : called[n] = t
=============================================================================
