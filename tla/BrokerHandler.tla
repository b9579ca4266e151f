---------------------------- MODULE BrokerHandler ----------------------------
(***************************************************************************)
(* The broker service (service/broker/handler): messages are published     *)
(* under the namespace of the caller and streamed to those who subscribe   *)
(* in it.                                                                  *)
(*                                                                         *)
(* The broker behind the handler gives a message to one subscription of    *)
(* each queue on its topic, and runs the handler function of Subscribe for *)
(* each message on its own.                                                *)
(*                                                                         *)
(* A name with dots is the sequence of its labels: what is written         *)
(* ns + "." + topic is one sequence after the other, in which the end of   *)
(* the namespace is no longer to be seen.                                  *)
(***************************************************************************)
EXTENDS Naturals, Sequences

CONSTANTS
  BrokerNamespaces,   \* namespaces of the callers
  Topics,             \* topics that they name
  Queues,             \* queues that subscribers ask for
  BrokerStreams,      \* clients that subscribe
  MaxMessages         \* bound on messages

ASSUME BrokerAssumption ==
  /\ MaxMessages \in Nat
  /\ BrokerNamespaces # {} /\ BrokerNamespaces \subseteq Seq(STRING)
  /\ Topics # {} /\ Topics \subseteq Seq(STRING)
  /\ Queues # {} /\ Queues \subseteq Seq(STRING)

VARIABLES
  subscription,   \* each stream's Subscribe: state, names, client there, errChan
  messages,       \* the messages published
  handling,       \* <<message, stream>>: the handler functions that run
  streamed        \* <<message, stream>>: what Send has sent

brokerVars == <<subscription, messages, handling, streamed>>

Messages == [ns : BrokerNamespaces, topic : Topics]

NewSubscription ==
  [state : {"new"}, ns : BrokerNamespaces, topic : Topics, queue : Queues, client : {TRUE},
   errChan : {0}]

-----------------------------------------------------------------------------
\* Mutant: the topic without the namespace.
WithoutNamespace(ns, name) == name

\* What the broker knows the topic of a caller by, and the queue.
Within(ns, name) == ns \o name

\* The open subscriptions to what this message is published on, with this queue.
Subscribed(m, queue) ==
  {s \in BrokerStreams :
     /\ subscription[s].state = "open"
     /\ Within(subscription[s].ns, subscription[s].topic) = Within(m.ns, m.topic)
     /\ Within(subscription[s].ns, subscription[s].queue) = queue}

BrokerQueues == {Within(subscription[s].ns, subscription[s].queue) : s \in BrokerStreams}

\* The broker takes the subscription or fails, which ends the stream.
Subscribe(s, ns, topic, q) ==
  /\ subscription[s].state = "new"
  /\ \/ subscription' = [subscription EXCEPT ![s] = [@ EXCEPT !.state = "open", !.ns = ns,
                                                                !.topic = topic, !.queue = q]]
     \/ subscription' = [subscription EXCEPT ![s].state = "ended"]
  /\ UNCHANGED <<messages, handling, streamed>>

\* Publish works.  (One that fails changes nothing.)
Publish(m) ==
  /\ Len(messages) < MaxMessages
  /\ messages' = Append(messages, m)
  /\ \E to \in SUBSET UNION {Subscribed(m, q) : q \in BrokerQueues} :
       /\ \A q \in BrokerQueues :
            Subscribed(m, q) # {} => \E s \in Subscribed(m, q) : to \cap Subscribed(m, q) = {s}
       /\ handling' = handling \cup {<<Len(messages) + 1, s>> : s \in to}
  /\ UNCHANGED <<subscription, streamed>>

\* Send works or fails; a failure is kept only if errChan is empty.
Handle(d) ==
  /\ d \in handling
  /\ LET s == d[2] IN
       \/ /\ subscription[s].client /\ subscription[s].state = "open"
          /\ streamed' = streamed \cup {d}
          /\ UNCHANGED subscription
       \/ /\ subscription' = [subscription EXCEPT ![s].errChan = 1]
          /\ UNCHANGED streamed
  /\ handling' = handling \ {d}
  /\ UNCHANGED messages

\* The select at the end: the context is done or a handler has failed.
SubscribeReturns(s) ==
  /\ subscription[s].state = "open"
  /\ \/ /\ ~subscription[s].client
        /\ subscription' = [subscription EXCEPT ![s].state = "ended"]
     \/ /\ subscription[s].errChan = 1
        /\ subscription' = [subscription EXCEPT ![s].state = "ended", ![s].errChan = 0]
  /\ UNCHANGED <<messages, handling, streamed>>

SubscriberLeaves(s) ==
  /\ subscription[s].state = "open" /\ subscription[s].client
  /\ subscription' = [subscription EXCEPT ![s].client = FALSE]
  /\ UNCHANGED <<messages, handling, streamed>>

-----------------------------------------------------------------------------
BrokerInit ==
  /\ subscription = [s \in BrokerStreams |-> CHOOSE new \in NewSubscription : TRUE]
  /\ messages = <<>> /\ handling = {} /\ streamed = {}

BrokerNext ==
  \/ \E m \in Messages : Publish(m)
  \/ \E d \in handling : Handle(d)
  \/ \E s \in BrokerStreams :
       \/ SubscribeReturns(s) \/ SubscriberLeaves(s)
       \/ \E m \in Messages, q \in Queues : Subscribe(s, m.ns, m.topic, q)

-----------------------------------------------------------------------------
Subscriptions ==
  [state : {"new", "open", "ended"}, ns : BrokerNamespaces, topic : Topics, queue : Queues,
   client : BOOLEAN, errChan : 0 .. 1]

BrokerTypeOK ==
  /\ subscription \in [BrokerStreams -> Subscriptions]
  /\ messages \in Seq(Messages)
  /\ handling \cup streamed \subseteq (1 .. Len(messages)) \X BrokerStreams

\* One namespace is the beginning of the other, as go is of go.micro.
Nested(ns, other) ==
  \A i \in 1 .. Len(ns) : i \in 1 .. Len(other) => ns[i] = other[i]

(***************************************************************************)
(* Publish and Subscribe of the handler: a client is sent no message of a  *)
(* namespace that is neither its own, nor the beginning of its own, nor    *)
(* begins with its own; of its own namespace it is sent its topic only;    *)
(* and each message goes to one client of a queue of a namespace.          *)
(***************************************************************************)
BrokerStreamsFaithful ==
  \A d, e \in handling \cup streamed :
    LET message == messages[d[1]]
        client == subscription[d[2]]
        other == subscription[e[2]]
    IN /\ Nested(message.ns, client.ns)
       /\ message.ns = client.ns => message.topic = client.topic
       /\ d[1] = e[1] /\ client.ns = other.ns /\ client.queue = other.queue => d = e

\* What it rests on: nothing is for a stream that has not subscribed, nor for one
\* of another topic of the broker.
BrokerIInv ==
  /\ BrokerTypeOK
  /\ \A d \in handling \cup streamed :
       /\ subscription[d[2]].state # "new"
       /\ Within(messages[d[1]].ns, messages[d[1]].topic)
            = Within(subscription[d[2]].ns, subscription[d[2]].topic)
  /\ \A d, e \in handling \cup streamed :
       /\ d[1] = e[1]
       /\ Within(subscription[d[2]].ns, subscription[d[2]].queue)
            = Within(subscription[e[2]].ns, subscription[e[2]].queue)
       => d = e

(***************************************************************************)
(* The handler function and the select of Subscribe: the handler of a      *)
(* message returns, also when nobody reads its error any more, and the     *)
(* subscription of a client that has gone ends.                            *)
(***************************************************************************)
BrokerProceeds ==
  /\ \A d \in (1 .. MaxMessages) \X BrokerStreams : d \in handling ~> d \notin handling
  /\ \A s \in BrokerStreams :
       (subscription[s].state = "open" /\ ~subscription[s].client) ~> subscription[s].state = "ended"
=============================================================================
