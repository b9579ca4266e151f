-------------------------- MODULE Processes_proofs --------------------------
(***************************************************************************)
(* What the processes of the system keep, for any numbers of streams,      *)
(* routers, services, inputs and messages: the inductive invariant of each *)
(* part, and that a step of one part leaves those of the others alone.     *)
(***************************************************************************)
EXTENDS Processes, SequenceTheorems, TLAPS

(***************************************************************************)
(* The broker's handler.                                                   *)
(***************************************************************************)
\* Of two names that run together to the same, one namespace begins the other, and
\* in the same namespace the names are the same.
LEMMA JoinedNames ==
  ASSUME NEW ns \in Seq(STRING), NEW other \in Seq(STRING),
         NEW name \in Seq(STRING), NEW otherName \in Seq(STRING),
         Within(ns, name) = Within(other, otherName)
  PROVE  Nested(ns, other) /\ (ns = other => name = otherName)
<1>1. /\ Len(ns \o name) = Len(ns) + Len(name)
      /\ Len(other \o otherName) = Len(other) + Len(otherName)
      /\ \A i \in 1 .. Len(ns) : (ns \o name)[i] = ns[i]
      /\ \A i \in 1 .. Len(other) : (other \o otherName)[i] = other[i]
  OBVIOUS
<1>2. Nested(ns, other)
  BY <1>1 DEF Nested, Within
<1>3. ASSUME ns = other
      PROVE  name = otherName
  <2>1. Len(name) = Len(otherName)
    BY <1>1, <1>3 DEF Within
  <2>2. ASSUME NEW i \in 1 .. Len(name)
        PROVE  name[i] = otherName[i]
    <3>1. (ns \o name)[Len(ns) + i] = name[i]
      OBVIOUS
    <3>2. i \in 1 .. Len(otherName)
      BY <2>1
    <3>3. (other \o otherName)[Len(other) + i] = otherName[i]
      BY <3>2
    <3> QED
      BY <1>3, <3>1, <3>3 DEF Within
  <2> QED
    BY ONLY <2>1, <2>2, name \in Seq(STRING), otherName \in Seq(STRING), SeqEqual
<1> QED
  BY <1>2, <1>3

LEMMA BrokerInitInv == BrokerInit => BrokerIInv
<1> SUFFICES ASSUME BrokerInit
             PROVE  BrokerIInv
  OBVIOUS
<1>1. \E new \in NewSubscription : TRUE
  <2>1. PICK ns \in BrokerNamespaces, topic \in Topics, q \in Queues : TRUE
    BY BrokerAssumption
  <2>2. [state |-> "new", ns |-> ns, topic |-> topic, queue |-> q, client |-> TRUE, errChan |-> 0]
          \in NewSubscription
    BY DEF NewSubscription
  <2> QED
    BY <2>2
<1>2. (CHOOSE new \in NewSubscription : TRUE) \in NewSubscription
  BY <1>1
<1>3. ASSUME NEW new \in NewSubscription
      PROVE  new \in Subscriptions
  <2>1. new.errChan = 0
    BY DEF NewSubscription
  <2>2. 0 \in 0 .. 1
    OBVIOUS
  <2>3. new \in [state : {"new", "open", "ended"}, ns : BrokerNamespaces, topic : Topics,
                 queue : Queues, client : BOOLEAN, errChan : {new.errChan}]
    BY <2>1 DEF NewSubscription
  <2> QED
    BY <2>1, <2>2, <2>3 DEF Subscriptions
<1>4. subscription \in [BrokerStreams -> Subscriptions]
  BY <1>2, <1>3 DEF BrokerInit
<1> QED
  BY <1>4 DEF BrokerInit, BrokerIInv, BrokerTypeOK

\* What changes nothing in the names of a stream that has subscribed, nor adds to
\* what has been given to it, keeps the invariant.
LEMMA NamesKept ==
  ASSUME BrokerIInv, BrokerTypeOK', messages' = messages,
         handling' \cup streamed' \subseteq handling \cup streamed,
         \A d \in handling \cup streamed :
           /\ subscription'[d[2]].ns = subscription[d[2]].ns
           /\ subscription'[d[2]].topic = subscription[d[2]].topic
           /\ subscription'[d[2]].queue = subscription[d[2]].queue
           /\ subscription'[d[2]].state # "new"
  PROVE  BrokerIInv'
<1>1. \A d \in handling' \cup streamed' : d \in handling \cup streamed
  OBVIOUS
<1> QED
  BY <1>1 DEF BrokerIInv

LEMMA PublishInv ==
  ASSUME BrokerIInv, NEW m \in Messages, Publish(m)
  PROVE  BrokerIInv'
<1> DEFINE n == Len(messages) + 1
           queueOf(s) == Within(subscription[s].ns, subscription[s].queue)
           topicOf(s) == Within(subscription[s].ns, subscription[s].topic)
<1>1. PICK to \in SUBSET UNION {Subscribed(m, q) : q \in BrokerQueues} :
        /\ \A q \in BrokerQueues :
             Subscribed(m, q) # {} => \E s \in Subscribed(m, q) : to \cap Subscribed(m, q) = {s}
        /\ handling' = handling \cup {<<n, s>> : s \in to}
  BY DEF Publish
<1>2. /\ messages' = Append(messages, m) /\ subscription' = subscription /\ streamed' = streamed
      /\ n \in Nat /\ Len(messages') = n /\ messages'[n] = m
      /\ \A i \in 1 .. Len(messages) : messages'[i] = messages[i]
      /\ messages' \in Seq(Messages)
  BY DEF Publish, BrokerIInv, BrokerTypeOK
<1>3. ASSUME NEW s \in to
      PROVE  /\ s \in BrokerStreams /\ subscription[s].state = "open"
             /\ topicOf(s) = Within(m.ns, m.topic)
             /\ queueOf(s) \in BrokerQueues /\ s \in Subscribed(m, queueOf(s))
  BY DEF Subscribed, BrokerQueues
<1>4. ASSUME NEW s \in to, NEW t \in to, queueOf(s) = queueOf(t)
      PROVE  s = t
  BY <1>1, <1>3, <1>4
<1>5. /\ \A d \in handling \cup streamed : d[1] \in 1 .. Len(messages) /\ d[2] \in BrokerStreams
      /\ handling \cup streamed \subseteq (1 .. Len(messages)) \X BrokerStreams
  BY DEF BrokerIInv, BrokerTypeOK
<1>6. BrokerTypeOK'
  <2>1. n \in 1 .. Len(messages') /\ 1 .. Len(messages) \subseteq 1 .. Len(messages')
    BY <1>2
  <2>2. handling' \cup streamed' \subseteq (1 .. Len(messages')) \X BrokerStreams
    BY <1>1, <1>2, <1>3, <1>5, <2>1
  <2> QED
    BY <1>2, <2>2 DEF BrokerIInv, BrokerTypeOK
<1>7. ASSUME NEW d \in handling' \cup streamed'
      PROVE  \/ d \in handling \cup streamed /\ d[1] \in 1 .. Len(messages)
             \/ \E s \in to : d = <<n, s>>
  BY <1>1, <1>2, <1>5
<1>8. ASSUME NEW d \in handling' \cup streamed'
      PROVE  /\ subscription[d[2]].state # "new"
             /\ Within(messages'[d[1]].ns, messages'[d[1]].topic) = topicOf(d[2])
  <2>1. CASE d \in handling \cup streamed /\ d[1] \in 1 .. Len(messages)
    BY <1>2, <2>1 DEF BrokerIInv
  <2>2. CASE \E s \in to : d = <<n, s>>
    BY <1>2, <1>3, <2>2
  <2> QED
    BY <1>7, <2>1, <2>2
<1>9. ASSUME NEW d \in handling' \cup streamed', NEW e \in handling' \cup streamed',
             d[1] = e[1], queueOf(d[2]) = queueOf(e[2])
      PROVE  d = e
  <2>1. n \notin 1 .. Len(messages)
    BY <1>2
  <2>2. CASE d \in handling \cup streamed /\ d[1] \in 1 .. Len(messages)
    <3>1. e \in handling \cup streamed
      BY <1>7, <1>9, <2>1, <2>2
    <3> QED
      BY <1>9, <2>2, <3>1 DEF BrokerIInv
  <2>3. CASE \E s \in to : d = <<n, s>>
    <3>1. \E t \in to : e = <<n, t>>
      BY <1>7, <1>9, <2>1, <2>3
    <3> QED
      BY <1>4, <1>9, <2>3, <3>1
  <2> QED
    BY <1>7, <2>2, <2>3
<1> QED
  BY <1>2, <1>6, <1>8, <1>9 DEF BrokerIInv

LEMMA BrokerStepInv == BrokerIInv /\ BrokerNext => BrokerIInv'
<1> SUFFICES ASSUME BrokerIInv, BrokerNext
             PROVE  BrokerIInv'
  OBVIOUS
<1> USE DEF BrokerTypeOK, Subscriptions
<1>a. /\ BrokerTypeOK
      /\ \A d \in handling \cup streamed :
           d[2] \in BrokerStreams /\ subscription[d[2]].state # "new"
  BY DEF BrokerIInv
<1>2. ASSUME NEW d \in handling, Handle(d)
      PROVE  BrokerIInv'
  <2>1. /\ handling' \cup streamed' \subseteq handling \cup streamed
        /\ messages' = messages /\ d[2] \in BrokerStreams
        /\ \/ subscription' = subscription
           \/ subscription' = [subscription EXCEPT ![d[2]].errChan = 1]
    BY <1>a, <1>2 DEF Handle
  <2>2. BrokerTypeOK'
    <3>1. CASE subscription' = subscription
      BY <1>a, <2>1, <3>1
    <3>2. CASE subscription' = [subscription EXCEPT ![d[2]].errChan = 1]
      BY <1>a, <2>1, <3>2
    <3> QED
      BY <2>1, <3>1, <3>2
  <2>3. \A s \in BrokerStreams :
          /\ subscription'[s].ns = subscription[s].ns
          /\ subscription'[s].topic = subscription[s].topic
          /\ subscription'[s].queue = subscription[s].queue
          /\ subscription'[s].state = subscription[s].state
    BY <1>a, <2>1
  <2> QED
    BY <1>a, <2>1, <2>2, <2>3, NamesKept
<1>3. ASSUME NEW s \in BrokerStreams, SubscribeReturns(s) \/ SubscriberLeaves(s)
      PROVE  BrokerIInv'
  <2>1. /\ handling' = handling /\ streamed' = streamed /\ messages' = messages
        /\ \/ subscription' = [subscription EXCEPT ![s].state = "ended"]
           \/ subscription' = [subscription EXCEPT ![s].state = "ended", ![s].errChan = 0]
           \/ subscription' = [subscription EXCEPT ![s].client = FALSE]
    BY <1>3 DEF SubscribeReturns, SubscriberLeaves
  <2>2. BrokerTypeOK'
    <3>1. CASE subscription' = [subscription EXCEPT ![s].state = "ended"]
      BY <1>a, <2>1, <3>1
    <3>2. CASE subscription' = [subscription EXCEPT ![s].state = "ended", ![s].errChan = 0]
      <4>1. 0 \in 0 .. 1
        OBVIOUS
      <4>2. [subscription[s] EXCEPT !.state = "ended", !.errChan = 0] \in Subscriptions
        BY <1>a, <4>1
      <4>3. subscription' = [subscription EXCEPT
              ![s] = [subscription[s] EXCEPT !.state = "ended", !.errChan = 0]]
        BY <3>2
      <4> QED
        BY <1>a, <2>1, <4>2, <4>3
    <3>3. CASE subscription' = [subscription EXCEPT ![s].client = FALSE]
      BY <1>a, <2>1, <3>3
    <3> QED
      BY <2>1, <3>1, <3>2, <3>3
  <2>3. \A t \in BrokerStreams :
          /\ subscription'[t].ns = subscription[t].ns
          /\ subscription'[t].topic = subscription[t].topic
          /\ subscription'[t].queue = subscription[t].queue
          /\ subscription'[t].state \in {subscription[t].state, "ended"}
    BY <1>a, <2>1
  <2> QED
    BY <1>a, <2>1, <2>2, <2>3, NamesKept
<1>4. ASSUME NEW s \in BrokerStreams, NEW m \in Messages, NEW q \in Queues,
             Subscribe(s, m.ns, m.topic, q)
      PROVE  BrokerIInv'
  <2>1. PICK new \in Subscriptions : subscription' = [subscription EXCEPT ![s] = new]
    <3> DEFINE opened == [subscription[s] EXCEPT !.state = "open", !.ns = m.ns, !.topic = m.topic,
                                                !.queue = q]
               failed == [subscription[s] EXCEPT !.state = "ended"]
    <3>1. m.ns \in BrokerNamespaces /\ m.topic \in Topics
      BY DEF Messages
    <3>2. opened \in Subscriptions /\ failed \in Subscriptions
      BY <1>a, <3>1
    <3>3. \/ subscription' = [subscription EXCEPT ![s] = opened]
          \/ subscription' = [subscription EXCEPT ![s] = failed]
      BY <1>4 DEF Subscribe
    <3> HIDE DEF opened, failed
    <3> QED
      BY <3>2, <3>3
  <2>2. /\ handling' = handling /\ streamed' = streamed /\ messages' = messages
        /\ \A d \in handling \cup streamed : d[2] # s
    BY <1>4, <1>a DEF Subscribe
  <2>5. BrokerTypeOK'
    BY <1>a, <2>1, <2>2
  <2>6. \A d \in handling \cup streamed : subscription'[d[2]] = subscription[d[2]]
    BY <1>a, <2>1, <2>2
  <2> QED
    BY <1>a, <2>2, <2>5, <2>6, NamesKept
<1> QED
  BY <1>2, <1>3, <1>4, PublishInv DEF BrokerNext

\* Its property: what was published and what was subscribed to are the same to the
\* broker.
LEMMA BrokerFaithful == BrokerIInv => BrokerStreamsFaithful
<1> SUFFICES ASSUME BrokerIInv, NEW d \in handling \cup streamed, NEW e \in handling \cup streamed
             PROVE  /\ Nested(messages[d[1]].ns, subscription[d[2]].ns)
                    /\ messages[d[1]].ns = subscription[d[2]].ns
                         => messages[d[1]].topic = subscription[d[2]].topic
                    /\ /\ d[1] = e[1] /\ subscription[d[2]].ns = subscription[e[2]].ns
                       /\ subscription[d[2]].queue = subscription[e[2]].queue
                       => d = e
  BY DEF BrokerStreamsFaithful
<1>1. messages[d[1]] \in Messages /\ subscription[d[2]] \in Subscriptions
  BY DEF BrokerIInv, BrokerTypeOK
<1>2. /\ messages[d[1]].ns \in Seq(STRING) /\ messages[d[1]].topic \in Seq(STRING)
      /\ subscription[d[2]].ns \in Seq(STRING) /\ subscription[d[2]].topic \in Seq(STRING)
  BY <1>1, BrokerAssumption DEF Messages, Subscriptions
<1>3. Within(messages[d[1]].ns, messages[d[1]].topic)
        = Within(subscription[d[2]].ns, subscription[d[2]].topic)
  BY DEF BrokerIInv
<1> QED
  BY <1>2, <1>3, JoinedNames DEF BrokerIInv

-----------------------------------------------------------------------------
(***************************************************************************)
(* The router service.                                                     *)
(***************************************************************************)
LEMMA RouterInitInv == RouterInit => RouterIInv
<1> SUFFICES ASSUME RouterInit
             PROVE  RouterIInv
  OBVIOUS
<1>1. /\ errChan \in [Routers -> 0 .. 2] /\ routeEvents \in Nat
      /\ advertChan \in [Routers -> Seq(Events)] /\ table \in [Routers -> SUBSET Routes]
  BY DEF RouterInit
<1>2. NoRouteStream \in RouteStreamStates
  BY DEF NoRouteStream, RouteStreamStates
<1>3. RouterTypeOK
  BY <1>1, <1>2 DEF RouterInit, RouterTypeOK
<1> QED
  BY <1>1, <1>3 DEF RouterInit, RouterIInv, RunInStep

\* A change of a table, for the table and for the streams.
LEMMA TableChangeKeeps ==
  ASSUME RouterIInv, NEW r \in Routers, NEW event \in Events, NEW advertised \in BOOLEAN,
         TableChanged(r, event, advertised),
         UNCHANGED <<runs, errChan, publisher, server>>,
         onTopic' \subseteq onTopic
  PROVE  RouterIInv'
<1>1. Applied(event, table[r]) \in SUBSET Routes
  BY DEF Applied, Events, RouterIInv, RouterTypeOK
<1>2. table' \in [Routers -> SUBSET Routes] /\ routeEvents' \in Nat
  BY <1>1 DEF TableChanged, RouterIInv, RouterTypeOK
<1>3. advertChan' \in [Routers -> Seq(Events)]
  BY DEF TableChanged, RouterIInv, RouterTypeOK
<1>4. ASSUME NEW s \in RouterStreams
      PROVE  \/ routeStream'[s] = routeStream[s]
             \/ routeStream'[s] = [routeStream[s] EXCEPT !.events = routeStream[s].events + 1]
  BY DEF TableChanged
<1>5. routeStream' \in [RouterStreams -> RouteStreamStates]
  <2>1. \A e \in RouteStreamStates : [e EXCEPT !.events = e.events + 1] \in RouteStreamStates
    BY DEF RouteStreamStates
  <2>2. \A s \in RouterStreams : routeStream[s] \in RouteStreamStates
    BY DEF RouterIInv, RouterTypeOK
  <2>3. routeStream' = [s \in RouterStreams |-> routeStream'[s]]
    BY DEF TableChanged
  <2> QED
    BY <1>4, <2>1, <2>2, <2>3
<1> QED
  BY <1>2, <1>3, <1>5 DEF RouterIInv, RouterTypeOK, RunInStep

LEMMA RouterStepInv == RouterIInv /\ RouterNext => RouterIInv'
<1> SUFFICES ASSUME RouterIInv, RouterNext
             PROVE  RouterIInv'
  OBVIOUS
<1> USE DEF RouterIInv
<1>1. ASSUME NEW r \in Routers, StartRouter(r) \/ StartAdvertising(r)
      PROVE  RouterIInv'
  <2>1. RouterTypeOK'
    BY <1>1 DEF StartRouter, StartAdvertising, RouterTypeOK
  <2>2. RunInStep'
    BY <1>1 DEF StartRouter, StartAdvertising, RouterTypeOK, RunInStep
  <2> QED
    BY <2>1, <2>2
<1>2. ASSUME NEW r \in Routers, ServerReturns(r)
      PROVE  RouterIInv'
  <2>1. /\ errChan[r] \in 0 .. 1 /\ errChan' = [errChan EXCEPT ![r] = errChan[r] + 1]
        /\ publisher[r] => errChan[r] = 0
        /\ server' = [server EXCEPT ![r] = FALSE] /\ runs[r] \in {"serving", "stopping"}
    BY <1>2 DEF ServerReturns, Serving, RouterTypeOK, RunInStep
  <2>2. errChan' \in [Routers -> 0 .. 2] /\ server' \in [Routers -> BOOLEAN]
    BY <2>1 DEF RouterTypeOK
  <2>3. RouterTypeOK'
    BY <1>2, <2>2 DEF ServerReturns, RouterTypeOK
  <2>4. RunInStep'
    BY <1>2, <2>1 DEF ServerReturns, RouterTypeOK, RunInStep
  <2> QED
    BY <2>3, <2>4
<1>3. ASSUME NEW r \in Routers, FirstResult(r)
      PROVE  RouterIInv'
  <2>1. /\ errChan[r] \in 1 .. 2 /\ errChan' = [errChan EXCEPT ![r] = errChan[r] - 1]
        /\ runs' = [runs EXCEPT ![r] = "stopping"]
    BY <1>3 DEF FirstResult, RouterTypeOK
  <2>2. errChan' \in [Routers -> 0 .. 2]
    BY <2>1 DEF RouterTypeOK
  <2>3. RouterTypeOK'
    BY <1>3, <2>2 DEF FirstResult, RouterTypeOK
  <2>4. RunInStep'
    BY <1>3, <2>1 DEF FirstResult, RouterTypeOK, RunInStep
  <2> QED
    BY <2>3, <2>4
<1>4. ASSUME NEW r \in Routers, StopRouter(r)
      PROVE  RouterIInv'
  <2>1. EndedRouteStream \in RouteStreamStates
    BY DEF EndedRouteStream, NoRouteStream, RouteStreamStates
  <2>2. routeStream' \in [RouterStreams -> RouteStreamStates]
    BY <1>4, <2>1 DEF StopRouter, RouterTypeOK
  <2>3. errChan' \in [Routers -> 0 .. 2] /\ advertChan' \in [Routers -> Seq(Events)]
    BY <1>4 DEF StopRouter, RouterTypeOK
  <2>4. RouterTypeOK'
    BY <1>4, <2>2, <2>3 DEF StopRouter, RouterTypeOK
  <2>5. RunInStep'
    BY <1>4 DEF StopRouter, RouterTypeOK, RunInStep
  <2> QED
    BY <2>4, <2>5
<1>5. ASSUME NEW r \in Routers, PublishAdvert(r)
      PROVE  RouterIInv'
  <2>1. /\ Head(advertChan[r]) \in Events /\ Tail(advertChan[r]) \in Seq(Events)
        /\ errChan[r] \in 0 .. 1
    BY <1>5 DEF PublishAdvert, RouterTypeOK, RunInStep
  <2>2. TopicAdvert(r, Head(advertChan[r])) \in [id : Routers, event : Events]
    BY <2>1 DEF TopicAdvert, Event, Events, Routes
  <2>3. errChan' \in [Routers -> 0 .. 2] /\ publisher' \in [Routers -> BOOLEAN]
    <3>1. errChan[r] + 1 \in 0 .. 2
      BY <2>1
    <3> QED
      BY <1>5, <3>1 DEF PublishAdvert, RouterTypeOK
  <2>4. /\ onTopic' \subseteq Routers \X [id : Routers, event : Events]
        /\ advertChan' \in [Routers -> Seq(Events)]
    BY <1>5, <2>1, <2>2 DEF PublishAdvert, RouterTypeOK
  <2>5. RouterTypeOK'
    BY <1>5, <2>3, <2>4 DEF PublishAdvert, RouterTypeOK
  <2>6. RunInStep'
    <3>1. /\ runs' = runs /\ server' = server /\ runs[r] \in {"serving", "stopping"} /\ publisher[r]
          /\ \/ publisher' = publisher /\ errChan' = errChan
             \/ /\ publisher' = [publisher EXCEPT ![r] = FALSE]
                /\ errChan' = [errChan EXCEPT ![r] = errChan[r] + 1]
      BY <1>5 DEF PublishAdvert, Serving
    <3>2. CASE publisher' = publisher /\ errChan' = errChan
      BY <3>1, <3>2 DEF RunInStep
    <3>3. CASE /\ publisher' = [publisher EXCEPT ![r] = FALSE]
               /\ errChan' = [errChan EXCEPT ![r] = errChan[r] + 1]
      <4>1. ASSUME NEW q \in Routers, q # r
            PROVE  publisher'[q] = publisher[q] /\ errChan'[q] = errChan[q]
        BY <3>3, <4>1 DEF RouterTypeOK
      <4>2. publisher'[r] = FALSE /\ errChan'[r] \in 1 .. 2 /\ (server[r] => errChan'[r] <= 1)
        BY <2>1, <3>1, <3>3 DEF RouterTypeOK, RunInStep
      <4>3. runs[r] \notin {"start", "advertise"}
        BY <3>1
      <4> QED
        BY <3>1, <4>1, <4>2, <4>3 DEF RunInStep
    <3> QED
      BY <3>1, <3>2, <3>3
  <2> QED
    BY <2>5, <2>6
<1>6. ASSUME NEW r \in Routers, NEW d \in onTopic, ProcessAdvert(r, d[2])
      PROVE  RouterIInv'
  <2>1. /\ d[2].event \in Events /\ onTopic' \subseteq onTopic
        /\ UNCHANGED <<runs, errChan, publisher, server>>
    BY <1>6 DEF ProcessAdvert, RouterTypeOK
  <2>2. CASE UNCHANGED <<advertChan, table, routeEvents, routeStream>>
    BY <2>1, <2>2 DEF RouterTypeOK, RunInStep
  <2>3. CASE TableChanged(r, d[2].event, FALSE)
    BY <2>1, <2>3, TableChangeKeeps
  <2> QED
    BY <1>6, <2>2, <2>3 DEF ProcessAdvert
<1>7. ASSUME NEW r \in Routers, NEW n \in RouteNames, NEW q \in NamedRouters,
             LET route == [service |-> n, router |-> q]
             IN \/ Create(r, route) \/ Update(r, route) \/ Delete(r, route)
                \/ \E type \in {"create", "update", "delete"} : Process(r, Event(type, route))
      PROVE  RouterIInv'
  <2> DEFINE route == [service |-> n, router |-> q]
  <2>1. \A type \in {"create", "update", "delete"} : Event(type, route) \in Events
    BY RouterAssumption DEF Event, Events, Routes
  <2>2. PICK type \in {"create", "update", "delete"}, advertised \in BOOLEAN :
          /\ TableChanged(r, Event(type, route), advertised)
          /\ UNCHANGED <<runs, errChan, publisher, server, onTopic>>
    BY <1>7 DEF Create, Update, Delete, Changed, Process
  <2> QED
    BY <2>1, <2>2, TableChangeKeeps
<1>8. ASSUME NEW s \in RouterStreams, NEW r \in Routers, NEW kind \in {"advertise", "watch"},
             OpenRouteStream(s, r, kind)
      PROVE  RouterIInv'
  <2> DEFINE opened == [routeStream[s] EXCEPT !.state = "open", !.kind = kind,
                                              !.at = r, !.subscribed = TRUE]
  <2>1. opened \in RouteStreamStates
    BY DEF RouterTypeOK, RouteStreamStates
  <2>2. routeStream' = [routeStream EXCEPT ![s] = opened]
    BY <1>8 DEF OpenRouteStream
  <2> HIDE DEF opened
  <2> QED
    BY <1>8, <2>1, <2>2 DEF OpenRouteStream, RouterTypeOK, RunInStep
<1>9. ASSUME NEW s \in RouterStreams, StreamEvent(s)
      PROVE  RouterIInv'
  <2> DEFINE old == routeStream[s]
             sent == [old EXCEPT !.events = old.events - 1]
             over == [old EXCEPT !.events = old.events - 1, !.state = "ended",
                                 !.subscribed = old.kind = "advertise"]
  <2>1. old \in RouteStreamStates /\ old.events \in Nat \ {0} /\ old.events - 1 \in Nat
    BY <1>9 DEF StreamEvent, RouterTypeOK, RouteStreamStates
  <2>2. sent \in RouteStreamStates /\ over \in RouteStreamStates
    BY <2>1 DEF RouteStreamStates
  <2>3. \/ routeStream' = [routeStream EXCEPT ![s] = sent]
        \/ routeStream' = [routeStream EXCEPT ![s] = over]
    BY <1>9 DEF StreamEvent
  <2> HIDE DEF sent, over
  <2>4. routeStream' \in [RouterStreams -> RouteStreamStates]
    BY <2>2, <2>3 DEF RouterTypeOK
  <2>5. UNCHANGED <<runs, errChan, publisher, server, advertChan, onTopic, table, routeEvents>>
    BY <1>9 DEF StreamEvent
  <2> QED
    BY <2>4, <2>5 DEF RouterTypeOK, RunInStep
<1>10. ASSUME NEW s \in RouterStreams, RouteClientLeaves(s)
       PROVE  RouterIInv'
  BY <1>10 DEF RouteClientLeaves, RouterTypeOK, RouteStreamStates, RunInStep
<1> QED
  BY <1>1, <1>2, <1>3, <1>4, <1>5, <1>6, <1>7, <1>8, <1>9, <1>10 DEF RouterNext, Proceeds

-----------------------------------------------------------------------------
(***************************************************************************)
(* The scheduler of the runtime.                                           *)
(***************************************************************************)
LEMMA InitServicesAreTheirs == InitServices \in Seq(ToSet(InitServices))
<1>1. InitServices \in Seq(STRING)
  BY SchedulerAssumption
<1>2. \A i \in 1 .. Len(InitServices) : InitServices[i] \in ToSet(InitServices)
  BY <1>1 DEF ToSet
<1> QED
  BY <1>1, <1>2

LEMMA SchedulerInitInv == SchedulerInit => SchedulerTypeOK
<1> SUFFICES ASSUME SchedulerInit
             PROVE  SchedulerTypeOK
  OBVIOUS
<1>1. /\ fileChanges \in 0 .. MaxFileChanges /\ fsEvents \in Nat
      /\ update \in 0 .. ChannelSize /\ notify \in 0 .. ChannelSize
      /\ Len(evChan) <= ChannelSize
  BY SchedulerAssumption DEF SchedulerInit
<1>2. forwarding \in Seq(ToSet(InitServices)) /\ evChan \in Seq(ToSet(InitServices))
  BY DEF SchedulerInit
<1> QED
  BY <1>1, <1>2 DEF SchedulerInit, SchedulerTypeOK

LEMMA OfferFits == \A n \in 0 .. ChannelSize : Offer(n) \in 0 .. ChannelSize
  BY SchedulerAssumption DEF Offer

LEMMA SchedulerStepInv == SchedulerTypeOK /\ SchedulerNext => SchedulerTypeOK'
<1> SUFFICES ASSUME SchedulerTypeOK, SchedulerNext
             PROVE  SchedulerTypeOK'
  OBVIOUS
<1> DEFINE V == ToSet(InitServices)
<1> USE DEF SchedulerTypeOK
<1>1. CASE FileChanges
  <2>1. fileChanges' \in 0 .. MaxFileChanges /\ fsEvents' \in Nat
    BY <1>1, SchedulerAssumption DEF FileChanges
  <2> QED
    BY <1>1, <2>1 DEF FileChanges
<1>2. CASE Notify \/ CloseExit \/ RunExits
  BY <1>2 DEF Notify, CloseExit, RunExits
<1>3. CASE CloseWatcher \/ RunFsError
  <2>1. 0 \in Nat
    OBVIOUS
  <2> QED
    BY <1>3, <2>1 DEF CloseWatcher, RunFsError
<1>4. CASE RunUpdate
  <2>1. update' \in 0 .. ChannelSize /\ notify' \in 0 .. ChannelSize
    BY <1>4, OfferFits, SchedulerAssumption DEF RunUpdate
  <2> QED
    BY <1>4, <2>1 DEF RunUpdate
<1>5. CASE RunFsEvent
  <2>1. update' \in 0 .. ChannelSize /\ fsEvents' \in Nat
    BY <1>5, OfferFits, SchedulerAssumption DEF RunFsEvent
  <2> QED
    BY <1>5, <2>1 DEF RunFsEvent
<1>6. CASE ForwardTakes
  <2>1. notify' \in 0 .. ChannelSize /\ forwarding' \in Seq(V)
    BY <1>6, InitServicesAreTheirs, SchedulerAssumption DEF ForwardTakes
  <2> QED
    BY <1>6, <2>1 DEF ForwardTakes
<1>7. CASE ForwardSends
  <2>1. /\ Head(forwarding) \in V /\ Tail(forwarding) \in Seq(V)
        /\ Len(evChan) \in Nat /\ Len(evChan) < ChannelSize
    BY <1>7 DEF ForwardSends
  <2>2. evChan' \in Seq(V) /\ Len(evChan') = Len(evChan) + 1
    BY <1>7, <2>1 DEF ForwardSends
  <2>3. Len(evChan') <= ChannelSize
    BY <2>1, <2>2, SchedulerAssumption
  <2> QED
    BY <1>7, <2>1, <2>2, <2>3 DEF ForwardSends
<1>8. CASE RuntimeTakes
  <2>1. evChan' \in Seq(V) /\ Len(evChan') <= ChannelSize
    BY <1>8, SchedulerAssumption DEF RuntimeTakes
  <2> QED
    BY <1>8, <2>1 DEF RuntimeTakes
<1> QED
  BY <1>1, <1>2, <1>3, <1>4, <1>5, <1>6, <1>7, <1>8 DEF SchedulerNext, SchedulerProceeds

-----------------------------------------------------------------------------
(***************************************************************************)
(* The bot.                                                                *)
(***************************************************************************)
LEMMA BotInitInv == BotInit => BotIInv
<1> SUFFICES ASSUME BotInit
             PROVE  BotIInv
  OBVIOUS
<1>1. results = <<>> /\ results \in Seq(Results)
  BY DEF BotInit
<1> QED
  BY <1>1 DEF BotInit, BotIInv, BotTypeOK, Watching, Told, Served, Nodes

\* The results that are still to be read, with the map and the registry that they
\* are about.
LEMMA ResultsType ==
  ASSUME BotTypeOK
  PROVE  /\ results \in Seq(Results) /\ Len(results) \in Nat
         /\ \A i \in 1 .. Len(results) : results[i] \in Results
<1>1. results \in Seq(Results)
  BY DEF BotTypeOK
<1> QED
  BY <1>1

LEMMA FirstIsRead ==
  ASSUME BotTypeOK, results # <<>>
  PROVE  /\ Head(results) = results[1] /\ 1 \in 1 .. Len(results)
         /\ Tail(results) \in Seq(Results) /\ Len(Tail(results)) = Len(results) - 1
         /\ \A i \in 1 .. Len(Tail(results)) :
              i + 1 \in 1 .. Len(results) /\ Tail(results)[i] = results[i + 1]
  BY ResultsType

\* When the first result has been read, what was the last one of a service is it
\* still, and it is pending yet, but for the first one's.
LEMMA RestIsPending ==
  ASSUME BotTypeOK, results # <<>>, results' = Tail(results)
  PROVE  /\ \A i \in 1 .. Len(results') :
              LastResult(i)' => LastResult(i + 1) /\ results'[i] = results[i + 1]
         /\ \A s : Pending(s) => Pending(s)' \/ s = Head(results).service
         /\ \A s : s = Head(results).service /\ ~Pending(s)' => LastResult(1)
<1>1. ASSUME NEW i \in 1 .. Len(results'), LastResult(i)', NEW j \in 1 .. Len(results), j > i + 1
      PROVE  results[j].service # results[i + 1].service
  <2>1. j - 1 \in 1 .. Len(results') /\ j - 1 > i /\ results'[j - 1] = results[j]
    BY <1>1, FirstIsRead, ResultsType
  <2> QED
    BY <1>1, <2>1, FirstIsRead DEF LastResult
<1>2. ASSUME NEW s, Pending(s), s # Head(results).service
      PROVE  Pending(s)'
  <2>1. PICK i \in 1 .. Len(results) : results[i].service = s
    BY <1>2 DEF Pending
  <2>2. i - 1 \in 1 .. Len(results') /\ results'[i - 1] = results[i]
    BY <1>2, <2>1, FirstIsRead, ResultsType
  <2> QED
    BY <2>1, <2>2 DEF Pending
<1>3. ASSUME NEW s, s = Head(results).service, ~Pending(s)', NEW j \in 1 .. Len(results), j > 1
      PROVE  results[j].service # results[1].service
  <2>1. j - 1 \in 1 .. Len(results') /\ results'[j - 1] = results[j]
    BY <1>3, FirstIsRead, ResultsType
  <2>2. Head(results) = results[1]
    BY FirstIsRead
  <2>3. results'[j - 1].service # s
    BY <1>3, <2>1 DEF Pending
  <2> QED
    BY <1>3, <2>1, <2>2, <2>3
<1>4. \A i \in 1 .. Len(results') : i + 1 \in 1 .. Len(results) /\ results'[i] = results[i + 1]
  BY FirstIsRead
<1> QED
  BY <1>1, <1>2, <1>3, <1>4 DEF LastResult

\* A result that is appended is the last one of its service.
LEMMA ResultAppended ==
  ASSUME BotTypeOK, NEW r \in Results, results' = Append(results, r)
  PROVE  /\ results' \in Seq(Results) /\ Len(results') = Len(results) + 1
         /\ results'[Len(results) + 1] = r
         /\ \A i \in 1 .. Len(results) : results'[i] = results[i]
         /\ \A i \in 1 .. Len(results) :
              LastResult(i)' => LastResult(i) /\ results[i].service # r.service
         /\ \A s : Pending(s)' <=> Pending(s) \/ s = r.service
<1>1. /\ results' \in Seq(Results) /\ Len(results') = Len(results) + 1 /\ Len(results) \in Nat
      /\ results'[Len(results) + 1] = r
      /\ \A i \in 1 .. Len(results) : results'[i] = results[i]
  BY ResultsType
<1>2. \A i \in 1 .. Len(results) : i \in 1 .. Len(results') /\ Len(results) + 1 > i
  BY <1>1
<1>3. Len(results) + 1 \in 1 .. Len(results')
  BY <1>1
<1>4. \A i \in 1 .. Len(results') : i \in 1 .. Len(results) \/ i = Len(results) + 1
  BY <1>1
<1>5. ASSUME NEW i \in 1 .. Len(results), LastResult(i)'
      PROVE  LastResult(i) /\ results[i].service # r.service
  BY <1>1, <1>2, <1>3, <1>5 DEF LastResult
<1>6. \A s : Pending(s)' <=> Pending(s) \/ s = r.service
  BY <1>1, <1>2, <1>3, <1>4 DEF Pending
<1> QED
  BY <1>1, <1>5, <1>6

\* The steps that touch neither the map, nor the registry, nor the results.
LEMMA BotRestInv ==
  ASSUME BotIInv, UNCHANGED <<available, watchVars, doubtful, partly>>,
         loopPc' \in [Inputs -> {"loop", "recv", "process", "ended"}],
         inputStop' \in [Inputs -> {"no", "done", "failed"}], fatal' \in BOOLEAN
  PROVE  BotIInv'
<1>1. Told' = Told /\ (Watching' <=> Watching)
  BY DEF Told, Served, Nodes, Watching, watchVars
<1> QED
  BY <1>1 DEF BotIInv, BotTypeOK, watchVars, LastResult, Pending

LEMMA BotRegistryChangesInv ==
  ASSUME BotIInv, NEW s \in BotServices, NEW n \in BotNodes, BotRegistryChanges(s, n)
  PROVE  BotIInv'
<1> DEFINE action == IF <<s, n>> \in available THEN "delete" ELSE "create"
           r == [action |-> action, service |-> s]
<1>1. /\ available' = IF <<s, n>> \in available THEN available \ {<<s, n>>} ELSE available \cup {<<s, n>>}
      /\ results' = IF Watching THEN Append(results, r) ELSE results
      /\ partly' = IF Watching /\ <<s, n>> \in available /\ Nodes(s) # {n} THEN partly \cup {s}
                   ELSE partly \ {s}
      /\ doubtful' = IF watcherPc \in {"help", "lock", "watch"} THEN doubtful \cup {s} ELSE doubtful
      /\ UNCHANGED <<watcherPc, toHelp, services, shared, loopPc, inputStop, fatal>>
  BY DEF BotRegistryChanges, loopVars
<1>2. BotTypeOK
  BY DEF BotIInv
<1>3. available' \subseteq BotServices \X BotNodes /\ doubtful' \subseteq BotServices
      /\ partly' \subseteq BotServices
  BY <1>1, <1>2 DEF BotTypeOK
\* The other services are as they were, and this one is as its result tells.
<1>4. ASSUME NEW t \in BotServices, t # s
      PROVE  t \in Told' <=> t \in Told
  <2>1. Nodes(t)' = Nodes(t)
    BY <1>1, <1>4 DEF Nodes
  <2> QED
    BY <1>1, <1>4, <2>1 DEF Told, Served
<1>5. ASSUME Watching
      PROVE  action = "create" <=> s \in Told'
  <2>1. CASE <<s, n>> \in available
    <3>1. Nodes(s)' = Nodes(s) \ {n} /\ n \in Nodes(s)
      BY <1>1, <2>1 DEF Nodes
    <3>2. s \notin Told'
      BY <1>1, <1>5, <2>1, <3>1 DEF Told, Served
    <3> QED
      BY <2>1, <3>2
  <2>2. CASE <<s, n>> \notin available
    <3>1. n \in Nodes(s)'
      BY <1>1, <2>2 DEF Nodes
    <3>2. s \in Told'
      BY <1>1, <2>2, <3>1 DEF Told, Served
    <3> QED
      BY <2>2, <3>2
  <2> QED
    BY <2>1, <2>2
<1>6. r \in Results /\ r.service = s /\ r.action = action /\ (Watching' <=> Watching)
  BY <1>1 DEF Results, Watching
<1> HIDE DEF r, action
<1>7. CASE Watching
  <2>1. results' = Append(results, r) /\ doubtful' = doubtful
    BY <1>1, <1>7 DEF Watching
  <2>2. /\ results' \in Seq(Results) /\ Len(results') = Len(results) + 1 /\ Len(results) \in Nat
        /\ results'[Len(results) + 1] = r
        /\ \A i \in 1 .. Len(results) : results'[i] = results[i]
        /\ \A i \in 1 .. Len(results) :
             LastResult(i)' => LastResult(i) /\ results[i].service # s
        /\ \A t : Pending(t)' <=> Pending(t) \/ t = s
    BY <1>2, <1>6, <2>1, ResultAppended, ResultsType
  <2>4. BotTypeOK'
    BY <1>1, <1>2, <1>3, <2>2 DEF BotTypeOK
  <2>5. watcherPc \in {"delete", "create"} => results' # <<>> /\ Head(results').action = watcherPc
    <3>1. ASSUME watcherPc \in {"delete", "create"}
          PROVE  results # <<>> /\ Head(results).action = watcherPc
      BY <3>1 DEF BotIInv
    <3>2. ASSUME results # <<>>
          PROVE  results' # <<>> /\ Head(results') = Head(results)
      <4>1. 1 \in 1 .. Len(results) /\ Head(results) = results[1]
        BY <1>2, <3>2, FirstIsRead
      <4>2. results' # <<>> /\ Head(results') = results'[1]
        BY <2>2
      <4> QED
        BY <2>2, <4>1, <4>2
    <3> QED
      BY <3>1, <3>2
  <2>6. \A t \in BotServices \ doubtful : Pending(t)' \/ (t \in services <=> t \in Told')
    BY <1>4, <1>7, <2>2 DEF BotIInv
  <2>7. ASSUME NEW i \in 1 .. Len(results'), LastResult(i)'
        PROVE  results'[i].action = "create" <=> results'[i].service \in Told'
    <3>1. CASE i \in 1 .. Len(results)
      <4>1. results'[i] = results[i] /\ LastResult(i) /\ results[i].service # s
        BY <2>2, <2>7, <3>1
      <4>2. results[i].action = "create" <=> results[i].service \in Told
        BY <1>7, <3>1, <4>1 DEF BotIInv
      <4>3. results[i].service \in BotServices
        BY <1>2, <3>1, ResultsType DEF Results
      <4> QED
        BY <1>4, <4>1, <4>2, <4>3
    <3>2. CASE i = Len(results) + 1
      BY <1>5, <1>6, <1>7, <2>2, <3>2
    <3>3. i \in 1 .. Len(results) \/ i = Len(results) + 1
      BY <2>2
    <3> QED
      BY <3>1, <3>2, <3>3
  <2>8. watcherPc' \in {"next", "delete", "create", "relock"} /\ watcherPc' = watcherPc
    BY <1>1, <1>7 DEF Watching
  <2> QED
    BY <1>1, <1>7, <2>1, <2>4, <2>5, <2>6, <2>7, <2>8 DEF BotIInv
<1>8. CASE watcherPc \in {"help", "lock", "watch"}
  <2>1. BotTypeOK' /\ ~Watching /\ ~Watching'
    BY <1>1, <1>2, <1>3, <1>8 DEF BotTypeOK, Watching
  <2>2. partly' = {} /\ results' = <<>>
    BY <1>1, <1>8, <2>1 DEF BotIInv
  <2>3. \A t \in BotServices \ doubtful' : t \in services \cup toHelp <=> t \in Told'
    BY <1>1, <1>4, <1>8 DEF BotIInv
  <2> QED
    BY <1>1, <1>8, <2>1, <2>2, <2>3 DEF BotIInv
<1>9. CASE watcherPc \in {"list", "ended"}
  <2>1. BotTypeOK' /\ ~Watching /\ ~Watching'
    BY <1>1, <1>2, <1>3, <1>9 DEF BotTypeOK, Watching
  <2>2. watcherPc = "list" => partly' = {} /\ results' = <<>>
    BY <1>1, <2>1 DEF BotIInv
  <2> QED
    BY <1>1, <1>9, <2>1, <2>2 DEF BotIInv
<1> QED
  BY <1>2, <1>7, <1>8, <1>9 DEF BotTypeOK, Watching

\* watch, up to its first result.
LEMMA WatchBeginsInv ==
  ASSUME BotIInv, WatchLists \/ WatchHelps \/ WatchShares \/ WatchWatches
  PROVE  BotIInv'
<1>0. BotTypeOK /\ Told' = Told /\ UNCHANGED <<available, partly, results, loopPc, inputStop, fatal>>
  BY DEF Told, Served, Nodes, WatchLists, WatchHelps, WatchShares, WatchWatches, BotIInv, loopVars
<1>s. Served \subseteq BotServices
  BY DEF Served
<1> USE DEF BotTypeOK, LastResult, Pending, Watching
<1>1. CASE WatchLists
  <2>1. partly = {} => Told = Served
    BY DEF Told
  <2> QED
    BY <1>0, <1>s, <1>1, <2>1 DEF WatchLists, BotIInv
<1>2. CASE WatchHelps
  BY <1>0, <1>2 DEF WatchHelps, BotIInv
<1>3. CASE WatchShares
  BY <1>0, <1>3 DEF WatchShares, BotIInv
<1>4. CASE WatchWatches
  <2>1. \A i : i \notin 1 .. Len(<<>>)
    OBVIOUS
  <2> QED
    BY <1>0, <1>4, <2>1 DEF WatchWatches, BotIInv
<1> QED
  BY <1>1, <1>2, <1>3, <1>4

LEMMA WatchNextInv ==
  ASSUME BotIInv, WatchNext
  PROVE  BotIInv'
<1>1. BotTypeOK /\ watcherPc = "next"
  BY DEF BotIInv, Watching, WatchNext
<1>2. /\ UNCHANGED <<available, partly, toHelp, services, shared, loopPc, inputStop, fatal>>
      /\ Told' = Told
  BY DEF WatchNext, loopVars, Told, Served, Nodes
<1>3. CASE results # <<>> /\ watcherPc' = Head(results).action /\ UNCHANGED <<results, doubtful>>
  <2>1. watcherPc' \in {"create", "delete"}
    BY <1>1, <1>3, FirstIsRead, ResultsType DEF Results
  <2>2. BotTypeOK'
    BY <1>1, <1>2, <1>3, <2>1 DEF BotTypeOK
  <2> QED
    BY <1>1, <1>2, <1>3, <2>1, <2>2 DEF BotIInv, Watching, LastResult, Pending
<1>4. CASE results # <<>> /\ results' = Tail(results) /\ watcherPc' = watcherPc
           /\ doubtful' = doubtful \cup {Head(results).service}
  <2>1. /\ Tail(results) \in Seq(Results) /\ Head(results) \in Results
        /\ \A i \in 1 .. Len(results') : i + 1 \in 1 .. Len(results)
    BY <1>1, <1>4, FirstIsRead, ResultsType
  <2>2. BotTypeOK'
    BY <1>1, <1>2, <1>4, <2>1 DEF BotTypeOK, Results
  <2>3. \A t \in BotServices \ doubtful' : Pending(t)' \/ (t \in services <=> t \in Told)
    BY <1>1, <1>4, RestIsPending DEF BotIInv, Watching
  <2>4. \A i \in 1 .. Len(results') :
          LastResult(i)' => (results'[i].action = "create" <=> results'[i].service \in Told)
    BY <1>1, <1>4, <2>1, RestIsPending DEF BotIInv, Watching
  <2> QED
    BY <1>1, <1>2, <1>4, <2>2, <2>3, <2>4 DEF BotIInv, Watching
<1>5. CASE watcherPc' = "ended" /\ UNCHANGED <<results, doubtful>>
  <2>1. BotTypeOK'
    BY <1>1, <1>2, <1>5 DEF BotTypeOK
  <2> QED
    BY <1>5, <2>1 DEF BotIInv, Watching
<1> QED
  BY <1>3, <1>4, <1>5 DEF WatchNext

LEMMA WatchChangesInv ==
  ASSUME BotIInv, WatchChanges
  PROVE  BotIInv'
<1> DEFINE s == Head(results).service
<1>1. /\ BotTypeOK /\ watcherPc \in {"delete", "create"}
      /\ results # <<>> /\ Head(results).action = watcherPc
      /\ services' = IF watcherPc = "delete" THEN services \ {s} ELSE services \cup {s}
      /\ results' = Tail(results) /\ watcherPc' = "relock"
      /\ UNCHANGED <<available, partly, toHelp, shared, doubtful, loopPc, inputStop, fatal>>
      /\ Told' = Told
  BY DEF BotIInv, Watching, WatchChanges, loopVars, Told, Served, Nodes
<1>2. /\ Tail(results) \in Seq(Results) /\ Head(results) \in Results /\ Head(results) = results[1]
      /\ 1 \in 1 .. Len(results)
      /\ \A i \in 1 .. Len(results') : i + 1 \in 1 .. Len(results)
  BY <1>1, FirstIsRead, ResultsType
<1>3. s \in BotServices
  BY <1>2 DEF Results
<1> HIDE DEF s
<1>4. BotTypeOK'
  BY <1>1, <1>2, <1>3 DEF BotTypeOK
<1>5. LastResult(1) => (watcherPc = "create" <=> s \in Told)
  BY <1>1, <1>2 DEF BotIInv, Watching, s
<1>6. ASSUME NEW t \in BotServices \ doubtful, ~Pending(t)'
      PROVE  t \in services' <=> t \in Told
  <2>1. CASE t = s
    <3>1. LastResult(1)
      BY <1>1, <1>6, <2>1, RestIsPending DEF s
    <3> QED
      BY <1>1, <1>5, <2>1, <3>1
  <2>2. CASE t # s
    <3>1. ~Pending(t)
      BY <1>1, <1>6, <2>2, RestIsPending DEF s
    <3>2. t \in services <=> t \in Told
      BY <1>1, <3>1 DEF BotIInv, Watching
    <3> QED
      BY <1>1, <2>2, <3>2
  <2> QED
    BY <2>1, <2>2
<1>7. \A i \in 1 .. Len(results') :
        LastResult(i)' => (results'[i].action = "create" <=> results'[i].service \in Told)
  BY <1>1, <1>2, RestIsPending DEF BotIInv, Watching
<1> QED
  BY <1>1, <1>4, <1>6, <1>7 DEF BotIInv, Watching

LEMMA BotStepInv == BotIInv /\ BotNext => BotIInv'
<1> SUFFICES ASSUME BotIInv, BotNext
             PROVE  BotIInv'
  OBVIOUS
<1>1. ASSUME NEW io \in Inputs,
             LoopStreams(io) \/ LoopReceives(io) \/ LoopProcesses(io) \/ StopInput(io)
      PROVE  BotIInv'
  <2>1. /\ UNCHANGED <<available, watchVars, doubtful, partly>>
        /\ loopPc' \in [Inputs -> {"loop", "recv", "process", "ended"}] /\ fatal' \in BOOLEAN
        /\ inputStop' \in [Inputs -> {"no", "done", "failed"}]
    BY <1>1 DEF LoopStreams, LoopReceives, LoopProcesses, StopInput, BotIInv, BotTypeOK
  <2> QED
    BY <2>1, BotRestInv
<1>2. ASSUME BotExits
      PROVE  BotIInv'
  BY <1>2, BotRestInv DEF BotExits, BotIInv, BotTypeOK
<1> QED
  BY <1>1, <1>2, BotRegistryChangesInv, WatchBeginsInv, WatchNextInv, WatchChangesInv
     DEF BotNext, BotProceeds

-----------------------------------------------------------------------------
(***************************************************************************)
(* The Run functions.  Their steps are in order, one function at a time.   *)
(***************************************************************************)
LEMMA RunsInOrder == \A p \in DOMAIN Runs : StepsInOrder(p)
<1> USE DEF StepsInOrder, Starts, Stops, Defers, Try, Start, Stop, Defer, Serve, ServeHttp, Listen,
            Await
<1>1. /\ Runs["registry"] = RunRegistry /\ Runs["config"] = RunConfig /\ Runs["auth"] = RunAuth
      /\ Runs["authApi"] = RunAuthApi /\ Runs["broker"] = RunBroker /\ Runs["store"] = RunStore
      /\ Runs["debug"] = RunDebug /\ Runs["health"] = RunHealth /\ Runs["runtime"] = RunRuntime
      /\ Runs["command"] = RunCommand /\ Runs["service"] = RunService /\ Runs["init"] = RunInit
      /\ Runs["server"] = RunServer /\ Runs["api"] = RunApi /\ Runs["web"] = RunWeb
      /\ Runs["proxy"] = RunProxy /\ Runs["bot"] = RunBot
  BY DEF Runs
<1>2. \A p \in {"registry", "config", "auth", "authApi", "broker", "store", "health", "service"} :
        StepsInOrder(p)
  BY <1>1, SMTT(60) DEF RunRegistry, RunConfig, RunAuth, RunAuthApi, RunBroker, RunStore, RunHealth,
                        RunService
<1>3. StepsInOrder("debug") /\ StepsInOrder("runtime")
  BY <1>1, SMTT(60) DEF RunDebug, RunRuntime
<1>4. StepsInOrder("command") /\ StepsInOrder("bot")
  BY <1>1, SMTT(60) DEF RunCommand, RunBot
<1>5. StepsInOrder("init") /\ StepsInOrder("server")
  BY <1>1, SMTT(60) DEF RunInit, RunServer
<1>6. StepsInOrder("api")
  BY <1>1, SMTT(60) DEF RunApi
<1>7. StepsInOrder("web")
  BY <1>1, SMTT(60) DEF RunWeb
<1>8. StepsInOrder("proxy")
  BY <1>1, SMTT(60) DEF RunProxy
<1>9. DOMAIN Runs =
        {"registry", "config", "auth", "authApi", "broker", "store", "health", "service", "debug",
         "runtime", "command", "bot", "init", "server", "api", "web", "proxy"}
  BY DEF Runs
<1> HIDE DEF StepsInOrder
<1> QED
  BY <1>2, <1>3, <1>4, <1>5, <1>6, <1>7, <1>8, <1>9

LEMMA RunsAreSequences == \A p \in DOMAIN Runs : Len(Runs[p]) \in Nat
<1>1. DOMAIN Runs =
        {"registry", "config", "auth", "authApi", "broker", "store", "health", "service", "debug",
         "runtime", "command", "bot", "init", "server", "api", "web", "proxy"}
  BY DEF Runs
<1> USE DEF Runs, RunRegistry, RunConfig, RunAuth, RunAuthApi, RunBroker, RunStore, RunHealth,
            RunService, RunDebug, RunRuntime, RunCommand, RunBot, RunInit, RunServer, RunApi, RunWeb,
            RunProxy
<1> QED
  BY <1>1

LEMMA StartupInitInv == StartupInit => StartupIInv
  BY RunsAreSequences DEF StartupInit, StartupIInv, StartupTypeOK, ServicesNotOrphaned, Behind

LEMMA StartupStepInv == StartupIInv /\ StartupNext => StartupIInv'
<1> SUFFICES ASSUME StartupIInv, StartupNext
             PROVE  StartupIInv'
  OBVIOUS
<1>0. /\ program \in DOMAIN Runs /\ program' = program /\ exit = "no"
      /\ StepsInOrder(program) /\ Len(Runs[program]) \in Nat
      /\ step \in 0 .. Len(Runs[program]) + 1
      /\ deferred \subseteq {"loops", "services", "stats"}
  BY RunsInOrder, RunsAreSequences
     DEF StartupNext, StartupProceeds, StepWorks, BeginsToServe, RunReturns, StepFails, Signal, Going,
         StartupIInv, StartupTypeOK
<1> DEFINE steps == 1 .. Len(Runs[program])
           here == Runs[program][step]
<1>a. /\ \A w \in alive : \E i \in Behind : Starts(program, i, w)
      /\ \A i \in Behind :
           /\ Runs[program][i].does = "stop" => Runs[program][i].what \notin alive \ unstopped
           /\ Runs[program][i].does = "defer" => Runs[program][i].what \in deferred
           /\ Runs[program][i].does = "listen" => listening
      /\ Behind = {i \in steps : i < step}
  BY <1>0 DEF StartupIInv, Behind
\* A step that the process leaves behind, with what it has done.
<1>b. ASSUME exit' = "no", step' = step + 1, step <= Len(Runs[program]),
             deferred' \subseteq {"loops", "services", "stats"},
             \A w \in alive' : w \in alive \/ (step \in steps /\ Starts(program, step, w)),
             unstopped \subseteq unstopped', deferred \subseteq deferred', listening => listening',
             step \in steps =>
               /\ here.does = "stop" => here.what \notin alive' \ unstopped'
               /\ here.does = "defer" => here.what \in deferred'
               /\ here.does = "listen" => listening'
      PROVE  StartupIInv'
  <2>1. Behind' = Behind \cup (IF step \in steps THEN {step} ELSE {})
    BY <1>0, <1>b, <1>a DEF Behind
  <2>2. StartupTypeOK' /\ ServicesNotOrphaned'
    BY <1>0, <1>b DEF StartupTypeOK, ServicesNotOrphaned
  <2>3. \A w \in alive' : \E i \in Behind' : Starts(program, i, w)
    BY <1>a, <1>b, <2>1
  <2>4. ASSUME NEW i \in Behind', Runs[program][i].does = "stop"
        PROVE  Runs[program][i].what \notin alive' \ unstopped'
    <3>1. CASE i \in Behind
      <4> DEFINE w == Runs[program][i].what
      <4>1. w \notin alive \ unstopped /\ i \in steps /\ i < step
        BY <1>a, <2>4, <3>1
      <4>2. ~ (step \in steps /\ Starts(program, step, w))
        BY <1>0, <2>4, <4>1 DEF StepsInOrder, Starts, Stops
      <4> QED
        BY <1>b, <4>1, <4>2
    <3> QED
      BY <1>b, <2>1, <2>4, <3>1
  <2>5. ASSUME NEW i \in Behind'
        PROVE  /\ Runs[program][i].does = "defer" => Runs[program][i].what \in deferred'
               /\ Runs[program][i].does = "listen" => listening'
    BY <1>a, <1>b, <2>1, <2>5
  <2> QED
    BY <1>0, <1>b, <2>2, <2>3, <2>4, <2>5
       DEF StartupIInv, Starts
<1>1. CASE StepWorks
  <2>1. step = 0 => Current = Before
    BY DEF Current
  <2>2. step # 0 => Current = here /\ step \in steps
    BY <1>0, <1>1 DEF Current, StepWorks, Going
  <2>3. Before.does = "try"
    BY DEF Before, Try
  <2>4. Current.does = "defer" => Current.what \in {"loops", "services", "stats"}
    BY <1>0, <2>1, <2>2, <2>3 DEF StepsInOrder
  <2>5. /\ step' = step + 1 /\ step <= Len(Runs[program]) /\ exit' = "no"
        /\ unstopped' = unstopped
        /\ deferred' = IF Current.does = "defer" THEN deferred \cup {Current.what} ELSE deferred
        /\ listening' = (listening \/ Current.does = "listen")
    BY <1>0, <1>1 DEF StepWorks, Going
  <2>6. /\ alive' \subseteq alive \cup (IF Current.does = "start" THEN {Current.what} ELSE {})
        /\ Current.does = "stop" => Current.what \notin alive'
    BY <1>1 DEF StepWorks
  <2>7. \A w \in alive' : w \in alive \/ (step \in steps /\ Starts(program, step, w))
    BY <2>1, <2>2, <2>3, <2>6 DEF Starts
  <2>8. /\ deferred' \subseteq {"loops", "services", "stats"}
        /\ deferred \subseteq deferred' /\ listening => listening'
    BY <1>0, <2>4, <2>5
  <2>9. ASSUME step \in steps
        PROVE  /\ here.does = "stop" => here.what \notin alive' \ unstopped'
               /\ here.does = "defer" => here.what \in deferred'
               /\ here.does = "listen" => listening'
    <3>1. Current = here
      BY <2>2, <2>9
    <3> QED
      BY <2>5, <2>6, <3>1
  <2> QED
    BY <1>b, <2>5, <2>7, <2>8, <2>9
<1>2. CASE BeginsToServe
  BY <1>0, <1>2 DEF BeginsToServe, StartupIInv, StartupTypeOK, ServicesNotOrphaned, Behind, Starts
<1>3. CASE RunReturns
  <2>1. exit' = "0" /\ alive' = alive \ deferred /\ deferred' = {} /\ unstopped' = unstopped
        /\ step' = step /\ step > Len(Runs[program])
    BY <1>3 DEF RunReturns, Returns
  <2>2. ASSUME NEW w \in alive, w \notin deferred
        PROVE  w = "router" \/ w \in unstopped
    <3>1. PICK i \in Behind : Starts(program, i, w)
      BY <1>a
    <3>2. w = "router" \/ \E j \in steps : Defers(program, j, w) \/ Stops(program, j, w)
      BY <1>0, <1>a, <3>1 DEF StepsInOrder, Starts
    <3>3. ASSUME NEW j \in steps, Defers(program, j, w) \/ Stops(program, j, w)
          PROVE  w \in deferred \/ w \in unstopped
      <4>1. j \in Behind
        BY <1>0, <1>a, <2>1
      <4> QED
        BY <1>a, <2>2, <3>3, <4>1 DEF Defers, Stops
    <3> QED
      BY <2>2, <3>2, <3>3
  <2> QED
    BY <1>0, <2>1, <2>2 DEF StartupIInv, StartupTypeOK, ServicesNotOrphaned
<1>4. CASE StepFails
  <2>1. step # 0 => Current = here /\ step \in steps
    BY <1>0, <1>4 DEF Current, StepFails, Going
  <2>2. step = 0 => Current = Before /\ Before.does = "try" /\ Before.else = "fatal" /\ Behind = {}
    BY <1>0, <1>a DEF Current, Before, Try
  <2>3. step <= Len(Runs[program])
    BY <1>4 DEF StepFails, Going
  <2>4. unstopped' = IF Current.does = "stop" THEN unstopped \cup {Current.what} ELSE unstopped
    BY <1>4 DEF StepFails
  <2>5. ASSUME Current.else = "fatal", exit' = "1", UNCHANGED <<step, alive, deferred>>
        PROVE  StartupIInv'
    <3>1. ASSUME "services" \in alive
          PROVE  "services" \in unstopped'
      <4>1. PICK i \in Behind : Starts(program, i, "services")
        BY <1>a, <3>1
      <4>2. i \in steps /\ i < step /\ step \in steps /\ Current = here
        BY <1>0, <1>a, <2>1, <4>1
      <4>3. Stops(program, step, "services")
        BY <1>0, <2>5, <4>1, <4>2 DEF StepsInOrder
      <4> QED
        BY <2>4, <4>2, <4>3 DEF Stops
    <3> QED
      BY <1>0, <2>5, <3>1 DEF StartupIInv, StartupTypeOK, ServicesNotOrphaned
  <2>6. ASSUME Current.else = "return", Returns(alive), step' = step
        PROVE  StartupIInv'
    <3>1. ASSUME NEW w \in alive
          PROVE  w \in deferred
      <4>1. PICK i \in Behind : Starts(program, i, w)
        BY <1>a, <3>1
      <4>2. i \in steps /\ i < step /\ step \in steps /\ Current = here
        BY <1>0, <1>a, <2>1, <4>1
      <4>3. PICK k \in 1 .. step - 1 : Defers(program, k, w)
        BY <1>0, <2>6, <4>1, <4>2 DEF StepsInOrder, Starts
      <4>4. k \in Behind
        BY <1>0, <1>a, <4>2
      <4> QED
        BY <1>a, <4>3, <4>4 DEF Defers
    <3> QED
      BY <1>0, <2>6, <3>1 DEF Returns, StartupIInv, StartupTypeOK, ServicesNotOrphaned
  <2>7. ASSUME Current.else = "ignore", step' = step + 1, UNCHANGED <<alive, deferred, exit>>
        PROVE  StartupIInv'
    <3>1. Current.does \in {"try", "start", "stop", "serve", "http"} /\ listening' = listening
      BY <1>4 DEF StepFails
    <3>2. ASSUME step \in steps
          PROVE  /\ here.does = "stop" => here.what \notin alive' \ unstopped'
                 /\ here.does \notin {"defer", "listen"}
      <4>1. Current = here
        BY <2>1, <3>2
      <4> QED
        BY <2>4, <3>1, <4>1
    <3>3. unstopped \subseteq unstopped'
      BY <2>4
    <3> QED
      BY <1>0, <1>b, <2>3, <2>7, <3>1, <3>2, <3>3
  <2>8. Current.else \in {"fatal", "return", "ignore"}
    BY <1>0, <2>1, <2>2 DEF StepsInOrder
  <2>9. CASE Current.else = "fatal"
    BY <1>4, <2>5, <2>9 DEF StepFails
  <2>10. CASE Current.else = "return"
    BY <1>4, <2>6, <2>10 DEF StepFails
  <2>11. CASE Current.else = "ignore"
    BY <1>4, <2>7, <2>11 DEF StepFails
  <2> QED
    BY <2>8, <2>9, <2>10, <2>11
<1>5. CASE Signal
  <2>1. CASE listening
    BY <1>0, <1>5, <2>1 DEF Signal, StartupIInv, StartupTypeOK, ServicesNotOrphaned, Behind, Starts
  <2>2. CASE ~listening
    <3>1. exit' = "killed" /\ UNCHANGED <<step, alive, deferred, unstopped>>
      BY <1>5, <2>2 DEF Signal
    <3>2. ASSUME program = "init", "services" \in alive
          PROVE  FALSE
      <4>1. PICK i \in Behind : Starts(program, i, "services")
        BY <1>a, <3>2
      <4>2. PICK j \in 1 .. i - 1 : Runs[program][j].does = "listen"
        BY <1>0, <1>a, <3>2, <4>1 DEF StepsInOrder
      <4>3. j \in Behind
        BY <1>0, <1>a, <4>1
      <4> QED
        BY <1>a, <2>2, <4>2, <4>3
    <3> QED
      BY <1>0, <3>1, <3>2 DEF StartupIInv, StartupTypeOK, ServicesNotOrphaned
  <2> QED
    BY <2>1, <2>2
<1> QED
  BY <1>1, <1>2, <1>3, <1>4, <1>5 DEF StartupNext, StartupProceeds

-----------------------------------------------------------------------------
(***************************************************************************)
(* The processes together: a step of one part leaves the others alone.     *)
(***************************************************************************)
LEMMA BrokerStutter == BrokerIInv /\ UNCHANGED brokerVars => BrokerIInv'
  BY DEF brokerVars, BrokerIInv, BrokerTypeOK

LEMMA RouterStutter == RouterIInv /\ UNCHANGED routerVars => RouterIInv'
  BY DEF routerVars, RouterIInv, RouterTypeOK, RunInStep

LEMMA SchedulerStutter == SchedulerTypeOK /\ UNCHANGED schedulerVars => SchedulerTypeOK'
  BY DEF schedulerVars, SchedulerTypeOK

LEMMA BotStutter == BotIInv /\ UNCHANGED botVars => BotIInv'
<1> SUFFICES ASSUME BotIInv, UNCHANGED botVars
             PROVE  BotIInv'
  OBVIOUS
<1>1. UNCHANGED <<available, watchVars, doubtful, partly>> /\ UNCHANGED <<loopPc, inputStop, fatal>>
  BY DEF botVars, watchVars
<1>2. /\ loopPc \in [Inputs -> {"loop", "recv", "process", "ended"}]
      /\ inputStop \in [Inputs -> {"no", "done", "failed"}] /\ fatal \in BOOLEAN
  BY DEF BotIInv, BotTypeOK
<1> QED
  BY <1>1, <1>2, BotRestInv

LEMMA StartupStutter == StartupIInv /\ UNCHANGED startupVars => StartupIInv'
  BY DEF startupVars, StartupIInv, StartupTypeOK, ServicesNotOrphaned, Behind, Starts

LEMMA ProcessesInitInv == ProcessesInit => ProcessesIInv
<1> SUFFICES ASSUME ProcessesInit
             PROVE  ProcessesIInv
  OBVIOUS
<1>1. BrokerInit /\ RouterInit /\ SchedulerInit /\ BotInit /\ StartupInit
  BY DEF ProcessesInit
<1> QED
  BY <1>1, BrokerInitInv, RouterInitInv, SchedulerInitInv, BotInitInv, StartupInitInv
     DEF ProcessesIInv

LEMMA ProcessesStepInv == ProcessesIInv /\ [ProcessesNext]_vars => ProcessesIInv'
<1> SUFFICES ASSUME ProcessesIInv, [ProcessesNext]_vars
             PROVE  ProcessesIInv'
  OBVIOUS
<1>1. BrokerNext \/ UNCHANGED brokerVars
  BY DEF ProcessesNext, BrokerStep, RouterStep, SchedulerStep, BotStep, StartupStep, vars
<1>2. RouterNext \/ UNCHANGED routerVars
  BY DEF ProcessesNext, BrokerStep, RouterStep, SchedulerStep, BotStep, StartupStep, vars
<1>3. SchedulerNext \/ UNCHANGED schedulerVars
  BY DEF ProcessesNext, BrokerStep, RouterStep, SchedulerStep, BotStep, StartupStep, vars
<1>4. BotNext \/ UNCHANGED botVars
  BY DEF ProcessesNext, BrokerStep, RouterStep, SchedulerStep, BotStep, StartupStep, vars
<1>5. StartupNext \/ UNCHANGED startupVars
  BY DEF ProcessesNext, BrokerStep, RouterStep, SchedulerStep, BotStep, StartupStep, vars
<1> QED
  BY <1>1, <1>2, <1>3, <1>4, <1>5, BrokerStepInv, BrokerStutter, RouterStepInv, RouterStutter,
     SchedulerStepInv, SchedulerStutter, BotStepInv, BotStutter, StartupStepInv, StartupStutter
     DEF ProcessesIInv

\* Whatever the steps of the processes and the failures of their calls, the
\* inductive invariant of each part holds.
THEOREM ProcessesInvariant == ProcessesSpec => []ProcessesIInv
  BY ProcessesInitInv, ProcessesStepInv, PTL DEF ProcessesSpec

\* Types, and the capacities of the channels: Run's errChan of the router, the
\* scheduler's update, notify and evChan.
THEOREM ProcessesTypeCorrectness == ProcessesSpec => []ProcessesTypeOK
<1>1. ProcessesIInv => ProcessesTypeOK
  BY DEF ProcessesIInv, ProcessesTypeOK, BrokerIInv, RouterIInv, BotIInv, StartupIInv
<1> QED
  BY <1>1, ProcessesInvariant, PTL

\* Broker.Publish and Subscribe deliver within a namespace, as far as the names that
\* they give the broker keep namespaces apart, and once for each queue; and the
\* bot's watch knows the services, but for those that last lost one of their nodes.
THEOREM FaithfulTheorem == ProcessesSpec => []ProcessesFaithful
<1>1. BotIInv => BotKnowsServices
  <2> SUFFICES ASSUME BotIInv, watcherPc \in {"next", "relock"}, results = <<>>,
                      NEW s \in BotServices \ doubtful
               PROVE  s \in services <=> s \in Told
    BY DEF BotKnowsServices
  <2>1. ~Pending(s)
    BY DEF Pending
  <2> QED
    BY <2>1 DEF BotIInv, Watching
<1>2. ProcessesIInv => ProcessesFaithful
  BY <1>1, BrokerFaithful DEF ProcessesIInv, ProcessesFaithful
<1> QED
  BY <1>2, ProcessesInvariant, PTL

\* The Run function of a process that ends has stopped what it started, as far as
\* a signal or an error lets it, and micro init leaves no services to a signal.
THEOREM StartupTheorem == ProcessesSpec => []StartupClean
<1>1. ProcessesIInv => StartupClean
  BY DEF ProcessesIInv, StartupIInv, StartupClean
<1> QED
  BY <1>1, ProcessesInvariant, PTL
=============================================================================
