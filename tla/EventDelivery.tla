---------------------------- MODULE EventDelivery ----------------------------
(***************************************************************************)
(* What the event log of the runtime manager promises.  Events published   *)
(* to a shared log are delivered to runtimes by workers; each worker       *)
(* belongs to one manager.  Only a published event is delivered, with its  *)
(* own content, to the runtime of the worker's manager; a worker delivers  *)
(* it once, unless its manager has forgotten everything in between; the    *)
(* worker of one event delivers no other; and nothing but a delivery puts  *)
(* a service into a runtime.  The order of deliveries is not promised, nor *)
(* is that two workers of a manager do not deliver the same event.         *)
(***************************************************************************)
EXTENDS Naturals

CONSTANTS
  Managers, Services, Images,
  EventIds,      \* ids of events, and of the worker that each publication starts
  Watchers,      \* the other workers
  WatcherOwner,  \* the manager of each of these
  NoImage, NoEvent

VARIABLES
  event,      \* the published event of each id, or NoEvent
  delivered,  \* the events each worker has delivered
  rt          \* what the runtime of each manager runs

dvars == <<event, delivered, rt>>

Workers == EventIds \cup Watchers

Home(t) == IF t \in Watchers THEN WatcherOwner[t] ELSE event[t].mgr

Publish(e, content) ==
  /\ event[e] = NoEvent
  /\ event' = [event EXCEPT ![e] = content]
  /\ UNCHANGED <<delivered, rt>>

Deliver(t, e) ==
  /\ event[e] # NoEvent
  /\ t \in Watchers \/ t = e
  /\ e \notin delivered[t]
  /\ delivered' = [delivered EXCEPT ![t] = @ \cup {e}]
  /\ \/ rt' = [rt EXCEPT ![Home(t)][event[e].srv] = event[e].image]
     \/ UNCHANGED rt
  /\ UNCHANGED event

\* The runtime of the manager loses some of its services.
Shed(m) ==
  \E keep \in SUBSET Services :
    rt' = [rt EXCEPT ![m] =
             [s \in Services |-> IF s \in keep THEN @[s] ELSE NoImage]]

Halt(m) == Shed(m) /\ UNCHANGED <<event, delivered>>

Forget(m) ==
  /\ Shed(m)
  /\ delivered' = [t \in Workers |->
       IF (t \in Watchers \/ event[t] # NoEvent) /\ Home(t) = m
       THEN {} ELSE delivered[t]]
  /\ UNCHANGED event

DeliveryInit ==
  /\ event = [e \in EventIds |-> NoEvent]
  /\ delivered = [t \in Workers |-> {}]
  /\ rt = [m \in Managers |-> [s \in Services |-> NoImage]]

DeliveryNext ==
  \/ \E e \in EventIds :
       \E content \in [type : {"create", "update", "delete"}, mgr : Managers,
                       srv : Services, image : Images \cup {NoImage},
                       md : BOOLEAN] : Publish(e, content)
  \/ \E t \in Workers, e \in EventIds : Deliver(t, e)
  \/ \E m \in Managers : Halt(m) \/ Forget(m)

DeliverySpec == DeliveryInit /\ [][DeliveryNext]_dvars
=============================================================================
