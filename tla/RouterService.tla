---------------------------- MODULE RouterService ----------------------------
(***************************************************************************)
(* The router service (service/router): processes that advertise their     *)
(* routes on a topic and process the adverts of the others, with handlers  *)
(* that stream adverts and table events and that change the table.         *)
(*                                                                         *)
(* The router itself is a library: it keeps the table, gives each caller   *)
(* of Advertise a channel of adverts and each caller of Watch a watcher.   *)
(* A route is its service and the router it names.                         *)
(***************************************************************************)
EXTENDS Naturals, Sequences

CONSTANTS
  Routers,          \* processes that run the service
  NamedRouters,     \* those of them that routes name
  RouteNames,       \* services that routes lead to
  RouterStreams,    \* clients of Advertise and Watch
  Blank,            \* no router named
  MaxRouteEvents    \* bound on changes of the tables

ASSUME RouterAssumption ==
  Blank \notin Routers /\ NamedRouters \subseteq Routers /\ MaxRouteEvents \in Nat

VARIABLES
  runs,         \* where each process is in Run
  errChan,      \* Run's errChan: the results of its two goroutines
  publisher,    \* the goroutine of PublishAdverts runs
  server,       \* the goroutine of service.Run runs
  advertChan,   \* the events of the adverts PublishAdverts is still to take
  onTopic,      \* <<router, advert>>: the adverts each process is still to receive
  table,        \* the routes each process knows
  routeEvents,  \* events of the tables so far
  routeStream   \* the streams: kind, router, events to come, client there

routerVars == <<runs, errChan, publisher, server, advertChan, onTopic, table, routeEvents,
                routeStream>>

Routes == [service : RouteNames, router : Routers \cup {Blank}]

\* What a change of a table is told as; an advert is one with the router's id.
Events == [type : {"create", "update", "delete"}, route : Routes]

Event(type, route) == [type |-> type, route |-> route]

\* The table after an event: a delete takes the route away.
Applied(event, routes) ==
  IF event.type = "delete" THEN routes \ {event.route} ELSE routes \cup {event.route}

\* Creating what is there, or deleting what is not, changes nothing and tells
\* nobody.
Changes(event, routes) ==
  CASE event.type = "create" -> event.route \notin routes
    [] event.type = "delete" -> event.route \in routes
    [] OTHER -> TRUE

NoRouteStream == [state |-> "new", kind |-> "watch", at |-> Blank, events |-> 0,
                  subscribed |-> FALSE, client |-> TRUE]

EndedRouteStream == [NoRouteStream EXCEPT !.state = "ended"]

Serving(r) == runs[r] \in {"serving", "stopping"}

-----------------------------------------------------------------------------
(***************************************************************************)
(* Run.                                                                    *)
(***************************************************************************)
\* Router.Start fails or works, then Advertise, whose failure stops the router.
StartRouter(r) ==
  /\ runs[r] = "start"
  /\ \E then \in {"advertise", "exit1"} : runs' = [runs EXCEPT ![r] = then]
  /\ UNCHANGED <<errChan, publisher, server, advertChan, onTopic, table, routeEvents, routeStream>>

StartAdvertising(r) ==
  /\ runs[r] = "advertise"
  /\ \/ /\ runs' = [runs EXCEPT ![r] = "serving"]
        /\ publisher' = [publisher EXCEPT ![r] = TRUE]
        /\ server' = [server EXCEPT ![r] = TRUE]
     \/ /\ runs' = [runs EXCEPT ![r] = "exit1"]
        /\ UNCHANGED <<publisher, server>>
  /\ UNCHANGED <<errChan, advertChan, onTopic, table, routeEvents, routeStream>>

ServerReturns(r) ==
  /\ Serving(r) /\ server[r]
  /\ server' = [server EXCEPT ![r] = FALSE]
  /\ errChan' = [errChan EXCEPT ![r] = @ + 1]
  /\ UNCHANGED <<runs, publisher, advertChan, onTopic, table, routeEvents, routeStream>>

\* Mutant: Run waits for both goroutines.
FirstResultOfBoth(r) ==
  /\ runs[r] = "serving" /\ errChan[r] = 2
  /\ errChan' = [errChan EXCEPT ![r] = @ - 2]
  /\ runs' = [runs EXCEPT ![r] = "stopping"]
  /\ UNCHANGED <<publisher, server, advertChan, onTopic, table, routeEvents, routeStream>>

FirstResult(r) ==
  /\ runs[r] = "serving" /\ errChan[r] > 0
  /\ errChan' = [errChan EXCEPT ![r] = @ - 1]
  /\ runs' = [runs EXCEPT ![r] = "stopping"]
  /\ UNCHANGED <<publisher, server, advertChan, onTopic, table, routeEvents, routeStream>>

\* Router.Stop, and the end of the process with its goroutines and all they keep.
StopRouter(r) ==
  /\ runs[r] = "stopping"
  /\ \E then \in {"exit0", "exit1"} : runs' = [runs EXCEPT ![r] = then]
  /\ publisher' = [publisher EXCEPT ![r] = FALSE]
  /\ server' = [server EXCEPT ![r] = FALSE]
  /\ errChan' = [errChan EXCEPT ![r] = 0]
  /\ advertChan' = [advertChan EXCEPT ![r] = <<>>]
  /\ onTopic' = {d \in onTopic : d[1] # r}
  /\ table' = [table EXCEPT ![r] = {}]
  /\ routeStream' = [s \in RouterStreams |->
                       IF routeStream[s].at = r THEN EndedRouteStream ELSE routeStream[s]]
  /\ UNCHANGED routeEvents

-----------------------------------------------------------------------------
(***************************************************************************)
(* Adverts between the processes.                                          *)
(***************************************************************************)
\* A change of a table is an event for the watchers, and may be advertised.
TableChanged(r, event, advertised) ==
  /\ table' = [table EXCEPT ![r] = Applied(event, @)]
  /\ routeEvents' = routeEvents + 1
  /\ advertChan' = IF advertised THEN [advertChan EXCEPT ![r] = Append(@, event)] ELSE advertChan
  /\ routeStream' = [s \in RouterStreams |->
                       IF /\ routeStream[s].at = r /\ routeStream[s].subscribed
                          /\ routeStream[s].kind = "watch" \/ advertised
                         THEN [routeStream[s] EXCEPT !.events = @ + 1] ELSE routeStream[s]]

\* The advert as it is published: from this router, its routes naming none.
TopicAdvert(r, event) ==
  [id |-> r, event |-> Event(event.type, [service |-> event.route.service, router |-> Blank])]

\* PublishAdverts sends each advert to the processes that serve, and ends for good
\* at the first it cannot publish.
PublishAdvert(r) ==
  /\ Serving(r) /\ publisher[r] /\ advertChan[r] # <<>>
  /\ advertChan' = [advertChan EXCEPT ![r] = Tail(@)]
  /\ \/ /\ LET advert == TopicAdvert(r, Head(advertChan[r]))
           IN  onTopic' = onTopic \cup {<<q, advert>> : q \in {q \in Routers : Serving(q)}}
        /\ UNCHANGED <<publisher, errChan>>
     \/ /\ publisher' = [publisher EXCEPT ![r] = FALSE]
        /\ errChan' = [errChan EXCEPT ![r] = @ + 1]
        /\ UNCHANGED onTopic
  /\ UNCHANGED <<runs, server, table, routeEvents, routeStream>>

\* sub.Process: an advert of its own is skipped.
ProcessAdvert(r, advert) ==
  /\ Serving(r) /\ <<r, advert>> \in onTopic
  /\ onTopic' = onTopic \ {<<r, advert>>}
  /\ IF advert.id # r /\ Changes(advert.event, table[r])
       THEN TableChanged(r, advert.event, FALSE)
       ELSE UNCHANGED <<advertChan, table, routeEvents, routeStream>>
  /\ UNCHANGED <<runs, errChan, publisher, server>>

\* Router.Process: its routes keep the router that they name.  The router
\* leaves out those that are its own.
Process(r, event) ==
  /\ Serving(r) /\ server[r] /\ routeEvents < MaxRouteEvents
  /\ event.route.router # r /\ Changes(event, table[r])
  /\ TableChanged(r, event, FALSE)
  /\ UNCHANGED <<runs, errChan, publisher, server, onTopic>>

-----------------------------------------------------------------------------
(***************************************************************************)
(* The handlers of the table.  A route is created once, updated whether it *)
(* is there or not, and deleted if it is there; its events are advertised. *)
(***************************************************************************)
Changed(r, event) ==
  /\ Serving(r) /\ server[r] /\ routeEvents < MaxRouteEvents
  /\ Changes(event, table[r])
  /\ TableChanged(r, event, TRUE)
  /\ UNCHANGED <<runs, errChan, publisher, server, onTopic>>

Create(r, route) == Changed(r, Event("create", route))

Update(r, route) == Changed(r, Event("update", route))

Delete(r, route) == Changed(r, Event("delete", route))

\* List, Query and Router.Lookup.
Query(r, service) == {route \in table[r] : route.service = service}

-----------------------------------------------------------------------------
(***************************************************************************)
(* The streams of Router.Advertise and Router.Watch.                       *)
(***************************************************************************)
OpenRouteStream(s, r, kind) ==
  /\ routeStream[s].state = "new" /\ Serving(r) /\ server[r]
  /\ routeStream' = [routeStream EXCEPT ![s] = [@ EXCEPT !.state = "open", !.kind = kind,
                                                         !.at = r, !.subscribed = TRUE]]
  /\ UNCHANGED <<runs, errChan, publisher, server, advertChan, onTopic, table, routeEvents>>

\* One event is sent; if it cannot be, Watch stops its watcher and Advertise
\* leaves its channel with the router.
StreamEvent(s) ==
  /\ routeStream[s].state = "open" /\ routeStream[s].events > 0
  /\ routeStream' =
       IF routeStream[s].client THEN [routeStream EXCEPT ![s].events = @ - 1]
       ELSE [routeStream EXCEPT ![s].events = @ - 1, ![s].state = "ended",
                                ![s].subscribed = routeStream[s].kind = "advertise"]
  /\ UNCHANGED <<runs, errChan, publisher, server, advertChan, onTopic, table, routeEvents>>

RouteClientLeaves(s) ==
  /\ routeStream[s].state = "open" /\ routeStream[s].client
  /\ routeStream' = [routeStream EXCEPT ![s].client = FALSE]
  /\ UNCHANGED <<runs, errChan, publisher, server, advertChan, onTopic, table, routeEvents>>

-----------------------------------------------------------------------------
RouterInit ==
  /\ runs = [r \in Routers |-> "start"]
  /\ errChan = [r \in Routers |-> 0]
  /\ publisher = [r \in Routers |-> FALSE] /\ server = [r \in Routers |-> FALSE]
  /\ advertChan = [r \in Routers |-> <<>>] /\ onTopic = {}
  /\ table = [r \in Routers |-> {}] /\ routeEvents = 0
  /\ routeStream = [s \in RouterStreams |-> NoRouteStream]

Proceeds(r) ==
  \/ StartRouter(r) \/ StartAdvertising(r) \/ FirstResult(r) \/ StopRouter(r) \/ PublishAdvert(r)

RouterNext ==
  \/ \E r \in Routers :
       \/ Proceeds(r) \/ ServerReturns(r)
       \/ \E d \in onTopic : ProcessAdvert(r, d[2])
       \/ \E n \in RouteNames, q \in NamedRouters :
            LET route == [service |-> n, router |-> q]
            IN \/ Create(r, route) \/ Update(r, route) \/ Delete(r, route)
               \/ \E type \in {"create", "update", "delete"} : Process(r, Event(type, route))
       \/ \E s \in RouterStreams, kind \in {"advertise", "watch"} : OpenRouteStream(s, r, kind)
  \/ \E s \in RouterStreams : StreamEvent(s) \/ RouteClientLeaves(s)

-----------------------------------------------------------------------------
RouteStreamStates ==
  [state : {"new", "open", "ended"}, kind : {"advertise", "watch"}, at : Routers \cup {Blank},
   events : Nat, subscribed : BOOLEAN, client : BOOLEAN]

RouterTypeOK ==
  /\ runs \in [Routers -> {"start", "advertise", "serving", "stopping", "exit0", "exit1"}]
  /\ errChan \in [Routers -> 0 .. 2]
  /\ publisher \in [Routers -> BOOLEAN] /\ server \in [Routers -> BOOLEAN]
  /\ advertChan \in [Routers -> Seq(Events)]
  /\ onTopic \subseteq Routers \X [id : Routers, event : Events]
  /\ table \in [Routers -> SUBSET Routes] /\ routeEvents \in Nat
  /\ routeStream \in [RouterStreams -> RouteStreamStates]

\* What a goroutine of Run has still to put on errChan fits in it.
RunInStep ==
  \A r \in Routers :
    /\ runs[r] \in {"start", "advertise"} => errChan[r] = 0 /\ ~publisher[r] /\ ~server[r]
    /\ publisher[r] => errChan[r] <= 1
    /\ server[r] => errChan[r] <= 1
    /\ publisher[r] /\ server[r] => errChan[r] = 0

RouterIInv == RouterTypeOK /\ RunInStep

(***************************************************************************)
(* Run: the process ends when the first of its two goroutines has, for the *)
(* other may never.                                                        *)
(***************************************************************************)
RouterStops == \A r \in Routers : errChan[r] > 0 ~> runs[r] \in {"exit0", "exit1"}
=============================================================================
