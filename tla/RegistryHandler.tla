--------------------------- MODULE RegistryHandler ---------------------------
(***************************************************************************)
(* The registry service (service/registry/handler): services are           *)
(* registered under their namespace, each change is published by a         *)
(* goroutine of its own, and streams watch the changes.                    *)
(*                                                                         *)
(* A name in the registry is the sequence of its parts: <<service>> in the *)
(* default namespace, <<namespace, service>> in another one.  The registry *)
(* keeps the nodes of a service: a request registers or takes away the one *)
(* that it names, and a service is there as long as it has one.            *)
(***************************************************************************)
EXTENDS Naturals, Sequences, SequencesExt

CONSTANTS
  Namespaces,         \* namespaces of the callers
  DefaultNamespace,   \* namespace.DefaultNamespace
  ServiceNames,       \* services that are registered
  RegistryNodes,      \* nodes, one to a request
  RegistryStreams,    \* clients that watch
  MaxRegistryCalls    \* bound on Register and Deregister

ASSUME RegistryAssumption ==
  /\ DefaultNamespace \in Namespaces
  /\ MaxRegistryCalls \in Nat

VARIABLES
  registered,   \* the names in the registry, each with a node
  changes,      \* every change the registry made, in order
  publishing,   \* indices of the changes whose goroutine is still to publish
  heard,        \* indices of the changes published on the topic, in order
  blurred,      \* history: nodes of services with an event that was lost, overtaken or
                \* foreign, or with a registration that has expired
  watch,        \* state of each stream, its namespace, request and place in changes
  watched       \* the changes each stream has been sent

registryVars == <<registered, changes, publishing, heard, blurred, watch, watched>>

-----------------------------------------------------------------------------
withNamespace(name, ns) == IF ns = DefaultNamespace THEN <<name>> ELSE <<ns, name>>

withoutNamespace(full) == Last(full)

\* Mutant: every service can be read.
CanReadAll(ns, full) == TRUE

canReadService(ns, full) == Len(full) = 1 \/ full[1] = ns

ActionToEventType(action) ==
  CASE action = "create" -> "Create" [] action = "delete" -> "Delete" [] OTHER -> "Update"

\* The event of a change holds the request's service, which has no namespace, and
\* its node.
EventOf(i) == [type |-> ActionToEventType(changes[i].action),
               about |-> <<withoutNamespace(changes[i].service), changes[i].node>>]

Registered(full) == \E node \in RegistryNodes : <<full, node>> \in registered

-----------------------------------------------------------------------------
(***************************************************************************)
(* Register and Deregister: the registry, then a goroutine to publish.  If *)
(* the registry fails, the caller is told so and nothing changes.          *)
(***************************************************************************)
Change(action, ns, name, node) ==
  LET full == withNamespace(name, ns) IN
    /\ changes' = Append(changes, [action |-> action, service |-> full, node |-> node])
    /\ publishing' = publishing \cup {Len(changes) + 1}
    /\ blurred' = IF ns = DefaultNamespace THEN blurred ELSE blurred \cup {<<name, node>>}
    /\ UNCHANGED <<heard, watch, watched>>

Register(ns, name, node) ==
  /\ Len(changes) < MaxRegistryCalls
  /\ registered' = registered \cup {<<withNamespace(name, ns), node>>}
  /\ Change("create", ns, name, node)

\* Mutant: the service goes, with the nodes that the request does not name.
DeregisterAll(ns, name, node) ==
  /\ Len(changes) < MaxRegistryCalls
  /\ registered' = {instance \in registered : instance[1] # withNamespace(name, ns)}
  /\ Change("delete", ns, name, node)

Deregister(ns, name, node) ==
  /\ Len(changes) < MaxRegistryCalls
  /\ registered' = registered \ {<<withNamespace(name, ns), node>>}
  /\ Change("delete", ns, name, node)

\* The TTL of a registration runs out before it is made again; no event tells.
Expire(full, node) ==
  /\ registered' = registered \ {<<full, node>>}
  /\ blurred' = blurred \cup {<<withoutNamespace(full), node>>}
  /\ UNCHANGED <<changes, publishing, heard, watch, watched>>

\* publishEvent, in time or not.
PublishEvent(i) ==
  /\ i \in publishing
  /\ publishing' = publishing \ {i}
  /\ \/ /\ heard' = Append(heard, i)
        /\ blurred' = IF \E j \in publishing : j < i /\ EventOf(j).about = EventOf(i).about
                        THEN blurred \cup {EventOf(i).about} ELSE blurred
     \/ /\ blurred' = blurred \cup {EventOf(i).about}
        /\ UNCHANGED heard
  /\ UNCHANGED <<registered, changes, watch, watched>>

-----------------------------------------------------------------------------
(***************************************************************************)
(* Reads.  The registry finds a name or answers ErrNotFound.               *)
(***************************************************************************)
GetService(ns, name) ==
  IF ~Registered(<<name>>) THEN [code |-> 404, services |-> {}]
  ELSE IF ns = DefaultNamespace THEN [code |-> 200, services |-> {<<name>>}]
  ELSE IF ~Registered(withNamespace(name, ns)) THEN [code |-> 500, services |-> {}]
  ELSE [code |-> 200, services |-> {<<name>>, withNamespace(name, ns)}]

RegistryNames == {withNamespace(name, ns) : name \in ServiceNames, ns \in Namespaces}

ListServices(ns) == {full \in RegistryNames : Registered(full) /\ canReadService(ns, full)}

-----------------------------------------------------------------------------
(***************************************************************************)
(* Watch.  The registry's watcher gives the changes since it was made, of  *)
(* the name in the request (as it stands there, without the namespace of   *)
(* the caller) or of all if it has none; the handler never stops it.       *)
(***************************************************************************)
WatchService == {RegistryNames} \cup {{full} : full \in RegistryNames}

OpenWatch(s, ns, of) ==
  /\ watch[s].state = "new"
  /\ watch' = [watch EXCEPT ![s] = [state |-> "open", ns |-> ns, of |-> of,
                                      from |-> Len(changes), next |-> Len(changes) + 1,
                                      client |-> TRUE]]
  /\ UNCHANGED <<registered, changes, publishing, heard, blurred, watched>>

NextResult(s) ==
  /\ watch[s].state = "open" /\ watch[s].next <= Len(changes)
  /\ LET i == watch[s].next
          full == changes[i].service
     IN IF full \notin watch[s].of \/ ~canReadService(watch[s].ns, full)
          THEN watch' = [watch EXCEPT ![s].next = i + 1] /\ UNCHANGED watched
          ELSE IF watch[s].client
            THEN /\ watch' = [watch EXCEPT ![s].next = i + 1]
                 /\ watched' = [watched EXCEPT ![s] = Append(@, i)]
            ELSE watch' = [watch EXCEPT ![s].state = "ended"] /\ UNCHANGED watched
  /\ UNCHANGED <<registered, changes, publishing, heard, blurred>>

\* watcher.Next answers an error.
WatchFails(s) ==
  /\ watch[s].state = "open"
  /\ watch' = [watch EXCEPT ![s].state = "failed"]
  /\ UNCHANGED <<registered, changes, publishing, heard, blurred, watched>>

WatcherLeaves(s) ==
  /\ watch[s].state = "open" /\ watch[s].client
  /\ watch' = [watch EXCEPT ![s].client = FALSE]
  /\ UNCHANGED <<registered, changes, publishing, heard, blurred, watched>>

-----------------------------------------------------------------------------
RegistryInit ==
  /\ registered = {} /\ changes = <<>> /\ publishing = {} /\ heard = <<>> /\ blurred = {}
  /\ watch = [s \in RegistryStreams |-> [state |-> "new", ns |-> DefaultNamespace, of |-> RegistryNames,
                                          from |-> 0, next |-> 1, client |-> TRUE]]
  /\ watched = [s \in RegistryStreams |-> <<>>]

RegistryNext ==
  \/ \E ns \in Namespaces, name \in ServiceNames, node \in RegistryNodes :
       Register(ns, name, node) \/ Deregister(ns, name, node)
  \/ \E instance \in registered : Expire(instance[1], instance[2])
  \/ \E i \in publishing : PublishEvent(i)
  \/ \E s \in RegistryStreams :
       \/ NextResult(s) \/ WatchFails(s) \/ WatcherLeaves(s)
       \/ \E ns \in Namespaces, of \in WatchService : OpenWatch(s, ns, of)

RegistrySpec == RegistryInit /\ [][RegistryNext]_registryVars

-----------------------------------------------------------------------------
ChangeRecords == [action : {"create", "delete"}, service : RegistryNames, node : RegistryNodes]

StreamRecords == [state : {"new", "open", "failed", "ended"}, ns : Namespaces,
                  of : SUBSET RegistryNames, from : Nat, next : Nat, client : BOOLEAN]

\* Types, and that a stream is somewhere in the changes made since it opened.
RegistryTypeOK ==
  /\ registered \subseteq RegistryNames \X RegistryNodes
  /\ changes \in Seq(ChangeRecords)
  /\ publishing \subseteq 1 .. Len(changes)
  /\ heard \in Seq(1 .. Len(changes))
  /\ watch \in [RegistryStreams -> StreamRecords]
  /\ watched \in [RegistryStreams -> Seq(Nat)]
  /\ \A s \in RegistryStreams :
       /\ watch[s].next \in watch[s].from + 1 .. Len(changes) + 1
       /\ watch[s].state = "new" => watched[s] = <<>>

(***************************************************************************)
(* Register, Deregister and publishEvent: once nothing is still to be      *)
(* published, the last event about a node of a service says whether the    *)
(* registry has it - unless an event about it was lost, was published      *)
(* after a later one or was of another namespace, which the event does not *)
(* name, or its registration has expired.                                  *)
(***************************************************************************)
EventsTellTheRegistry ==
  \A name \in ServiceNames, node \in RegistryNodes, k \in 1 .. Len(heard) :
    /\ <<name, node>> \notin blurred
    /\ EventOf(heard[k]).about = <<name, node>>
    /\ \A j \in k + 1 .. Len(heard) : EventOf(heard[j]).about # <<name, node>>
    /\ \A i \in publishing : EventOf(i).about # <<name, node>>
    => (EventOf(heard[k]).type = "Create" <=> <<<<name>>, node>> \in registered)

Increasing(seq) == \A j, k \in 1 .. Len(seq) : j < k => seq[j] < seq[k]

\* The changes a stream that is described by r has passed and may see.
Visible(r) ==
  {i \in r.from + 1 .. r.next - 1 :
     /\ changes[i].service \in r.of
     /\ Len(changes[i].service) = 1 \/ changes[i].service[1] = r.ns}

(***************************************************************************)
(* Watch: what a stream has been sent is every change since it was opened  *)
(* of what it asked for and its namespace may see, in order and once.      *)
(***************************************************************************)
RegistryStreamsFaithful ==
  \A s \in RegistryStreams :
    Increasing(watched[s]) /\ ToSet(watched[s]) = Visible(watch[s])

(***************************************************************************)
(* GetService: "get the services in the requested namespace", those of the *)
(* default namespace apart: a service registered there is in the answer.   *)
(***************************************************************************)
TenantsFindTheirServices ==
  \A ns \in Namespaces, name \in ServiceNames :
    Registered(withNamespace(name, ns)) =>
      withNamespace(name, ns) \in GetService(ns, name).services

-----------------------------------------------------------------------------
(***************************************************************************)
(* What makes the properties above inductive.                              *)
(***************************************************************************)
\* Nothing about a node that is not blurred was of another namespace or was lost.
UnblurredPublished ==
  \A i \in 1 .. Len(changes) : EventOf(i).about \notin blurred =>
    /\ changes[i].service = <<EventOf(i).about[1]>>
    /\ i \in publishing \/ \E k \in 1 .. Len(heard) : heard[k] = i

\* Nor was an event about it overtaken.
UnblurredInOrder ==
  \A k \in 1 .. Len(heard) : EventOf(heard[k]).about \notin blurred =>
    /\ \A j \in k + 1 .. Len(heard) :
         EventOf(heard[j]).about = EventOf(heard[k]).about => heard[k] < heard[j]
    /\ \A i \in publishing : EventOf(i).about = EventOf(heard[k]).about => heard[k] < i

Instance(i) == <<changes[i].service, changes[i].node>>

\* The last change of a node that is not blurred says whether it is registered.
LastChangeDecides ==
  \A i \in 1 .. Len(changes) :
    /\ EventOf(i).about \notin blurred
    /\ \A j \in i + 1 .. Len(changes) : Instance(j) # Instance(i)
    => (changes[i].action = "create" <=> Instance(i) \in registered)

RegistryIInv ==
  /\ RegistryTypeOK /\ UnblurredPublished /\ UnblurredInOrder /\ LastChangeDecides
  /\ RegistryStreamsFaithful
=============================================================================
