-------------------------- MODULE MCRuntimeManager --------------------------
(***************************************************************************)
(* Small instances of RuntimeManager: one manager, two services, and a     *)
(* third that the runtime returns without metadata.                        *)
(***************************************************************************)
EXTENDS RuntimeManager, TLC

CONSTANTS m1, s1, s2, bare, default, other

OneManager == [w \in Watchers |-> m1]
TwoNamespaces == (s1 :> default) @@ (s2 :> other) @@ (bare :> other)

(***************************************************************************)
(* What the instances leave out: calls name one service, and the others    *)
(* run, until Stop or Crash, what they run at the start; and the clock     *)
(* ticks only while nothing is stored or runs, so that a history is either *)
(* one of services and their statuses or one of an event, a deletion,      *)
(* through its lifetime and the lifetime of its marker.                    *)
(***************************************************************************)
Bounded ==
  /\ \A e \in EventIds : ev[e] # NoEvent => ev[e].srv = s2
  /\ now > 1 =>
       /\ services = [s \in Services |-> NoImage]
       /\ rt = [m \in Managers |-> [s \in Services |-> NoImage]]
       /\ \A e \in EventIds : ev[e] # NoEvent => ev[e].type = "delete"

MCInit == RebootInit /\ services[bare] = NoImage

MCNext ==
  \/ EventStep /\ Bounded'
  \/ \E w \in Watchers : SyncStatus(w) \/ SyncAborts(w)

MCSpec ==
  /\ MCInit /\ [][MCNext]_allVars
  /\ \A w \in Watchers : WF_allVars(SyncStatus(w))
=============================================================================
