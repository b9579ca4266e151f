------------------------------ MODULE ConfigFeed ------------------------------
(***************************************************************************)
(* What the Watch streams of the config service may expect of the events   *)
(* on one key: an event is announced to the streams that are registered    *)
(* at one moment, and until it has been handled none of them comes or      *)
(* goes; each of these is sent the event once or misses it; a stream is    *)
(* sent one event at a time, and none before it has been registered, after *)
(* it has left, or that was announced to others only.  A stream registers  *)
(* once.  That no event is missed is not promised, nor is any order.       *)
(***************************************************************************)
CONSTANTS Streams, Events

VARIABLES
  stage,     \* of each stream: "new", "registered" or "left"
  busy,      \* the streams that are sending an event to their client
  phase,     \* of each event: "none", "offering" or "done"
  audience   \* the streams that may still be sent the event

fvars == <<stage, busy, phase, audience>>

Registered == {s \in Streams : stage[s] = "registered"}

NobodyOffers == \A e \in Events : phase[e] # "offering"

Register(s) ==
  /\ stage[s] = "new" /\ NobodyOffers
  /\ stage' = [stage EXCEPT ![s] = "registered"]
  /\ UNCHANGED <<busy, phase, audience>>

Leave(s) ==
  /\ stage[s] = "registered" /\ NobodyOffers
  /\ stage' = [stage EXCEPT ![s] = "left"]
  /\ UNCHANGED <<busy, phase, audience>>

Announce(e) ==
  /\ phase[e] = "none"
  /\ phase' = [phase EXCEPT ![e] = "offering"]
  /\ audience' = [audience EXCEPT ![e] = Registered]
  /\ UNCHANGED <<stage, busy>>

Send(e, s) ==
  /\ phase[e] = "offering" /\ s \in audience[e]
  /\ stage[s] = "registered" /\ s \notin busy
  /\ audience' = [audience EXCEPT ![e] = @ \ {s}]
  /\ busy' = busy \cup {s}
  /\ UNCHANGED <<stage, phase>>

Miss(e, s) ==
  /\ phase[e] = "offering" /\ s \in audience[e]
  /\ audience' = [audience EXCEPT ![e] = @ \ {s}]
  /\ UNCHANGED <<stage, busy, phase>>

Sent(s) ==
  /\ s \in busy
  /\ busy' = busy \ {s}
  /\ UNCHANGED <<stage, phase, audience>>

Finish(e) ==
  /\ phase[e] = "offering" /\ audience[e] = {}
  /\ phase' = [phase EXCEPT ![e] = "done"]
  /\ UNCHANGED <<stage, busy, audience>>

FeedInit ==
  /\ stage = [s \in Streams |-> "new"]
  /\ busy = {}
  /\ phase = [e \in Events |-> "none"]
  /\ audience = [e \in Events |-> {}]

FeedNext ==
  \/ \E s \in Streams : Register(s) \/ Leave(s) \/ Sent(s)
  \/ \E e \in Events : Announce(e) \/ Finish(e) \/ \E s \in Streams : Send(e, s) \/ Miss(e, s)

FeedSpec == FeedInit /\ [][FeedNext]_fvars
=============================================================================
