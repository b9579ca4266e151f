--------------------------- MODULE DebugCollectors ---------------------------
(***************************************************************************)
(* The debug service (service/debug): a cache of the services in the       *)
(* registry, and the collectors of statistics and of traces, which call    *)
(* the nodes of the cached services round by round, keep the last rounds   *)
(* in a ring and answer reads from it.                                     *)
(*                                                                         *)
(* A node keeps the spans that it has recorded.  Each span belongs to a    *)
(* trace and has a name in which some of the services can be found.        *)
(***************************************************************************)
EXTENDS Naturals, Sequences, SequencesExt, FiniteSets

CONSTANTS
  Listed,         \* services as [name, version], each a sequence of letters
  Nodes,          \* nodes of the services
  Spans,          \* spans that nodes record
  NodeOf,         \* the node that records a span
  TraceOf,        \* the trace of a span
  InName,         \* the services found in the name of a span
  Limits,         \* limits that reads ask for, 0 for none
  Window,         \* rounds a ring holds
  MaxRounds,      \* bound on the rounds of a collector
  MaxScans,       \* bound on the scans
  MaxListings     \* bound on the changes of the registry

\* The letters of names and versions.
Letters == UNION {ToSet(s.name) \cup ToSet(s.version) : s \in Listed}

ASSUME DebugAssumption ==
  /\ Window \in Nat \ {0} /\ MaxRounds \in Nat /\ MaxScans \in Nat /\ MaxListings \in Nat
  /\ IsFiniteSet(Spans) /\ Limits \subseteq Nat
  /\ Listed \subseteq [name : Seq(Letters), version : Seq(Letters)]

VARIABLES
  cache,         \* newCache's answer: "new" before it, "nil" or "made"
  serviceCache,  \* its services
  registry,      \* the services in the registry, and how often they have changed
  scan,          \* the scan in progress, and the number of scans
  scanned,       \* history: what the registry had all through the last scan that
                 \* worked, and did not fail to give
  debugDown,     \* the process has died
  recorded,      \* the spans each node has recorded
  traceRing,     \* the rounds of the trace collector: a set of snapshots each
  statsRing,     \* the rounds of the stats collector: the nodes that answered
  round,         \* the round in progress of the trace collector
  rounds         \* rounds begun

cacheVars == <<cache, serviceCache, registry, scan, scanned>>
ringVars == <<recorded, traceRing, statsRing, round, rounds>>
debugVars == <<cacheVars, debugDown, ringVars>>

-----------------------------------------------------------------------------
(***************************************************************************)
(* cache.go: scan lists the services and asks for those that are listed    *)
(* without nodes, one by one, while the registry changes; it keeps one     *)
(* service for each name and version, run together as one string.          *)
(***************************************************************************)
\* Mutant: the versions of a service are not told apart.
KeyOfName(s) == s.name

Key(s) == s.name \o s.version

Keys(services) == {Key(s) : s \in services}

\* Services that are written into the map, over those with the same keys.
Stored(map, services) == {s \in map : Key(s) \notin Keys(services)} \cup services

ServiceMoves(s) ==
  /\ registry.moves < MaxListings
  /\ registry' = [services |-> IF s \in registry.services THEN registry.services \ {s}
                               ELSE registry.services \cup {s},
                  moves |-> registry.moves + 1]
  /\ scan' = [scan EXCEPT !.here = @ \cap registry'.services]
  /\ UNCHANGED <<cache, serviceCache, scanned, debugDown, ringVars>>

\* ListServices.  The first scan is newCache's, which has no cache if it fails;
\* a later one that fails leaves the cache as it is.
ScanLists ==
  /\ ~debugDown /\ cache # "nil" /\ ~scan.on /\ scan.count < MaxScans
  /\ scan' = [on |-> TRUE, left |-> registry.services, map |-> {}, here |-> registry.services,
              count |-> scan.count + 1]
  /\ UNCHANGED <<cache, serviceCache, registry, scanned, debugDown, ringVars>>

FirstScanFails ==
  /\ cache = "new" /\ ~scan.on
  /\ cache' = "nil"
  /\ UNCHANGED <<serviceCache, registry, scan, scanned, debugDown, ringVars>>

\* A service with its nodes in the list.
ScanTakes(s) ==
  /\ s \in scan.left
  /\ scan' = [scan EXCEPT !.left = @ \ {s}, !.map = Stored(@, {s})]
  /\ UNCHANGED <<cache, serviceCache, registry, scanned, debugDown, ringVars>>

\* One without: GetService gives the versions that there are by then.
ScanAsks(s) ==
  /\ s \in scan.left
  /\ \E t \in registry.services : t.name = s.name
  /\ scan' = [scan EXCEPT !.left = @ \ {s},
                          !.map = Stored(@, {t \in registry.services : t.name = s.name})]
  /\ UNCHANGED <<cache, serviceCache, registry, scanned, debugDown, ringVars>>

\* GetService fails: the service is left out.
ScanLeavesOut(s) ==
  /\ s \in scan.left
  /\ scan' = [scan EXCEPT !.left = @ \ {s}, !.here = @ \ {s}]
  /\ UNCHANGED <<cache, serviceCache, registry, scanned, debugDown, ringVars>>

ScanEnds ==
  /\ ~debugDown /\ scan.on /\ scan.left = {}
  /\ cache' = "made"
  /\ serviceCache' = scan.map /\ scanned' = scan.here
  /\ scan' = [scan EXCEPT !.on = FALSE, !.map = {}, !.here = {}]
  /\ UNCHANGED <<registry, debugDown, ringVars>>

\* services() of no cache.
UseNilCache ==
  /\ ~debugDown /\ cache = "nil"
  /\ debugDown' = TRUE
  /\ UNCHANGED <<cacheVars, ringVars>>

-----------------------------------------------------------------------------
(***************************************************************************)
(* The rings and the rounds.                                               *)
(***************************************************************************)
Put(ring, entry) ==
  LET longer == Append(ring, entry) IN IF Len(longer) > Window THEN Tail(longer) ELSE longer

SpansIn(entry) == UNION {snap.spans : snap \in entry}

NodeRecords(s) ==
  /\ ~debugDown /\ s \notin recorded[NodeOf[s]]
  /\ recorded' = [recorded EXCEPT ![NodeOf[s]] = @ \cup {s}]
  /\ UNCHANGED <<cacheVars, debugDown, traceRing, statsRing, round, rounds>>

\* Trace.scrape: the ids are collected before the nodes are called.
ScrapeStarts ==
  /\ ~debugDown /\ serviceCache # {} /\ round.nodes = {}
  /\ rounds < MaxRounds /\ rounds' = rounds + 1
  /\ round' = [nodes |-> Nodes, ids |-> UNION {SpansIn(traceRing[i]) : i \in DOMAIN traceRing},
               next |-> {}]
  /\ UNCHANGED <<cacheVars, debugDown, recorded, traceRing, statsRing>>

\* Mutant: spans that the ring has are not left out.
SnapshotOfAll(n) == [node |-> n, spans |-> recorded[n]]

SnapshotOf(n) == [node |-> n, spans |-> recorded[n] \ round.ids]

\* A node answers, or its call fails; the last one ends the round, which is
\* kept unless it is blank.
ScrapeNode(n) ==
  /\ ~debugDown /\ n \in round.nodes
  /\ \E next \in {round.next,
                  round.next \cup (IF SnapshotOf(n).spans = {} THEN {} ELSE {SnapshotOf(n)})} :
       /\ round' = [round EXCEPT !.nodes = @ \ {n}, !.next = next]
       /\ traceRing' = IF round.nodes = {n} /\ next # {} THEN Put(traceRing, next) ELSE traceRing
  /\ UNCHANGED <<cacheVars, debugDown, recorded, statsRing, rounds>>

\* Stats.scrape: the round is kept, whoever answered.
ScrapeStats ==
  /\ ~debugDown /\ cache = "made"
  /\ rounds < MaxRounds /\ rounds' = rounds + 1
  /\ \E answered \in SUBSET Nodes :
       statsRing' = Put(statsRing, [round |-> rounds', nodes |-> answered])
  /\ UNCHANGED <<cacheVars, debugDown, recorded, traceRing, round>>

\* Stats.Read without Past, and with it.
Newest == IF statsRing = <<>> THEN {} ELSE {Last(statsRing)}
AllStats == ToSet(statsRing)

-----------------------------------------------------------------------------
(***************************************************************************)
(* Trace.Read, for a service or for all.  Maps are ranged over in any      *)
(* order: one of the traces, and one of the spans of each.                 *)
(***************************************************************************)
\* Mutant: only the spans up to each match are appended.
TraceSpansOfMatches(spans, service) ==
  FlattenSeq([i \in DOMAIN spans |->
                IF service \in InName[spans[i]] THEN SubSeq(spans, 1, i) ELSE <<>>])

\* filterServiceSpans, one trace: from the first span that matches on, all the
\* spans so far are appended each time.
TraceSpans(spans, service) ==
  FlattenSeq([i \in DOMAIN spans |->
                IF \E j \in 1 .. i : service \in InName[spans[j]] THEN SubSeq(spans, 1, i) ELSE <<>>])

filterServiceSpans(orders, service) ==
  FlattenSeq([k \in DOMAIN orders |-> TraceSpans(orders[k], service)])

\* dedupeSpans: what it answers, one span for each id, of the spans it is given.
dedupeSpans(all) == SetToSeqs(all)

\* Read's entries: the last round, or all of them with Past; and its limit.
Entries(past) == IF past \/ traceRing = <<>> THEN traceRing ELSE <<Last(traceRing)>>

Limited(spans, limit) ==
  IF limit = 0 \/ limit >= Len(spans) THEN spans ELSE SubSeq(spans, 1, limit)

-----------------------------------------------------------------------------
DebugInit ==
  /\ cache = "new" /\ serviceCache = {} /\ scanned = {} /\ debugDown = FALSE
  /\ \E services \in SUBSET Listed : registry = [services |-> services, moves |-> 0]
  /\ scan = [on |-> FALSE, left |-> {}, map |-> {}, here |-> {}, count |-> 0]
  /\ recorded = [n \in Nodes |-> {}] /\ traceRing = <<>> /\ statsRing = <<>>
  /\ round = [nodes |-> {}, ids |-> {}, next |-> {}] /\ rounds = 0

CacheNext ==
  \/ ScanLists \/ FirstScanFails \/ ScanEnds \/ UseNilCache
  \/ \E s \in Listed : ScanTakes(s) \/ ScanAsks(s) \/ ScanLeavesOut(s)

RegistryMoves == \E s \in Listed : ServiceMoves(s)

RingNext ==
  \/ ScrapeStarts \/ ScrapeStats
  \/ \E s \in Spans : NodeRecords(s)
  \/ \E n \in Nodes : ScrapeNode(n)

DebugNext == CacheNext \/ RegistryMoves \/ RingNext

-----------------------------------------------------------------------------
Snapshots == [node : Nodes, spans : SUBSET Spans]

DebugTypeOK ==
  /\ cache \in {"new", "nil", "made"} /\ serviceCache \subseteq Listed /\ scanned \subseteq Listed
  /\ registry \in [services : SUBSET Listed, moves : Nat]
  /\ scan \in [on : BOOLEAN, left : SUBSET Listed, map : SUBSET Listed, here : SUBSET Listed,
               count : Nat]
  /\ debugDown \in BOOLEAN
  /\ recorded \in [Nodes -> SUBSET Spans]
  /\ traceRing \in Seq(SUBSET Snapshots) /\ Len(traceRing) <= Window
  /\ statsRing \in Seq([round : Nat, nodes : SUBSET Nodes]) /\ Len(statsRing) <= Window
  /\ round \in [nodes : SUBSET Nodes, ids : SUBSET Spans, next : SUBSET Snapshots]
  /\ rounds \in 0 .. MaxRounds

(***************************************************************************)
(* Trace.scrape: no span is in two rounds of the ring, however often a     *)
(* node tells of it, and no round of the ring is blank.                    *)
(***************************************************************************)
SpansKeptOnce ==
  \A i \in DOMAIN traceRing :
    /\ SpansIn(traceRing[i]) # {}
    /\ \A j \in 1 .. i - 1 : SpansIn(traceRing[i]) \cap SpansIn(traceRing[j]) = {}

(***************************************************************************)
(* scan: what the registry had from the list to the end, and did not fail  *)
(* to give when it was asked, is in the cache, however the registry moved  *)
(* meanwhile - except a service whose name and version, run together, are  *)
(* those of another one that is.                                           *)
(***************************************************************************)
CacheComplete ==
  \A s \in scanned \ serviceCache :
    \E t \in serviceCache : t.name # s.name /\ t.name \o t.version = s.name \o s.version

\* Traces that some spans are of, the spans of one of them, and the orders in which
\* maps may give them.
TraceIn(all, t) == {s \in all : TraceOf[s] = t}
TracesIn(all) == {TraceOf[s] : s \in all}
Orders(all) ==
  {f \in [TracesIn(all) -> UNION {SetToSeqs(TraceIn(all, t)) : t \in TracesIn(all)}] :
     \A t \in TracesIn(all) : f[t] \in SetToSeqs(TraceIn(all, t))}

\* The spans of the traces that hit the service.
SpansOf(all, service) == {s \in all : \E u \in TraceIn(all, TraceOf[s]) : service \in InName[u]}

\* All that is asked for, or as many as the limit; none more often than its trace has
\* spans.
Answers(ret, all, asked, limit) ==
  /\ ToSet(ret) \subseteq asked
  /\ ToSet(ret) = asked \/ Len(ret) = limit
  /\ \A s \in ToSet(ret) :
       Cardinality({i \in DOMAIN ret : ret[i] = s}) <= Cardinality(TraceIn(all, TraceOf[s]))

(***************************************************************************)
(* Trace.Read and filterServiceSpans: "all spans that are part of a trace  *)
(* that hits a given service" or, without one, all, in whatever order the  *)
(* maps give, up to the limit - and none more often than its trace has     *)
(* spans.                                                                  *)
(***************************************************************************)
TraceReadsComplete ==
  \A past \in BOOLEAN :
    LET all == UNION {SpansIn(Entries(past)[i]) : i \in DOMAIN Entries(past)} IN
      /\ \A spans \in dedupeSpans(all), limit \in Limits : Answers(Limited(spans, limit), all, all, limit)
      /\ \A service \in UNION {InName[s] : s \in Spans} :
           \A ids \in SetToSeqs(TracesIn(all)), f \in Orders(all), limit \in Limits :
             Answers(Limited(filterServiceSpans([i \in DOMAIN ids |-> f[ids[i]]], service), limit),
                     all, SpansOf(all, service), limit)

(***************************************************************************)
(* What the first two rest on: the spans of a round in progress are none   *)
(* of those whose ids it began with, which are those of the ring; and each *)
(* service that is still here is among those left, or its key in the map.  *)
(***************************************************************************)
RoundApart ==
  /\ \A snap \in round.next : snap.spans # {}
  /\ round.nodes # {} =>
       /\ \A i \in DOMAIN traceRing : SpansIn(traceRing[i]) \subseteq round.ids
       /\ SpansIn(round.next) \cap round.ids = {}

ScanCovers ==
  /\ scan.here \subseteq registry.services
  /\ \A s \in scan.here : s \in scan.left \/ Key(s) \in Keys(scan.map)
  /\ \A s \in scanned : Key(s) \in Keys(serviceCache)

DebugIInv == DebugTypeOK /\ SpansKeptOnce /\ RoundApart /\ ScanCovers
=============================================================================
