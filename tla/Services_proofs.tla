-------------------------- MODULE Services_proofs ---------------------------
(****************************************************************************)
(* What the parts that answer callers keep together.  The invariant is the *)
(* conjunction of the parts' own: a step of one part keeps its own by the  *)
(* lemmas of that part, and the others' because it leaves their variables  *)
(* alone.                                                                  *)
(****************************************************************************)
EXTENDS Services, Handlers_proofs

-----------------------------------------------------------------------------
(****************************************************************************)
(* The debug service: the ring of rounds and the cache of services.        *)
(****************************************************************************)

\* What follows the same beginning is the same.
LEMMA SameEnds ==
  ASSUME NEW S, NEW a \in Seq(S), NEW b \in Seq(S), NEW c \in Seq(S), a \o b = a \o c
  PROVE  b = c
<1>1. Len(a) \in Nat /\ Len(b) \in Nat /\ Len(c) \in Nat
  OBVIOUS
<1>2. Len(a \o b) = Len(a) + Len(b)
  OBVIOUS
<1>3. Len(a \o c) = Len(a) + Len(c)
  OBVIOUS
<1>4. Len(b) = Len(c)
  BY ONLY <1>1, <1>2, <1>3, a \o b = a \o c
<1>5. PICK x : x = a \o b
  OBVIOUS
<1>6. \A i \in 1 .. Len(b) : x[Len(a) + i] = b[i]
  BY ONLY <1>1, <1>5, a \in Seq(S), b \in Seq(S)
<1>7. x = a \o c
  BY <1>5
<1>8. \A i \in 1 .. Len(c) : x[Len(a) + i] = c[i]
  BY ONLY <1>1, <1>7, a \in Seq(S), c \in Seq(S)
<1>9. b = [i \in 1 .. Len(b) |-> b[i]] /\ c = [i \in 1 .. Len(c) |-> c[i]]
  OBVIOUS
<1> QED BY ONLY <1>4, <1>6, <1>8, <1>9

\* The records of scan.
Scans == [on : BOOLEAN, left : SUBSET Listed, map : SUBSET Listed, here : SUBSET Listed, count : Nat]

LEMMA DebugInitInv == DebugInit => DebugIInv
<1> SUFFICES ASSUME DebugInit PROVE DebugIInv
  OBVIOUS
<1>1. DebugTypeOK
  <2>1. /\ cache \in {"new", "nil", "made"} /\ serviceCache \subseteq Listed /\ scanned \subseteq Listed
        /\ debugDown \in BOOLEAN
    BY DEF DebugInit
  <2>2. recorded \in [Nodes -> SUBSET Spans]
    BY DEF DebugInit
  <2>3. /\ traceRing \in Seq(SUBSET Snapshots) /\ Len(traceRing) <= Window
        /\ statsRing \in Seq([round : Nat, nodes : SUBSET Nodes]) /\ Len(statsRing) <= Window
        /\ rounds \in 0 .. MaxRounds
    BY DebugAssumption DEF DebugInit
  <2>4. round \in [nodes : SUBSET Nodes, ids : SUBSET Spans, next : SUBSET Snapshots]
    BY DEF DebugInit
  <2>5. registry \in [services : SUBSET Listed, moves : Nat]
    BY DEF DebugInit
  <2>6. scan \in Scans
    BY DEF DebugInit, Scans
  <2> QED BY ONLY <2>1, <2>2, <2>3, <2>4, <2>5, <2>6 DEF DebugTypeOK, Scans
<1>2. SpansKeptOnce /\ RoundApart
  BY DEF DebugInit, SpansKeptOnce, RoundApart
<1>3. ScanCovers
  BY DEF DebugInit, ScanCovers
<1> QED BY <1>1, <1>2, <1>3 DEF DebugIInv

\* The services of a scan that are not in the cache have one with the same key there.
LEMMA CacheHasAll == DebugIInv => CacheComplete
<1> SUFFICES ASSUME DebugIInv PROVE CacheComplete
  OBVIOUS
<1>1. scanned \subseteq Listed /\ serviceCache \subseteq Listed
  BY DEF DebugIInv, DebugTypeOK
<1>2. \A s \in scanned : Key(s) \in Keys(serviceCache)
  BY DEF DebugIInv, ScanCovers
<1>3. ASSUME NEW s \in scanned \ serviceCache
      PROVE  \E t \in serviceCache : t.name # s.name /\ t.name \o t.version = s.name \o s.version
  <2>1. PICK t \in serviceCache : Key(t) = Key(s)
    BY <1>2 DEF Keys
  <2>2. t.name \o t.version = s.name \o s.version
    BY <2>1 DEF Key
  <2>3. /\ s \in [name : Seq(Letters), version : Seq(Letters)]
        /\ t \in [name : Seq(Letters), version : Seq(Letters)]
    BY <1>1, DebugAssumption
  <2>4. ASSUME t.name = s.name PROVE FALSE
    <3>1. t.version = s.version
      <4>1. PICK a, b, c : a = t.name /\ b = t.version /\ c = s.version
        OBVIOUS
      <4>2. a \in Seq(Letters) /\ b \in Seq(Letters) /\ c \in Seq(Letters) /\ a \o b = a \o c
        BY <2>2, <2>3, <2>4, <4>1
      <4> QED BY ONLY <4>1, <4>2, SameEnds
    <3>2. t = s
      BY <2>3, <2>4, <3>1
    <3> QED BY <3>2
  <2> QED BY <2>2, <2>4
<1> QED BY <1>3 DEF CacheComplete

\* All but the last entry of one ring are those of another, in order, but for the first.
Shifted(ring, from) ==
  \E d \in {0, 1} : \A i \in 1 .. Len(ring) - 1 : i + d \in 1 .. Len(from) /\ ring[i] = from[i + d]

\* A ring with one more entry, the first one left out if there are too many.
LEMMA RingPut ==
  ASSUME NEW S, NEW ring \in Seq(S), NEW entry \in S, Len(ring) <= Window
  PROVE  /\ Put(ring, entry) \in Seq(S) /\ Len(Put(ring, entry)) \in 1 .. Window
         /\ Put(ring, entry)[Len(Put(ring, entry))] = entry
         /\ Shifted(Put(ring, entry), ring)
<1>1. Window \in Nat /\ Window >= 1
  BY DebugAssumption
<1>2. PICK longer : longer = Append(ring, entry)
  OBVIOUS
<1>3. /\ longer \in Seq(S) /\ Len(longer) = Len(ring) + 1 /\ longer[Len(ring) + 1] = entry
      /\ \A i \in 1 .. Len(ring) : longer[i] = ring[i]
      /\ Len(ring) \in Nat
  BY <1>2, AppendFacts
<1>4. PICK p : p = Put(ring, entry)
  OBVIOUS
<1>5. CASE Len(longer) > Window
  <2>1. p = Tail(longer)
    BY <1>2, <1>4, <1>5 DEF Put
  <2>2. /\ p \in Seq(S) /\ Len(p) = Len(ring) /\ \A i \in 1 .. Len(ring) : p[i] = longer[i + 1]
    BY <1>3, <2>1
  <2>3. Len(p) \in 1 .. Window
    BY <1>1, <1>3, <1>5, <2>2
  <2>4. p[Len(p)] = entry
    BY <1>3, <2>2, <2>3
  <2>5. \A i \in 1 .. Len(p) - 1 : i + 1 \in 1 .. Len(ring) /\ p[i] = ring[i + 1]
    BY <1>3, <2>2
  <2> QED BY <1>4, <2>2, <2>3, <2>4, <2>5 DEF Shifted
<1>6. CASE ~(Len(longer) > Window)
  <2>1. p = longer
    BY <1>2, <1>4, <1>6 DEF Put
  <2>2. p \in Seq(S) /\ Len(p) \in 1 .. Window /\ p[Len(p)] = entry
    BY <1>1, <1>3, <1>6, <2>1
  <2>3. \A i \in 1 .. Len(p) - 1 : i + 0 \in 1 .. Len(ring) /\ p[i] = ring[i + 0]
    BY <1>3, <2>1
  <2> QED BY <1>4, <2>2, <2>3 DEF Shifted
<1> QED BY <1>5, <1>6

\* A map has the keys that it had and those that are stored.
LEMMA StoredKeys ==
  ASSUME NEW map, NEW services
  PROVE  /\ Keys(Stored(map, services)) = Keys(map) \cup Keys(services)
         /\ Stored(map, services) \subseteq map \cup services
<1>1. Stored(map, services) \subseteq map \cup services /\ services \subseteq Stored(map, services)
  BY DEF Stored
<1>2. ASSUME NEW s \in map PROVE Key(s) \in Keys(Stored(map, services))
  BY DEF Stored, Keys
<1> QED BY <1>1, <1>2 DEF Keys

\* What leaves the rings alone keeps what is said of them.
LEMMA CacheInv ==
  ASSUME DebugIInv, UNCHANGED ringVars, DebugTypeOK', ScanCovers'
  PROVE  DebugIInv'
  BY DEF DebugIInv, SpansKeptOnce, RoundApart, ringVars

\* A scan that leaves the cache and the registry alone: a service that stays here stays
\* among those left, or its key gets into the map.
LEMMA ScanMoves ==
  ASSUME DebugIInv, scan' \in Scans, cache' \in {"new", "nil", "made"},
         UNCHANGED <<serviceCache, registry, scanned, debugDown, ringVars>>,
         scan'.here \subseteq registry.services,
         \A s \in scan'.here : s \in scan'.left \/ Key(s) \in Keys(scan'.map)
  PROVE  DebugIInv'
<1>1. DebugTypeOK'
  BY DEF DebugIInv, DebugTypeOK, Scans, ringVars
<1>2. ScanCovers'
  BY DEF DebugIInv, ScanCovers
<1> QED BY <1>1, <1>2, CacheInv

LEMMA ScanInv ==
  ASSUME DebugIInv, CacheNext, ~UseNilCache
  PROVE  DebugIInv'
<1>1. /\ scan \in Scans /\ registry.services \subseteq Listed /\ cache \in {"new", "nil", "made"}
      /\ scan.here \subseteq registry.services
      /\ \A s \in scan.here : s \in scan.left \/ Key(s) \in Keys(scan.map)
  BY DEF DebugIInv, DebugTypeOK, Scans, ScanCovers
<1>2. CASE ScanLists
  <2>1. /\ scan'.left = registry.services /\ scan'.here = registry.services
        /\ UNCHANGED <<cache, serviceCache, registry, scanned, debugDown, ringVars>>
    BY <1>2 DEF ScanLists
  <2>2. scan' \in Scans
    BY <1>1, <1>2 DEF ScanLists, Scans
  <2> QED BY <1>1, <2>1, <2>2, ScanMoves
<1>3. CASE FirstScanFails
  BY <1>1, <1>3, ScanMoves DEF FirstScanFails
<1>4. ASSUME NEW s \in Listed, NEW taken \in SUBSET Listed, s \in scan.left,
             s \in scan.here => s \in taken,
             scan' = [scan EXCEPT !.left = @ \ {s}, !.map = Stored(@, taken)],
             UNCHANGED <<cache, serviceCache, registry, scanned, debugDown, ringVars>>
      PROVE  DebugIInv'
  <2>1. PICK map : map = Stored(scan.map, taken)
    OBVIOUS
  <2>2. Keys(map) = Keys(scan.map) \cup Keys(taken) /\ map \subseteq scan.map \cup taken
    BY ONLY <2>1, StoredKeys
  <2>3. scan'.left = scan.left \ {s} /\ scan'.map = map /\ scan'.here = scan.here
    BY <1>1, <1>4, <2>1 DEF Scans
  <2>4. scan' \in Scans
    <3>1. map \in SUBSET Listed
      BY <1>1, <2>2 DEF Scans
    <3>2. scan' = [scan EXCEPT !.left = scan.left \ {s}, !.map = map]
      BY <1>4, <2>1
    <3> QED BY <1>1, <3>1, <3>2 DEF Scans
  <2>5. \A t \in scan'.here : t \in scan'.left \/ Key(t) \in Keys(scan'.map)
    BY <1>1, <1>4, <2>2, <2>3 DEF Keys
  <2> QED BY <1>1, <1>4, <2>3, <2>4, <2>5, ScanMoves
<1>5. ASSUME NEW s \in Listed, ScanTakes(s) PROVE DebugIInv'
  <2>1. {s} \in SUBSET Listed /\ s \in {s}
    OBVIOUS
  <2> QED BY <1>4, <1>5, <2>1 DEF ScanTakes
<1>6. ASSUME NEW s \in Listed, ScanAsks(s) PROVE DebugIInv'
  <2>1. PICK taken : taken = {t \in registry.services : t.name = s.name}
    OBVIOUS
  <2>2. taken \in SUBSET Listed /\ (s \in scan.here => s \in taken)
    BY <1>1, <2>1
  <2> QED BY <1>4, <1>6, <2>1, <2>2 DEF ScanAsks
<1>7. ASSUME NEW s \in Listed, ScanLeavesOut(s) PROVE DebugIInv'
  <2>1. /\ scan' \in Scans /\ scan'.left = scan.left \ {s} /\ scan'.here = scan.here \ {s}
        /\ scan'.map = scan.map
    BY <1>1, <1>7 DEF ScanLeavesOut, Scans
  <2> QED BY <1>1, <1>7, <2>1, ScanMoves DEF ScanLeavesOut
<1>8. CASE ScanEnds
  <2>1. /\ scan.left = {} /\ cache' = "made" /\ serviceCache' = scan.map /\ scanned' = scan.here
        /\ UNCHANGED <<registry, debugDown, ringVars>>
    BY <1>8 DEF ScanEnds
  <2>2. scan' \in Scans /\ scan'.here = {}
    BY <1>1, <1>8 DEF ScanEnds, Scans
  <2>3. DebugTypeOK'
    BY <1>1, <2>1, <2>2 DEF DebugIInv, DebugTypeOK, Scans, ringVars
  <2>4. ScanCovers'
    BY <1>1, <2>1, <2>2 DEF ScanCovers
  <2> QED BY <2>1, <2>3, <2>4, CacheInv
<1> QED BY <1>2, <1>3, <1>5, <1>6, <1>7, <1>8 DEF CacheNext

\* What comes or goes in the registry is no longer here.
LEMMA RegistryMovesInv ==
  ASSUME DebugIInv, RegistryMoves
  PROVE  DebugIInv'
<1>1. PICK s \in Listed : ServiceMoves(s)
  BY DEF RegistryMoves
<1>2. /\ scan \in Scans /\ registry \in [services : SUBSET Listed, moves : Nat]
      /\ \A t \in scan.here : t \in scan.left \/ Key(t) \in Keys(scan.map)
      /\ \A t \in scanned : Key(t) \in Keys(serviceCache)
  BY DEF DebugIInv, DebugTypeOK, Scans, ScanCovers
<1>3. registry' \in [services : SUBSET Listed, moves : Nat]
  BY <1>1, <1>2 DEF ServiceMoves
<1>4. /\ scan' \in Scans /\ scan'.here = scan.here \cap registry'.services
      /\ scan'.left = scan.left /\ scan'.map = scan.map
  BY <1>1, <1>2 DEF ServiceMoves, Scans
<1>5. UNCHANGED <<cache, serviceCache, scanned, debugDown, ringVars>>
  BY <1>1 DEF ServiceMoves
<1>6. DebugTypeOK'
  BY <1>3, <1>4, <1>5 DEF DebugIInv, DebugTypeOK, Scans, ringVars
<1>7. ScanCovers'
  BY <1>2, <1>4, <1>5 DEF ScanCovers
<1> QED BY <1>5, <1>6, <1>7, CacheInv

\* What leaves the ring, the round and the cache alone.
LEMMA RestInv ==
  ASSUME DebugIInv, UNCHANGED <<serviceCache, scanned, scan, registry, traceRing, round>>, DebugTypeOK'
  PROVE  DebugIInv'
<1>1. SpansKeptOnce' /\ RoundApart'
  BY DEF DebugIInv, SpansKeptOnce, RoundApart
<1>2. ScanCovers'
  BY DEF DebugIInv, ScanCovers
<1> QED BY <1>1, <1>2 DEF DebugIInv

LEMMA RecordInv ==
  ASSUME DebugIInv, UseNilCache \/ \E s \in Spans : NodeRecords(s)
  PROVE  DebugIInv'
<1>1. CASE UseNilCache
  <2>1. DebugTypeOK'
    BY <1>1 DEF UseNilCache, DebugIInv, DebugTypeOK, cacheVars, ringVars
  <2> QED BY <1>1, <2>1, RestInv DEF UseNilCache, cacheVars, ringVars
<1>2. ASSUME NEW s \in Spans, NodeRecords(s) PROVE DebugIInv'
  <2>1. DebugTypeOK'
    <3>1. recorded' \in [Nodes -> SUBSET Spans]
      BY <1>2 DEF NodeRecords, DebugIInv, DebugTypeOK, cacheVars
    <3> QED BY <1>2, <3>1 DEF NodeRecords, DebugIInv, DebugTypeOK, cacheVars
  <2> QED BY <1>2, <2>1, RestInv DEF NodeRecords, cacheVars
<1> QED BY <1>1, <1>2

LEMMA ScrapeStatsInv ==
  ASSUME DebugIInv, ScrapeStats
  PROVE  DebugIInv'
<1>1. PICK answered, entry :
        answered \in SUBSET Nodes /\ entry = [round |-> rounds', nodes |-> answered] /\ statsRing' = Put(statsRing, entry)
  BY DEF ScrapeStats
<1>2. rounds' \in 0 .. MaxRounds
  BY DebugAssumption DEF ScrapeStats, DebugIInv, DebugTypeOK
<1>3. entry \in [round : Nat, nodes : SUBSET Nodes]
  BY <1>1, <1>2
<1>4. statsRing \in Seq([round : Nat, nodes : SUBSET Nodes]) /\ Len(statsRing) <= Window
  BY DEF DebugIInv, DebugTypeOK
<1>5. statsRing' \in Seq([round : Nat, nodes : SUBSET Nodes]) /\ Len(statsRing') <= Window
  <2>1. PICK S : S = [round : Nat, nodes : SUBSET Nodes]
    OBVIOUS
  <2>2. statsRing \in Seq(S) /\ entry \in S /\ Len(statsRing) <= Window
    BY <1>3, <1>4, <2>1
  <2>3. PICK p : p = Put(statsRing, entry)
    OBVIOUS
  <2>4. p \in Seq(S) /\ Len(p) \in 1 .. Window
    BY ONLY <2>2, <2>3, RingPut
  <2>5. Len(p) <= Window
    BY ONLY <2>4, DebugAssumption
  <2> QED BY <1>1, <2>1, <2>3, <2>4, <2>5
<1>6. DebugTypeOK'
  BY <1>2, <1>5 DEF ScrapeStats, DebugIInv, DebugTypeOK, cacheVars
<1> QED BY <1>6, RestInv DEF ScrapeStats, cacheVars

\* A round begins with the ids of the ring.
LEMMA ScrapeStartInv ==
  ASSUME DebugIInv, ScrapeStarts
  PROVE  DebugIInv'
<1>1. PICK ids : ids = UNION {SpansIn(traceRing[i]) : i \in DOMAIN traceRing}
  OBVIOUS
<1>2. /\ round' = [nodes |-> Nodes, ids |-> ids, next |-> {}]
      /\ UNCHANGED <<cacheVars, debugDown, recorded, traceRing, statsRing>>
  BY <1>1 DEF ScrapeStarts
<1>3. ids \subseteq Spans
  <2>1. \A i \in DOMAIN traceRing : traceRing[i] \subseteq Snapshots
    BY DEF DebugIInv, DebugTypeOK
  <2> QED BY <1>1, <2>1 DEF SpansIn, Snapshots
<1>4. round' \in [nodes : SUBSET Nodes, ids : SUBSET Spans, next : SUBSET Snapshots]
  BY <1>2, <1>3
<1>5. rounds' \in 0 .. MaxRounds
  BY DebugAssumption DEF ScrapeStarts, DebugIInv, DebugTypeOK
<1>6. DebugTypeOK'
  BY <1>2, <1>4, <1>5 DEF DebugIInv, DebugTypeOK, cacheVars
<1>7. RoundApart'
  <2>1. round'.ids = ids /\ round'.next = {}
    BY <1>2
  <2>2. \A i \in DOMAIN traceRing : SpansIn(traceRing[i]) \subseteq ids
    BY <1>1
  <2> QED BY <1>2, <2>1, <2>2 DEF RoundApart, SpansIn
<1>8. SpansKeptOnce'
  BY <1>2 DEF DebugIInv, SpansKeptOnce
<1>9. ScanCovers'
  BY <1>2 DEF DebugIInv, ScanCovers, cacheVars
<1> QED BY <1>6, <1>7, <1>8, <1>9 DEF DebugIInv

\* A node answers, or not: what it adds is new, and so is what the round puts into the
\* ring.
LEMMA ScrapeNodeInv ==
  ASSUME DebugIInv, NEW n \in Nodes, ScrapeNode(n)
  PROVE  DebugIInv'
<1>1. PICK next : /\ next \in {round.next,
                              round.next \cup (IF SnapshotOf(n).spans = {} THEN {} ELSE {SnapshotOf(n)})}
                  /\ round' = [round EXCEPT !.nodes = @ \ {n}, !.next = next]
                  /\ traceRing' = IF round.nodes = {n} /\ next # {} THEN Put(traceRing, next)
                                  ELSE traceRing
  BY DEF ScrapeNode
<1>2. /\ n \in round.nodes
      /\ UNCHANGED <<cacheVars, debugDown, recorded, statsRing, rounds>>
  BY DEF ScrapeNode
<1>3. round \in [nodes : SUBSET Nodes, ids : SUBSET Spans, next : SUBSET Snapshots]
  BY DEF DebugIInv, DebugTypeOK
<1>4. PICK snap : snap = SnapshotOf(n)
  OBVIOUS
<1>5. snap \in Snapshots /\ snap.spans \cap round.ids = {}
  BY <1>4 DEF SnapshotOf, Snapshots, DebugIInv, DebugTypeOK
<1>6. /\ next \subseteq Snapshots /\ \A s \in next : s.spans # {}
      /\ \A s \in next : s.spans \cap round.ids = {}
  <2>1. \A s \in round.next : s.spans # {} /\ s.spans \cap round.ids = {}
    BY <1>2 DEF DebugIInv, RoundApart, SpansIn
  <2>2. next = round.next \/ (next = round.next \cup {snap} /\ snap.spans # {})
    BY <1>1, <1>4
  <2> QED BY <1>3, <1>5, <2>1, <2>2
<1>7. SpansIn(next) \cap round.ids = {} /\ (next # {} => SpansIn(next) # {})
  BY <1>6 DEF SpansIn
<1>8. /\ round' \in [nodes : SUBSET Nodes, ids : SUBSET Spans, next : SUBSET Snapshots]
      /\ round'.nodes = round.nodes \ {n} /\ round'.ids = round.ids /\ round'.next = next
  BY <1>1, <1>3, <1>6
<1>9. ScanCovers'
  BY <1>2 DEF DebugIInv, ScanCovers, cacheVars
<1>10. traceRing \in Seq(SUBSET Snapshots) /\ Len(traceRing) <= Window /\ Len(traceRing) \in Nat
  BY DEF DebugIInv, DebugTypeOK
<1>11. CASE ~(round.nodes = {n} /\ next # {})
  <2>1. traceRing' = traceRing
    BY <1>1, <1>11
  <2>2. DebugTypeOK'
    BY <1>2, <1>8, <2>1 DEF DebugIInv, DebugTypeOK, cacheVars
  <2>3. RoundApart'
    BY <1>2, <1>6, <1>7, <1>8, <2>1 DEF DebugIInv, RoundApart, SpansIn
  <2>4. SpansKeptOnce'
    BY <2>1 DEF DebugIInv, SpansKeptOnce
  <2> QED BY <1>9, <2>2, <2>3, <2>4 DEF DebugIInv
<1>12. CASE round.nodes = {n} /\ next # {}
  <2>1. traceRing' = Put(traceRing, next) /\ round'.nodes = {}
    BY <1>1, <1>8, <1>12
  <2>2. PICK r, p : r = traceRing /\ p = Put(traceRing, next)
    OBVIOUS
  <2>3. /\ p \in Seq(SUBSET Snapshots) /\ Len(p) \in 1 .. Window /\ p[Len(p)] = next
        /\ Shifted(p, r)
    <3>1. PICK S : S = SUBSET Snapshots
      OBVIOUS
    <3>2. r \in Seq(S) /\ next \in S /\ Len(r) <= Window
      BY <1>6, <1>10, <2>2, <3>1
    <3>3. /\ Put(r, next) \in Seq(S) /\ Len(Put(r, next)) \in 1 .. Window
          /\ Put(r, next)[Len(Put(r, next))] = next /\ Shifted(Put(r, next), r)
      BY ONLY <3>2, RingPut
    <3>4. p = Put(r, next)
      BY <2>2
    <3> QED BY ONLY <3>1, <3>3, <3>4
  <2>4. PICK d \in {0, 1} : \A i \in 1 .. Len(p) - 1 : i + d \in 1 .. Len(r) /\ p[i] = r[i + d]
    BY <2>3 DEF Shifted
  <2>5. \A i \in 1 .. Len(r) :
          /\ SpansIn(r[i]) # {} /\ SpansIn(r[i]) \subseteq round.ids
          /\ \A j \in 1 .. i - 1 : SpansIn(r[i]) \cap SpansIn(r[j]) = {}
    <3>1. DOMAIN r = 1 .. Len(r)
      BY <1>10, <2>2
    <3> QED BY <1>2, <2>2, <3>1 DEF DebugIInv, SpansKeptOnce, RoundApart
  <2>6. DOMAIN p = 1 .. Len(p) /\ Len(p) \in Nat /\ Len(r) \in Nat /\ Len(p) <= Window /\ Len(p) >= 1
    BY <1>10, <2>2, <2>3, DebugAssumption
  <2>7. \A i \in 1 .. Len(p) : i \in 1 .. Len(p) - 1 \/ i = Len(p)
    <3>1. \A m \in Nat : \A i \in 1 .. m : i \in 1 .. m - 1 \/ i = m
      BY ONLY TRUE
    <3>2. Len(p) \in Nat
      BY <2>6
    <3> QED BY ONLY <3>1, <3>2
  <2>8. SpansKeptOnce'
    <3>1. ASSUME NEW i \in 1 .. Len(p) - 1
          PROVE  /\ SpansIn(p[i]) # {}
                 /\ \A j \in 1 .. i - 1 : SpansIn(p[i]) \cap SpansIn(p[j]) = {}
      <4>1. p[i] = r[i + d] /\ i + d \in 1 .. Len(r)
        BY <2>4
      <4>2. ASSUME NEW j \in 1 .. i - 1 PROVE p[j] = r[j + d] /\ j + d \in 1 .. (i + d) - 1
        <5>1. j \in 1 .. Len(p) - 1
          BY <2>6
        <5> QED BY <2>4, <5>1
      <4> QED BY <2>5, <4>1, <4>2
    <3>2. SpansIn(p[Len(p)]) # {}
      BY <1>7, <1>12, <2>3
    <3>3. ASSUME NEW j \in 1 .. Len(p) - 1 PROVE SpansIn(p[Len(p)]) \cap SpansIn(p[j]) = {}
      <4>1. SpansIn(p[j]) \subseteq round.ids
        BY <2>4, <2>5
      <4> QED BY <1>7, <2>3, <4>1
    <3> QED BY <2>1, <2>2, <2>6, <2>7, <3>1, <3>2, <3>3 DEF SpansKeptOnce
  <2>9. DebugTypeOK'
    BY <1>2, <1>8, <2>1, <2>2, <2>3, <2>6 DEF DebugIInv, DebugTypeOK, cacheVars
  <2>10. RoundApart'
    BY <1>6, <1>8, <2>1 DEF RoundApart
  <2> QED BY <1>9, <2>8, <2>9, <2>10 DEF DebugIInv
<1> QED BY <1>11, <1>12

LEMMA DebugStepInv == DebugIInv /\ DebugNext => DebugIInv'
  BY ScanInv, RegistryMovesInv, RecordInv, ScrapeStatsInv, ScrapeStartInv, ScrapeNodeInv
  DEF DebugNext, RingNext

LEMMA DebugStutter == DebugIInv /\ UNCHANGED debugVars => DebugIInv'
<1> SUFFICES ASSUME DebugIInv, UNCHANGED debugVars PROVE DebugIInv'
  OBVIOUS
<1>1. DebugTypeOK'
  BY DEF debugVars, cacheVars, ringVars, DebugIInv, DebugTypeOK
<1> QED BY <1>1, RestInv DEF debugVars, cacheVars, ringVars

-----------------------------------------------------------------------------
(****************************************************************************)
(* Trace.Read: all the spans of the traces that are asked for, or as many  *)
(* as the limit.                                                           *)
(****************************************************************************)

\* No element of spans twice.
EachOnce(spans) == \A i, j \in 1 .. Len(spans) : spans[i] = spans[j] => i = j

\* s is in ret n times at most: each time is told from the others by one of n numbers.
AtMost(ret, s, n) ==
  \E g : \A q, r \in {p \in 1 .. Len(ret) : ret[p] = s} : g[q] \in 1 .. n /\ (g[q] = g[r] => q = r)

Hit(spans, service) == \E i \in 1 .. Len(spans) : service \in InName[spans[i]]

\* One trace: all its spans if one of them matches, none otherwise, and each as often
\* at most as there are spans.
LEMMA TraceSpansFacts ==
  ASSUME NEW T, NEW spans \in Seq(T), EachOnce(spans), NEW service
  PROVE  /\ TraceSpans(spans, service) \in Seq(T)
         /\ Hit(spans, service) => ToSet(TraceSpans(spans, service)) = ToSet(spans)
         /\ ~Hit(spans, service) => ToSet(TraceSpans(spans, service)) = {}
         /\ \A s : AtMost(TraceSpans(spans, service), s, Len(spans))
<1> DEFINE Sofar(i) == \E j \in 1 .. i : service \in InName[spans[j]]
<1>1. PICK n : n = Len(spans)
  OBVIOUS
<1>2. n \in Nat /\ DOMAIN spans = 1 .. n /\ \A i \in 1 .. n : spans[i] \in T
  BY <1>1
<1>3. PICK seqs : seqs = [i \in 1 .. n |-> IF Sofar(i) THEN SubSeq(spans, 1, i) ELSE <<>>]
  OBVIOUS
<1>4. ASSUME NEW i \in 1 .. n
      PROVE  /\ SubSeq(spans, 1, i) \in Seq(T) /\ Len(SubSeq(spans, 1, i)) = i
             /\ \A j \in 1 .. i : SubSeq(spans, 1, i)[j] = spans[j]
  BY <1>1, <1>2
<1>5. seqs \in Seq(Seq(T)) /\ Len(seqs) = n
  <2>1. \A i \in 1 .. n : seqs[i] \in Seq(T)
    BY <1>3, <1>4
  <2>2. PICK U : U = Seq(T)
    OBVIOUS
  <2>3. seqs \in [1 .. n -> U]
    BY <1>3, <2>1, <2>2
  <2>4. seqs \in Seq(U) /\ Len(seqs) = n
    BY ONLY <1>2, <2>3
  <2> QED BY <2>2, <2>4
<1>6. PICK flat : flat = FlattenSeq(seqs)
  OBVIOUS
<1>7. flat = TraceSpans(spans, service)
  BY <1>2, <1>3, <1>6 DEF TraceSpans
<1>8. flat \in Seq(T)
  BY <1>5, <1>6, FlattenPlaces
<1>9. PICK row, col : Placed(flat, seqs, n, row, col)
  BY <1>5, <1>6, FlattenPlaces
<1>10. ASSUME NEW q \in 1 .. Len(flat)
       PROVE  /\ row[q] \in 1 .. n /\ col[q] \in 1 .. row[q] /\ flat[q] = spans[col[q]]
              /\ Sofar(row[q])
  <2>1. /\ row[q] \in 1 .. n /\ col[q] \in 1 .. Len(seqs[row[q]])
        /\ flat[q] = seqs[row[q]][col[q]]
    BY <1>9 DEF Placed
  <2>2. PICK i : i = row[q]
    OBVIOUS
  <2>3. Sofar(i)
    <3>1. ASSUME ~Sofar(i) PROVE FALSE
      <4>1. seqs[i] = <<>>
        BY <1>3, <2>1, <2>2, <3>1
      <4>2. Len(seqs[i]) = 0
        BY <4>1
      <4> QED BY <2>1, <2>2, <4>2
    <3> QED BY <3>1
  <2>4. seqs[i] = SubSeq(spans, 1, i)
    BY <1>3, <2>1, <2>2, <2>3
  <2>5. Len(seqs[i]) = i /\ \A j \in 1 .. i : seqs[i][j] = spans[j]
    BY <1>4, <2>1, <2>2, <2>4
  <2> HIDE DEF Sofar
  <2> QED BY <2>1, <2>2, <2>3, <2>5
<1>11. ToSet(flat) \subseteq ToSet(spans)
  <2>1. ASSUME NEW q \in 1 .. Len(flat) PROVE flat[q] \in ToSet(spans)
    <3>1. col[q] \in 1 .. n /\ flat[q] = spans[col[q]]
      BY <1>2, <1>10
    <3> QED BY <1>2, <3>1 DEF ToSet
  <2> QED BY <1>8, <2>1 DEF ToSet
<1>12. ASSUME Hit(spans, service) PROVE ToSet(spans) \subseteq ToSet(flat)
  <2>1. PICK i \in 1 .. n : service \in InName[spans[i]]
    BY <1>1, <1>12 DEF Hit
  <2>2. Sofar(n)
    BY <1>2, <2>1
  <2>3. n \in 1 .. n
    BY <1>2, <2>1
  <2>4. seqs[n] = SubSeq(spans, 1, n)
    BY <1>3, <2>2, <2>3
  <2>5. Len(seqs[n]) = n /\ \A j \in 1 .. n : seqs[n][j] = spans[j]
    BY <1>4, <2>3, <2>4
  <2>6. ASSUME NEW j \in 1 .. n PROVE spans[j] \in ToSet(flat)
    <3>1. PICK q \in 1 .. Len(flat) : row[q] = n /\ col[q] = j
      <4>1. j \in 1 .. Len(seqs[n])
        BY <2>5
      <4> QED BY ONLY <1>9, <2>3, <4>1 DEF Placed
    <3>2. flat[q] = spans[j]
      BY <1>10, <3>1
    <3>3. q \in DOMAIN flat
      BY <1>8
    <3> QED BY <3>2, <3>3 DEF ToSet
  <2> QED BY <1>2, <2>6 DEF ToSet
<1>13. ASSUME ~Hit(spans, service) PROVE ToSet(flat) = {}
  <2>1. ASSUME NEW q \in 1 .. Len(flat) PROVE FALSE
    <3>1. Sofar(row[q]) /\ row[q] \in 1 .. n
      BY <1>10
    <3>2. PICK j \in 1 .. row[q] : service \in InName[spans[j]]
      BY <3>1
    <3>3. j \in 1 .. n
      BY <1>2, <3>1
    <3> QED BY <1>1, <1>13, <3>2, <3>3 DEF Hit
  <2> QED BY <1>8, <2>1 DEF ToSet
<1>14. ASSUME NEW s, NEW q \in {p \in 1 .. Len(flat) : flat[p] = s},
              NEW r \in {p \in 1 .. Len(flat) : flat[p] = s}
       PROVE  row[q] \in 1 .. n /\ (row[q] = row[r] => q = r)
  <2>1. q \in 1 .. Len(flat) /\ r \in 1 .. Len(flat) /\ flat[q] = flat[r]
    OBVIOUS
  <2>2. /\ row[q] \in 1 .. n /\ col[q] \in 1 .. n /\ col[r] \in 1 .. n
        /\ spans[col[q]] = spans[col[r]]
    <3>1. ASSUME NEW p \in 1 .. Len(flat)
          PROVE  row[p] \in 1 .. n /\ col[p] \in 1 .. n /\ flat[p] = spans[col[p]]
      <4>1. row[p] \in 1 .. n /\ col[p] \in 1 .. row[p] /\ flat[p] = spans[col[p]]
        BY <1>10
      <4> QED BY ONLY <1>2, <4>1
    <3> QED BY ONLY <2>1, <3>1
  <2>3. col[q] = col[r]
    BY <1>1, <2>2 DEF EachOnce
  <2> QED BY <1>9, <2>1, <2>2, <2>3 DEF Placed
<1>15. \A s : AtMost(flat, s, n)
  BY ONLY <1>14 DEF AtMost
<1> QED BY ONLY <1>1, <1>7, <1>8, <1>11, <1>12, <1>13, <1>15

\* All traces: the spans of those that have one that matches, and each as often at
\* most as its trace has spans.
LEMMA FilterFacts ==
  ASSUME NEW T, NEW orders \in Seq(Seq(T)), NEW service,
         \A k \in 1 .. Len(orders) : EachOnce(orders[k]),
         \A k, l \in 1 .. Len(orders) : k # l => ToSet(orders[k]) \cap ToSet(orders[l]) = {},
         NEW ret, ret = filterServiceSpans(orders, service)
  PROVE  /\ ret \in Seq(T)
         /\ ToSet(ret) = UNION {ToSet(orders[k]) :
                               k \in {l \in 1 .. Len(orders) : Hit(orders[l], service)}}
         /\ \A k \in 1 .. Len(orders) : \A s \in ToSet(orders[k]) :
              AtMost(ret, s, Len(orders[k]))
<1>1. PICK n : n = Len(orders)
  OBVIOUS
<1>2. /\ n \in Nat /\ DOMAIN orders = 1 .. n
      /\ \A k \in 1 .. n : orders[k] \in Seq(T) /\ EachOnce(orders[k])
  BY <1>1
<1>3. PICK seqs : seqs = [k \in 1 .. n |-> TraceSpans(orders[k], service)]
  OBVIOUS
<1>4. ASSUME NEW k \in 1 .. n
      PROVE  /\ seqs[k] = TraceSpans(orders[k], service) /\ seqs[k] \in Seq(T)
             /\ Hit(orders[k], service) => ToSet(seqs[k]) = ToSet(orders[k])
             /\ ~Hit(orders[k], service) => ToSet(seqs[k]) = {}
             /\ \A s : AtMost(seqs[k], s, Len(orders[k]))
  <2>1. seqs[k] = TraceSpans(orders[k], service)
    BY <1>3
  <2>2. PICK o : o = orders[k]
    OBVIOUS
  <2>3. o \in Seq(T) /\ EachOnce(o)
    BY <1>2, <2>2
  <2>4. PICK sp : sp = TraceSpans(o, service)
    OBVIOUS
  <2>5. /\ sp \in Seq(T)
        /\ Hit(o, service) => ToSet(sp) = ToSet(o)
        /\ ~Hit(o, service) => ToSet(sp) = {}
        /\ \A s : AtMost(sp, s, Len(o))
    BY ONLY <2>3, <2>4, TraceSpansFacts
  <2> QED BY ONLY <2>1, <2>2, <2>4, <2>5
<1>5. seqs \in Seq(Seq(T)) /\ Len(seqs) = n
  <2>1. PICK U : U = Seq(T)
    OBVIOUS
  <2>2. \A k \in 1 .. n : seqs[k] \in U
    BY <1>4, <2>1
  <2>3. seqs \in [1 .. n -> U]
    BY <1>3, <2>2
  <2>4. seqs \in Seq(U) /\ Len(seqs) = n
    BY ONLY <1>2, <2>3
  <2> QED BY <2>1, <2>4
<1>6. ret = FlattenSeq(seqs)
  BY <1>2, <1>3 DEF filterServiceSpans
<1>7. ret \in Seq(T)
  BY <1>5, <1>6, FlattenPlaces
<1>8. PICK row, col : Placed(ret, seqs, n, row, col)
  BY <1>5, <1>6, FlattenPlaces
<1>9. ASSUME NEW k \in 1 .. n
      PROVE  \A s : s \in ToSet(seqs[k]) <=> \E p \in 1 .. Len(seqs[k]) : seqs[k][p] = s
  BY <1>4 DEF ToSet
<1>10. ASSUME NEW q \in 1 .. Len(ret)
       PROVE  /\ row[q] \in 1 .. n /\ col[q] \in 1 .. Len(seqs[row[q]])
              /\ ret[q] = seqs[row[q]][col[q]] /\ ret[q] \in ToSet(seqs[row[q]])
              /\ Hit(orders[row[q]], service) /\ ret[q] \in ToSet(orders[row[q]])
  <2>1. /\ row[q] \in 1 .. n /\ col[q] \in 1 .. Len(seqs[row[q]])
        /\ ret[q] = seqs[row[q]][col[q]]
    BY <1>8 DEF Placed
  <2>2. ret[q] \in ToSet(seqs[row[q]])
    BY <1>9, <2>1
  <2>3. Hit(orders[row[q]], service) /\ ret[q] \in ToSet(orders[row[q]])
    BY <1>4, <2>1, <2>2
  <2> QED BY <2>1, <2>2, <2>3
<1> DEFINE Hits == {l \in 1 .. n : Hit(orders[l], service)}
           Wanted == UNION {ToSet(orders[k]) : k \in Hits}
<1>11. ToSet(ret) \subseteq Wanted
  <2>1. ASSUME NEW q \in 1 .. Len(ret) PROVE ret[q] \in Wanted
    <3>1. row[q] \in 1 .. n /\ Hit(orders[row[q]], service) /\ ret[q] \in ToSet(orders[row[q]])
      BY <1>10
    <3>2. row[q] \in Hits
      BY <3>1
    <3> QED BY ONLY <3>1, <3>2
  <2> QED BY <1>7, <2>1 DEF ToSet
<1>12. ASSUME NEW k \in Hits, NEW s \in ToSet(orders[k]) PROVE s \in ToSet(ret)
  <2>1. PICK p \in 1 .. Len(seqs[k]) : seqs[k][p] = s
    BY <1>4, <1>9
  <2>2. PICK q \in 1 .. Len(ret) : row[q] = k /\ col[q] = p
    BY <1>8, <2>1 DEF Placed
  <2>3. ret[q] = s
    BY <1>10, <2>1, <2>2
  <2> QED BY <1>7, <2>3 DEF ToSet
<1>13. ToSet(ret) = Wanted
  BY ONLY <1>11, <1>12
<1>14. ASSUME NEW k \in 1 .. n, NEW s \in ToSet(orders[k])
       PROVE  AtMost(ret, s, Len(orders[k]))
  <2>1. PICK h : \A q, r \in {p \in 1 .. Len(seqs[k]) : seqs[k][p] = s} :
                   h[q] \in 1 .. Len(orders[k]) /\ (h[q] = h[r] => q = r)
    <3>1. AtMost(seqs[k], s, Len(orders[k]))
      BY <1>4
    <3> QED BY ONLY <3>1 DEF AtMost
  <2>2. PICK g : g = [q \in 1 .. Len(ret) |-> h[col[q]]]
    OBVIOUS
  <2>3. ASSUME NEW q \in 1 .. Len(ret), ret[q] = s
        PROVE  row[q] = k /\ col[q] \in {p \in 1 .. Len(seqs[k]) : seqs[k][p] = s}
    <3>1. row[q] \in 1 .. n /\ s \in ToSet(orders[row[q]])
      BY <1>10, <2>3
    <3>2. row[q] = k
      BY <1>1, <3>1
    <3> QED BY <1>10, <2>3, <3>2
  <2>4. ASSUME NEW q \in {p \in 1 .. Len(ret) : ret[p] = s},
               NEW r \in {p \in 1 .. Len(ret) : ret[p] = s}
        PROVE  g[q] \in 1 .. Len(orders[k]) /\ (g[q] = g[r] => q = r)
    <3>1. /\ q \in 1 .. Len(ret) /\ r \in 1 .. Len(ret) /\ row[q] = k /\ row[r] = k
          /\ col[q] \in {p \in 1 .. Len(seqs[k]) : seqs[k][p] = s}
          /\ col[r] \in {p \in 1 .. Len(seqs[k]) : seqs[k][p] = s}
      BY <2>3
    <3>2. g[q] = h[col[q]] /\ g[r] = h[col[r]]
      BY <2>2, <3>1
    <3>3. h[col[q]] \in 1 .. Len(orders[k]) /\ (h[col[q]] = h[col[r]] => col[q] = col[r])
      BY ONLY <2>1, <3>1
    <3>4. col[q] = col[r] => q = r
      BY <1>8, <3>1 DEF Placed
    <3> QED BY ONLY <3>2, <3>3, <3>4
  <2> QED BY ONLY <2>4 DEF AtMost
<1> HIDE DEF Hits
<1>15. Hits = {l \in 1 .. Len(orders) : Hit(orders[l], service)}
  BY <1>1 DEF Hits
<1> QED BY ONLY <1>1, <1>7, <1>13, <1>14, <1>15

\* What Trace.Read has before the limit.
InFull(ret, all, asked) ==
  /\ ret \in Seq(all) /\ ToSet(ret) = asked
  /\ \A s \in ToSet(ret) :
       Cardinality({i \in DOMAIN ret : ret[i] = s}) <= Cardinality(TraceIn(all, TraceOf[s]))

\* And after it.
LEMMA LimitedAnswers ==
  ASSUME NEW all, IsFiniteSet(all), NEW asked, NEW whole, InFull(whole, all, asked),
         NEW limit \in Nat
  PROVE  Answers(Limited(whole, limit), all, asked, limit)
<1>1. PICK ret : ret = Limited(whole, limit)
  OBVIOUS
<1>2. /\ whole \in Seq(all) /\ ToSet(whole) = asked /\ Len(whole) \in Nat
      /\ DOMAIN whole = 1 .. Len(whole)
      /\ \A s \in ToSet(whole) :
           Cardinality({i \in DOMAIN whole : whole[i] = s}) <= Cardinality(TraceIn(all, TraceOf[s]))
  BY DEF InFull
<1>3. CASE limit = 0 \/ limit >= Len(whole)
  <2>1. ret = whole
    BY <1>1, <1>3 DEF Limited
  <2> QED BY ONLY <1>1, <1>2, <2>1 DEF Answers
<1>4. CASE ~(limit = 0 \/ limit >= Len(whole))
  <2>1. ret = SubSeq(whole, 1, limit)
    BY <1>1, <1>4 DEF Limited
  <2>2. limit < Len(whole)
    BY <1>2, <1>4
  <2>3. /\ Len(ret) = limit /\ DOMAIN ret = 1 .. limit
        /\ \A i \in 1 .. limit : ret[i] = whole[i] /\ i \in DOMAIN whole
    BY ONLY <1>2, <2>1, <2>2, limit \in Nat
  <2>4. ToSet(ret) \subseteq ToSet(whole)
    BY ONLY <2>3 DEF ToSet
  <2>5. ASSUME NEW s \in ToSet(ret)
        PROVE  Cardinality({i \in DOMAIN ret : ret[i] = s}) <= Cardinality(TraceIn(all, TraceOf[s]))
    <3>1. PICK P, Q, T : /\ P = {i \in DOMAIN ret : ret[i] = s} /\ Q = {i \in DOMAIN whole : whole[i] = s}
                         /\ T = TraceIn(all, TraceOf[s])
      OBVIOUS
    <3>2. P \subseteq Q /\ Q \subseteq 1 .. Len(whole)
      BY ONLY <1>2, <2>3, <3>1
    <3>3. IsFiniteSet(1 .. Len(whole))
      BY ONLY <1>2, FS_Interval
    <3>4. IsFiniteSet(Q)
      BY ONLY <3>2, <3>3, FS_Subset
    <3>5. IsFiniteSet(P) /\ Cardinality(P) <= Cardinality(Q)
      BY ONLY <3>2, <3>4, FS_Subset
    <3>6. T \subseteq all
      BY <3>1 DEF TraceIn
    <3>7. IsFiniteSet(T)
      BY ONLY <3>6, IsFiniteSet(all), FS_Subset
    <3>8. Cardinality(P) \in Nat /\ Cardinality(Q) \in Nat /\ Cardinality(T) \in Nat
      BY ONLY <3>4, <3>5, <3>7, FS_CardinalityType
    <3>9. Cardinality(Q) <= Cardinality(T)
      BY <1>2, <2>4, <3>1
    <3>10. Cardinality(P) <= Cardinality(T)
      BY ONLY <3>5, <3>8, <3>9
    <3> QED BY ONLY <3>1, <3>10
  <2> QED BY ONLY <1>1, <1>2, <2>3, <2>4, <2>5 DEF Answers
<1> QED BY <1>3, <1>4

\* Of all spans, each is read once.
LEMMA AllOfSpans ==
  ASSUME NEW all, IsFiniteSet(all), NEW ret \in dedupeSpans(all)
  PROVE  InFull(ret, all, all)
<1>1. /\ ret \in Seq(all) /\ ToSet(ret) = all
      /\ \A i, j \in 1 .. Len(ret) : i # j => ret[i] # ret[j]
  <2>1. ret \in SetToSeqs(all)
    BY DEF dedupeSpans
  <2> QED BY ONLY <2>1, IsFiniteSet(all), SetSequences
<1>2. ASSUME NEW s \in ToSet(ret)
      PROVE  Cardinality({i \in DOMAIN ret : ret[i] = s}) <= Cardinality(TraceIn(all, TraceOf[s]))
  <2>1. PICK k \in 1 .. Len(ret) : ret[k] = s
    BY <1>1 DEF ToSet
  <2>2. {i \in DOMAIN ret : ret[i] = s} = {k}
    BY <1>1, <2>1
  <2>3. Cardinality({k}) = 1
    BY FS_Singleton
  <2>4. PICK T : T = TraceIn(all, TraceOf[s])
    OBVIOUS
  <2>5. s \in T /\ T \subseteq all
    BY <1>1, <2>4 DEF TraceIn
  <2>6. IsFiniteSet(T)
    BY ONLY <2>5, IsFiniteSet(all), FS_Subset
  <2>7. Cardinality(T) \in Nat /\ Cardinality(T) # 0
    BY ONLY <2>5, <2>6, FS_CardinalityType, FS_EmptySet
  <2>8. Cardinality({k}) <= Cardinality(T)
    BY ONLY <2>3, <2>7
  <2> QED BY ONLY <2>2, <2>4, <2>8
<1> QED BY ONLY <1>1, <1>2 DEF InFull

\* Of any spans, in any order, those are read that are of a trace that is asked for.
LEMMA ReadOfSpans ==
  ASSUME NEW all, IsFiniteSet(all), NEW service, NEW ids \in SetToSeqs(TracesIn(all)),
         NEW f \in Orders(all),
         NEW ret, ret = filterServiceSpans([i \in DOMAIN ids |-> f[ids[i]]], service)
  PROVE  InFull(ret, all, SpansOf(all, service))
<1>1. IsFiniteSet(TracesIn(all))
  <2>1. PICK g : g = [s \in all |-> TraceOf[s]]
    OBVIOUS
  <2>2. g \in Surjection(all, TracesIn(all))
    BY <2>1 DEF Surjection, TracesIn
  <2> QED BY <2>2, FS_Surjection
<1>2. \A t : IsFiniteSet(TraceIn(all, t)) /\ TraceIn(all, t) \subseteq all
  <2>1. ASSUME NEW t PROVE IsFiniteSet(TraceIn(all, t))
    <3>1. TraceIn(all, t) \in SUBSET all
      BY DEF TraceIn
    <3> QED BY <3>1, FS_Subset
  <2>2. \A t : TraceIn(all, t) \subseteq all
    BY DEF TraceIn
  <2> QED BY ONLY <2>1, <2>2
<1>3. \A t \in TracesIn(all) : f[t] \in SetToSeqs(TraceIn(all, t))
  BY DEF Orders
<1>4. /\ ids \in Seq(TracesIn(all)) /\ ToSet(ids) = TracesIn(all)
      /\ \A i, j \in 1 .. Len(ids) : i # j => ids[i] # ids[j]
  BY ONLY <1>1, SetSequences, ids \in SetToSeqs(TracesIn(all))
<1>5. ASSUME NEW t \in TracesIn(all)
      PROVE  /\ f[t] \in Seq(all) /\ Len(f[t]) = Cardinality(TraceIn(all, t))
             /\ ToSet(f[t]) = TraceIn(all, t) /\ EachOnce(f[t])
  <2>1. PICK o, S : o = f[t] /\ S = TraceIn(all, t)
    OBVIOUS
  <2>2. o \in SetToSeqs(S) /\ IsFiniteSet(S) /\ S \subseteq all
    BY <1>2, <1>3, <2>1
  <2>3. /\ o \in Seq(S) /\ Len(o) = Cardinality(S) /\ ToSet(o) = S
        /\ \A i, j \in 1 .. Len(o) : i # j => o[i] # o[j]
    BY ONLY <2>2, SetSequences
  <2>4. o \in Seq(all)
    BY ONLY <2>2, <2>3
  <2>5. EachOnce(o)
    BY ONLY <2>3 DEF EachOnce
  <2> QED BY ONLY <2>1, <2>3, <2>4, <2>5
<1>6. PICK n : n = Len(ids)
  OBVIOUS
<1>7. /\ n \in Nat /\ DOMAIN ids = 1 .. n /\ \A i \in 1 .. n : ids[i] \in TracesIn(all)
      /\ \A t \in TracesIn(all) : \E i \in 1 .. n : ids[i] = t
  <2>1. n \in Nat /\ DOMAIN ids = 1 .. n /\ \A i \in 1 .. n : ids[i] \in TracesIn(all)
    BY <1>4, <1>6
  <2> QED BY <1>4, <2>1 DEF ToSet
<1>8. PICK orders : orders = [i \in 1 .. n |-> f[ids[i]]]
  OBVIOUS
<1>9. orders \in Seq(Seq(all)) /\ Len(orders) = n
  <2>1. PICK U : U = Seq(all)
    OBVIOUS
  <2>2. orders \in [1 .. n -> U]
    BY <1>5, <1>7, <1>8, <2>1
  <2>3. orders \in Seq(U) /\ Len(orders) = n
    BY ONLY <1>7, <2>2
  <2> QED BY <2>1, <2>3
<1>10. ASSUME NEW k \in 1 .. n
       PROVE  /\ orders[k] = f[ids[k]] /\ ids[k] \in TracesIn(all) /\ EachOnce(orders[k])
              /\ ToSet(orders[k]) = TraceIn(all, ids[k]) /\ orders[k] \in Seq(all)
              /\ Len(orders[k]) = Cardinality(TraceIn(all, ids[k]))
  BY <1>5, <1>7, <1>8
<1>11. \A t, u \in TracesIn(all) : t # u => TraceIn(all, t) \cap TraceIn(all, u) = {}
  BY DEF TraceIn
<1>12. \A k, l \in 1 .. Len(orders) : k # l => ToSet(orders[k]) \cap ToSet(orders[l]) = {}
  BY <1>4, <1>6, <1>9, <1>10, <1>11
<1>13. ret = filterServiceSpans(orders, service)
  BY <1>7, <1>8
<1>14. \A k \in 1 .. Len(orders) : EachOnce(orders[k])
  BY <1>9, <1>10
<1>15. /\ ret \in Seq(all)
       /\ ToSet(ret) = UNION {ToSet(orders[k]) :
                             k \in {l \in 1 .. Len(orders) : Hit(orders[l], service)}}
       /\ \A k \in 1 .. Len(orders) : \A s \in ToSet(orders[k]) :
            AtMost(ret, s, Len(orders[k]))
  BY ONLY <1>9, <1>12, <1>13, <1>14, FilterFacts
<1>16. ASSUME NEW k \in 1 .. n
       PROVE  Hit(orders[k], service) <=> \E u \in TraceIn(all, ids[k]) : service \in InName[u]
  <2>1. \A s : s \in TraceIn(all, ids[k]) <=> \E i \in 1 .. Len(orders[k]) : orders[k][i] = s
    <3>1. PICK o, S : o = orders[k] /\ S = TraceIn(all, ids[k])
      OBVIOUS
    <3>2. o \in Seq(all) /\ ToSet(o) = S
      BY <1>10, <3>1
    <3>3. \A s : s \in S <=> \E i \in 1 .. Len(o) : o[i] = s
      BY ONLY <3>2 DEF ToSet
    <3> QED BY ONLY <3>1, <3>3
  <2> QED BY <2>1 DEF Hit
<1>17. ToSet(ret) = {s \in all : \E u \in TraceIn(all, TraceOf[s]) : service \in InName[u]}
  <2>1. ASSUME NEW s \in ToSet(ret)
        PROVE  s \in all /\ \E u \in TraceIn(all, TraceOf[s]) : service \in InName[u]
    <3>1. PICK k \in 1 .. n : Hit(orders[k], service) /\ s \in ToSet(orders[k])
      BY <1>9, <1>15
    <3>2. s \in all /\ TraceOf[s] = ids[k]
      BY <1>10, <3>1 DEF TraceIn
    <3> QED BY <1>16, <3>1, <3>2
  <2>2. ASSUME NEW s \in all, \E u \in TraceIn(all, TraceOf[s]) : service \in InName[u]
        PROVE  s \in ToSet(ret)
    <3>1. TraceOf[s] \in TracesIn(all) /\ s \in TraceIn(all, TraceOf[s])
      BY DEF TraceIn, TracesIn
    <3>2. PICK k \in 1 .. n : ids[k] = TraceOf[s]
      BY <1>7, <3>1
    <3>3. Hit(orders[k], service) /\ s \in ToSet(orders[k])
      BY <1>10, <1>16, <2>2, <3>1, <3>2
    <3> QED BY <1>9, <1>15, <3>3
  <2> QED BY ONLY <2>1, <2>2
<1>18. ASSUME NEW s \in ToSet(ret)
       PROVE  Cardinality({i \in DOMAIN ret : ret[i] = s}) <= Cardinality(TraceIn(all, TraceOf[s]))
  <2>1. PICK k \in 1 .. n : s \in ToSet(orders[k])
    BY <1>9, <1>15
  <2>2. PICK m, P : m = Len(orders[k]) /\ P = {p \in 1 .. Len(ret) : ret[p] = s}
    OBVIOUS
  <2>3. PICK g : \A q, r \in P : g[q] \in 1 .. m /\ (g[q] = g[r] => q = r)
    <3>1. AtMost(ret, s, m)
      BY <1>9, <1>15, <2>1, <2>2
    <3> QED BY ONLY <2>2, <3>1 DEF AtMost
  <2>4. PICK h : h = [q \in P |-> g[q]]
    OBVIOUS
  <2>5. h \in Injection(P, 1 .. m)
    BY ONLY <2>3, <2>4 DEF Injection, IsInjective
  <2>6. m \in Nat
    BY <1>10, <2>2
  <2>7. IsFiniteSet(1 .. m) /\ Cardinality(1 .. m) = m
    BY ONLY <2>6, FS_Interval
  <2>8. Cardinality(P) <= m
    BY ONLY <2>5, <2>7, FS_Injection
  <2>9. TraceOf[s] = ids[k]
    BY <1>10, <2>1 DEF TraceIn
  <2>10. m = Cardinality(TraceIn(all, TraceOf[s]))
    BY <1>10, <2>2, <2>9
  <2>11. P = {i \in DOMAIN ret : ret[i] = s}
    BY <1>15, <2>2
  <2> QED BY ONLY <2>8, <2>10, <2>11
<1>19. ToSet(ret) = SpansOf(all, service)
  BY ONLY <1>17 DEF SpansOf
<1> QED BY ONLY <1>15, <1>18, <1>19 DEF InFull

\* Trace.Read: whatever the rings hold.
LEMMA ReadsComplete == DebugTypeOK => TraceReadsComplete
<1> SUFFICES ASSUME DebugTypeOK, NEW past \in BOOLEAN, NEW all,
                    all = UNION {SpansIn(Entries(past)[i]) : i \in DOMAIN Entries(past)}
             PROVE  /\ \A spans \in dedupeSpans(all), limit \in Limits :
                         Answers(Limited(spans, limit), all, all, limit)
                    /\ \A service \in UNION {InName[s] : s \in Spans} :
                         \A ids \in SetToSeqs(TracesIn(all)), f \in Orders(all), limit \in Limits :
                           Answers(Limited(filterServiceSpans([i \in DOMAIN ids |-> f[ids[i]]], service),
                                           limit), all, SpansOf(all, service), limit)
  BY DEF TraceReadsComplete
<1>1. all \subseteq Spans
  <2>1. \A i \in DOMAIN traceRing : traceRing[i] \in SUBSET Snapshots
    BY DEF DebugTypeOK
  <2>2. \A i \in DOMAIN Entries(past) : Entries(past)[i] \in SUBSET Snapshots
    <3>1. CASE past \/ traceRing = <<>>
      BY <2>1, <3>1 DEF Entries
    <3>2. CASE ~(past \/ traceRing = <<>>)
      <4>1. Entries(past) = <<traceRing[Len(traceRing)]>>
        BY <3>2 DEF Entries, Last
      <4>2. Len(traceRing) \in DOMAIN traceRing
        BY <3>2 DEF DebugTypeOK
      <4>3. PICK e : e = traceRing[Len(traceRing)]
        OBVIOUS
      <4>4. DOMAIN <<e>> = {1} /\ <<e>>[1] = e
        OBVIOUS
      <4> QED BY <2>1, <4>1, <4>2, <4>3, <4>4
    <3> QED BY <3>1, <3>2
  <2>3. \A e \in SUBSET Snapshots : SpansIn(e) \subseteq Spans
    BY DEF SpansIn, Snapshots
  <2> QED BY <2>2, <2>3
<1>2. IsFiniteSet(all) /\ Limits \subseteq Nat
  BY <1>1, FS_Subset, DebugAssumption
<1>3. ASSUME NEW spans \in dedupeSpans(all), NEW limit \in Limits
      PROVE  Answers(Limited(spans, limit), all, all, limit)
  <2>1. limit \in Nat /\ InFull(spans, all, all)
    BY <1>2, AllOfSpans
  <2> QED BY ONLY <1>2, <2>1, LimitedAnswers
<1>4. ASSUME NEW service, NEW ids \in SetToSeqs(TracesIn(all)), NEW f \in Orders(all), NEW limit \in Limits
      PROVE  Answers(Limited(filterServiceSpans([i \in DOMAIN ids |-> f[ids[i]]], service), limit),
                     all, SpansOf(all, service), limit)
  <2>1. PICK ret, asked :
          /\ ret = filterServiceSpans([i \in DOMAIN ids |-> f[ids[i]]], service)
          /\ asked = SpansOf(all, service)
    OBVIOUS
  <2>2. limit \in Nat /\ InFull(ret, all, asked)
    BY <1>2, <2>1, ReadOfSpans
  <2>3. Answers(Limited(ret, limit), all, asked, limit)
    BY ONLY <1>2, <2>2, LimitedAnswers
  <2> QED BY <2>1, <2>3
<1> QED BY <1>3, <1>4

-----------------------------------------------------------------------------
(****************************************************************************)
(* The statistics of requests: there is always a counter to count in, and  *)
(* what the counters count, with those that were dropped, is every         *)
(* response.                                                               *)
(****************************************************************************)

\* f[i] is what the first i counters count.
CountsUp(f, before, cs, n) ==
  /\ f \in [0 .. n -> [Codes -> Nat]]
  /\ f[0] = before /\ Counted(before, cs, n) = f[n]
  /\ \A i \in 1 .. n : f[i] = Plus(f[i - 1], cs[i])

\* Counted unfolds: nothing but what was before, and one more counter each time.
LEMMA CountedUnfolds ==
  ASSUME NEW before \in [Codes -> Nat], NEW cs \in Seq([Codes -> Nat]), NEW n \in 0 .. Len(cs)
  PROVE  \E f : CountsUp(f, before, cs, n)
<1> DEFINE T == [Codes -> Nat]
           Unfolded(f) == f = [i \in 0 .. n |-> IF i = 0 THEN before ELSE Plus(f[i - 1], cs[i])]
<1>1. n \in Nat /\ \A i \in 1 .. n : cs[i] \in T
  OBVIOUS
<1>2. \A a \in T, b \in T : Plus(a, b) \in T
  BY DEF Plus
<1>3. PICK step : step = [i \in 0 + 1 .. n |-> [a \in T |-> Plus(a, cs[i])]]
  OBVIOUS
<1>4. step \in [0 + 1 .. n -> [T -> T]]
  <2>1. \A i \in 0 + 1 .. n : cs[i] \in T
    BY <1>1
  <2>2. \A i \in 0 + 1 .. n : [a \in T |-> Plus(a, cs[i])] \in [T -> T]
    BY <1>2, <2>1
  <2> QED BY <1>3, <2>2
<1> HIDE DEF T
<1>5. PICK g \in [0 .. n -> T] : g[0] = before /\ \A i \in 0 + 1 .. n : g[i] = step[i][g[i - 1]]
  <2>1. before \in T /\ 0 <= n /\ 0 \in Nat /\ n \in Nat
    BY <1>1 DEF T
  <2>2. \E g : Follows(g, 0, n, T, before, step)
    BY ONLY <1>4, <2>1, Recursion
  <2> QED BY <2>2 DEF Follows
<1>6. ASSUME NEW i \in 1 .. n PROVE g[i] = Plus(g[i - 1], cs[i])
  <2>1. i - 1 \in 0 .. n /\ i \in 0 + 1 .. n
    BY <1>1
  <2>2. g[i] = step[i][g[i - 1]]
    BY <1>5, <2>1
  <2> QED BY <1>3, <1>5, <2>1, <2>2
<1>8. Unfolded(g)
  <2>1. \A i \in 0 .. n : g[i] = IF i = 0 THEN before ELSE Plus(g[i - 1], cs[i])
    BY <1>1, <1>5, <1>6
  <2>2. g = [i \in 0 .. n |-> g[i]]
    BY <1>5
  <2> QED BY <2>1, <2>2
<1>9. PICK f : f = CHOOSE h : Unfolded(h)
  OBVIOUS
<1>10. Unfolded(f)
  BY <1>8, <1>9
<1>11. Counted(before, cs, n) = f[n]
  BY <1>9 DEF Counted
<1>12. f[0] = before /\ \A i \in 1 .. n : f[i] = Plus(f[i - 1], cs[i])
  BY <1>1, <1>10
<1>13. f \in [0 .. n -> T]
  <2> DEFINE S == {i \in 0 .. n : f[i] \in T}
  <2>1. 0 \in S
    BY <1>1, <1>12 DEF T
  <2>2. ASSUME NEW i \in 0 .. n - 1, i \in S PROVE i + 1 \in S
    <3>1. i + 1 \in 1 .. n /\ i + 1 \in 0 .. n /\ i + 1 - 1 = i
      BY <1>1
    <3>2. f[i + 1] = Plus(f[i], cs[i + 1])
      BY <1>12, <3>1
    <3> QED BY <1>1, <1>2, <2>2, <3>1, <3>2
  <2> HIDE DEF S
  <2>3. 0 .. n \subseteq S
    BY ONLY <1>1, <2>1, <2>2, UpTo
  <2>4. \A i \in 0 .. n : f[i] \in T
    BY <2>3 DEF S
  <2> QED BY <1>10, <2>4
<1>14. CountsUp(f, before, cs, n)
  BY <1>11, <1>12, <1>13 DEF T, CountsUp
<1> QED BY <1>14

\* Counters that agree count the same.
LEMMA CountedAgrees ==
  ASSUME NEW before \in [Codes -> Nat], NEW cs \in Seq([Codes -> Nat]),
         NEW ds \in Seq([Codes -> Nat]), NEW n \in 0 .. Len(cs), n <= Len(ds),
         \A i \in 1 .. n : cs[i] = ds[i]
  PROVE  Counted(before, cs, n) = Counted(before, ds, n)
<1>1. n \in Nat /\ n \in 0 .. Len(ds)
  OBVIOUS
<1>2. PICK f : CountsUp(f, before, cs, n)
  BY CountedUnfolds
<1>3. PICK g : CountsUp(g, before, ds, n)
  BY <1>1, CountedUnfolds
<1> USE DEF CountsUp
<1> DEFINE S == {i \in 0 .. n : f[i] = g[i]}
<1>4. 0 \in S
  BY <1>1, <1>2, <1>3
<1>5. ASSUME NEW i \in 0 .. n - 1, i \in S PROVE i + 1 \in S
  <2>1. i + 1 \in 1 .. n /\ i + 1 \in 0 .. n /\ i + 1 - 1 = i
    BY <1>1
  <2>2. f[i + 1] = Plus(f[i], cs[i + 1]) /\ g[i + 1] = Plus(g[i], ds[i + 1])
    BY <1>2, <1>3, <2>1
  <2> QED BY <1>5, <2>1, <2>2
<1> HIDE DEF S
<1>6. 0 .. n \subseteq S
  BY ONLY <1>1, <1>4, <1>5, UpTo
<1>7. n \in S
  BY <1>1, <1>6
<1> QED BY <1>2, <1>3, <1>7 DEF S

\* The last counter is added to what those before it count.
LEMMA CountedLast ==
  ASSUME NEW before \in [Codes -> Nat], NEW cs \in Seq([Codes -> Nat]), NEW n \in 1 .. Len(cs)
  PROVE  /\ Counted(before, cs, n - 1) \in [Codes -> Nat]
         /\ Counted(before, cs, n) = Plus(Counted(before, cs, n - 1), cs[n])
<1>1. n \in Nat /\ n \in 0 .. Len(cs) /\ n - 1 \in 0 .. Len(cs) /\ n - 1 \in Nat
  OBVIOUS
<1>2. PICK f : CountsUp(f, before, cs, n)
  BY <1>1, CountedUnfolds
<1>3. PICK g : CountsUp(g, before, cs, n - 1)
  BY <1>1, CountedUnfolds
<1> USE DEF CountsUp
<1> DEFINE S == {i \in 0 .. n - 1 : f[i] = g[i]}
<1>4. 0 \in S
  BY <1>1, <1>2, <1>3
<1>5. ASSUME NEW i \in 0 .. n - 1 - 1, i \in S PROVE i + 1 \in S
  <2>1. i + 1 \in 1 .. n - 1 /\ i + 1 \in 1 .. n /\ i + 1 \in 0 .. n - 1 /\ i + 1 - 1 = i
    BY <1>1
  <2>2. f[i + 1] = Plus(f[i], cs[i + 1]) /\ g[i + 1] = Plus(g[i], cs[i + 1])
    BY <1>2, <1>3, <2>1
  <2> QED BY <1>5, <2>1, <2>2
<1> HIDE DEF S
<1>6. 0 .. n - 1 \subseteq S
  BY ONLY <1>1, <1>4, <1>5, UpTo
<1>7. f[n - 1] = g[n - 1]
  BY <1>1, <1>6 DEF S
<1>8. g[n - 1] \in [Codes -> Nat]
  BY <1>1, <1>3
<1>9. f[n] = Plus(f[n - 1], cs[n])
  BY <1>1, <1>2
<1> QED BY <1>2, <1>3, <1>7, <1>8, <1>9

\* The first counter may as well have been counted before.
LEMMA CountedFirst ==
  ASSUME NEW before \in [Codes -> Nat], NEW cs \in Seq([Codes -> Nat]), cs # <<>>
  PROVE  Counted(Plus(before, Head(cs)), Tail(cs), Len(Tail(cs))) = Counted(before, cs, Len(cs))
<1>1. PICK n : n = Len(cs)
  OBVIOUS
<1>2. PICK ds, b : ds = Tail(cs) /\ b = Plus(before, Head(cs))
  OBVIOUS
<1>3. /\ n \in Nat /\ n >= 1 /\ n \in 0 .. Len(cs)
      /\ ds \in Seq([Codes -> Nat]) /\ Len(ds) = n - 1 /\ n - 1 \in 0 .. Len(ds)
      /\ \A i \in 1 .. n - 1 : ds[i] = cs[i + 1]
      /\ Head(cs) = cs[1] /\ cs[1] \in [Codes -> Nat]
  BY <1>1, <1>2
<1>4. b \in [Codes -> Nat]
  BY <1>2, <1>3 DEF Plus
<1>5. PICK f : CountsUp(f, before, cs, n)
  BY ONLY <1>3, CountedUnfolds, before \in [Codes -> Nat], cs \in Seq([Codes -> Nat])
<1>6. PICK g : CountsUp(g, b, ds, n - 1)
  BY ONLY <1>3, <1>4, CountedUnfolds
<1> USE DEF CountsUp
<1> DEFINE S == {i \in 0 .. n - 1 : f[i + 1] = g[i]}
<1>7. 0 \in S
  <2>1. 1 \in 1 .. n /\ 1 - 1 = 0 /\ 0 + 1 = 1 /\ 0 \in 0 .. n - 1
    BY <1>3
  <2>2. f[1] = Plus(f[0], cs[1])
    BY <1>5, <2>1
  <2> QED BY <1>2, <1>3, <1>5, <1>6, <2>1, <2>2
<1>8. ASSUME NEW i \in 0 .. n - 1 - 1, i \in S PROVE i + 1 \in S
  <2>1. /\ i + 1 \in 1 .. n - 1 /\ i + 1 \in 0 .. n - 1 /\ i + 1 - 1 = i
        /\ i + 1 + 1 \in 1 .. n /\ i + 1 + 1 - 1 = i + 1
    BY <1>3
  <2>2. /\ g[i + 1] = Plus(g[i], ds[i + 1]) /\ ds[i + 1] = cs[i + 1 + 1]
        /\ f[i + 1 + 1] = Plus(f[i + 1], cs[i + 1 + 1])
    BY <1>3, <1>5, <1>6, <2>1
  <2> QED BY <1>8, <2>1, <2>2
<1> HIDE DEF S
<1>9. n - 1 \in Nat /\ n - 1 \in 0 .. n - 1 /\ n - 1 + 1 = n
  BY <1>3
<1>10. 0 .. n - 1 \subseteq S
  BY ONLY <1>7, <1>8, <1>9, UpTo
<1>11. f[n] = g[n - 1]
  BY <1>9, <1>10 DEF S
<1> QED BY <1>1, <1>2, <1>3, <1>5, <1>6, <1>11

LEMMA NothingCounted == NoCounts \in [Codes -> Nat]
  BY DEF NoCounts

\* The counts of some counters are counts.
LEMMA CountedType ==
  ASSUME NEW before \in [Codes -> Nat], NEW cs \in Seq([Codes -> Nat]), NEW n \in 0 .. Len(cs)
  PROVE  Counted(before, cs, n) \in [Codes -> Nat]
<1>1. PICK f : CountsUp(f, before, cs, n)
  BY CountedUnfolds
<1>2. n \in 0 .. n
  OBVIOUS
<1> QED BY <1>1, <1>2 DEF CountsUp

\* Counts that are added add up.
LEMMA TotalPlus ==
  ASSUME NEW a \in [Codes -> Nat], NEW b \in [Codes -> Nat]
  PROVE  /\ Plus(a, b) \in [Codes -> Nat] /\ Total(a) \in Nat
         /\ Total(Plus(a, b)) = Total(a) + Total(b)
         /\ \A c \in Codes : Plus(a, b)[c] = a[c] + b[c]
<1>1. Plus(a, b) \in [Codes -> Nat] /\ \A c \in Codes : Plus(a, b)[c] = a[c] + b[c]
  BY DEF Plus
<1>2. /\ "20x" \in Codes /\ "30x" \in Codes /\ "40x" \in Codes /\ "50x" \in Codes
      /\ \A c \in Codes : a[c] \in Nat /\ b[c] \in Nat
  BY DEF Codes
<1>3. PICK p : p = Plus(a, b)
  OBVIOUS
<1>4. /\ p["20x"] = a["20x"] + b["20x"] /\ p["30x"] = a["30x"] + b["30x"]
      /\ p["40x"] = a["40x"] + b["40x"] /\ p["50x"] = a["50x"] + b["50x"]
      /\ a["20x"] \in Nat /\ a["30x"] \in Nat /\ a["40x"] \in Nat /\ a["50x"] \in Nat
      /\ b["20x"] \in Nat /\ b["30x"] \in Nat /\ b["40x"] \in Nat /\ b["50x"] \in Nat
  BY <1>1, <1>2, <1>3
<1>5. Total(p) = Total(a) + Total(b) /\ Total(a) \in Nat
  BY ONLY <1>4 DEF Total
<1> QED BY <1>1, <1>3, <1>5

\* A new counter counts nothing.
LEMMA CountedNew ==
  ASSUME NEW before \in [Codes -> Nat], NEW cs \in Seq([Codes -> Nat]),
         NEW longer, longer = Append(cs, NoCounts)
  PROVE  Counted(before, longer, Len(longer)) = Counted(before, cs, Len(cs))
<1>1. PICK n : n = Len(cs)
  OBVIOUS
<1>2. /\ n \in Nat /\ longer \in Seq([Codes -> Nat]) /\ Len(longer) = n + 1
      /\ longer[n + 1] = NoCounts /\ \A i \in 1 .. n : cs[i] = longer[i]
  BY <1>1, NothingCounted
<1>3. n \in 0 .. Len(cs) /\ n <= Len(longer) /\ n + 1 \in 1 .. Len(longer) /\ n + 1 - 1 = n
  BY <1>1, <1>2
<1>4. PICK a : a = Counted(before, cs, n)
  OBVIOUS
<1>5. a = Counted(before, longer, n)
  BY ONLY <1>2, <1>3, <1>4, CountedAgrees, before \in [Codes -> Nat], cs \in Seq([Codes -> Nat])
<1>6. /\ Counted(before, longer, n + 1) = Plus(a, NoCounts)
      /\ a \in [Codes -> Nat]
  <2>1. PICK m : m = n + 1
    OBVIOUS
  <2>2. m \in 1 .. Len(longer) /\ m - 1 = n /\ longer[m] = NoCounts
    BY ONLY <1>2, <1>3, <2>1
  <2>3. /\ Counted(before, longer, m - 1) \in [Codes -> Nat]
        /\ Counted(before, longer, m) = Plus(Counted(before, longer, m - 1), longer[m])
    BY ONLY <1>2, <2>2, CountedLast, before \in [Codes -> Nat]
  <2> QED BY ONLY <1>5, <2>1, <2>2, <2>3
<1>7. Plus(a, NoCounts) = a
  <2>1. \A c \in Codes : a[c] + NoCounts[c] = a[c]
    BY <1>6 DEF NoCounts
  <2> QED BY <1>6, <2>1 DEF Plus
<1> QED BY <1>1, <1>2, <1>4, <1>6, <1>7

\* One more in the last counter is one more that is counted.
LEMMA CountedMore ==
  ASSUME NEW before \in [Codes -> Nat], NEW cs \in Seq([Codes -> Nat]), cs # <<>>,
         NEW one \in [Codes -> Nat],
         NEW ds \in Seq([Codes -> Nat]), Len(ds) = Len(cs),
         \A i \in 1 .. Len(cs) - 1 : cs[i] = ds[i], ds[Len(cs)] = Plus(cs[Len(cs)], one)
  PROVE  Counted(before, ds, Len(ds)) = Plus(Counted(before, cs, Len(cs)), one)
<1>1. PICK n, last : n = Len(cs) /\ last = cs[n]
  OBVIOUS
<1>2. n \in Nat /\ n >= 1 /\ last \in [Codes -> Nat] /\ Plus(last, one) \in [Codes -> Nat]
  <2>1. n \in Nat /\ n >= 1 /\ last \in [Codes -> Nat]
    BY <1>1
  <2>2. Plus(last, one) \in [Codes -> Nat]
    BY ONLY <2>1, TotalPlus, one \in [Codes -> Nat]
  <2> QED BY <2>1, <2>2
<1>3. /\ ds \in Seq([Codes -> Nat]) /\ Len(ds) = n /\ ds[n] = Plus(last, one)
      /\ \A i \in 1 .. n - 1 : cs[i] = ds[i]
  BY <1>1
<1>4. /\ n \in 1 .. Len(cs) /\ n \in 1 .. Len(ds) /\ n - 1 \in 0 .. Len(cs) /\ n - 1 <= Len(ds)
  BY <1>1, <1>2, <1>3
<1>5. PICK a : a = Counted(before, cs, n - 1)
  OBVIOUS
<1>6. a = Counted(before, ds, n - 1)
  BY ONLY <1>3, <1>4, <1>5, CountedAgrees, before \in [Codes -> Nat], cs \in Seq([Codes -> Nat])
<1>7. a \in [Codes -> Nat] /\ Counted(before, cs, n) = Plus(a, last)
  BY <1>1, <1>4, <1>5, CountedLast
<1>8. Counted(before, ds, n) = Plus(a, Plus(last, one))
  <2>1. Counted(before, ds, n) = Plus(Counted(before, ds, n - 1), ds[n])
    BY ONLY <1>3, <1>4, CountedLast, before \in [Codes -> Nat]
  <2> QED BY ONLY <1>3, <1>6, <2>1
<1>9. Plus(a, Plus(last, one)) = Plus(Plus(a, last), one)
  <2>1. \A c \in Codes : a[c] + (last[c] + one[c]) = (a[c] + last[c]) + one[c]
    BY <1>2, <1>7
  <2> QED BY <2>1 DEF Plus
<1> QED BY <1>1, <1>3, <1>7, <1>8, <1>9

LEMMA StatsInitInv == StatsInit => StatsIInv
<1> SUFFICES ASSUME StatsInit PROVE StatsIInv
  OBVIOUS
<1>1. PICK none \in [Codes -> Nat] : none = NoCounts
  BY NothingCounted
<1>2. <<none>> \in Seq([Codes -> Nat]) /\ Len(<<none>>) = 1 /\ <<none>>[1] = none
  OBVIOUS
<1>3. 1 \in 1 .. WindowTotal - 1
  BY StatsAssumption
<1>4. StatsTypeOK /\ ~isRunning
  BY <1>1, <1>2, <1>3 DEF StatsInit, StatsTypeOK
<1>5. Counted(none, <<none>>, 1) = none
  <2>1. PICK cs, empty : cs = <<none>> /\ empty = <<>>
    OBVIOUS
  <2>2. /\ cs \in Seq([Codes -> Nat]) /\ Len(cs) = 1 /\ cs = Append(empty, NoCounts)
        /\ empty \in Seq([Codes -> Nat]) /\ Len(empty) = 0 /\ 0 \in 0 .. Len(empty)
    BY <1>1, <1>2, <2>1
  <2>3. Counted(none, cs, 1) = Counted(none, empty, 0)
    BY ONLY <2>2, CountedNew, none \in [Codes -> Nat]
  <2>4. Counted(none, empty, 0) = none
    <3>1. PICK n : n = Len(empty)
      OBVIOUS
    <3>2. empty \in Seq([Codes -> Nat]) /\ n \in 0 .. Len(empty) /\ n = 0
      BY <2>2, <3>1
    <3>3. PICK f : CountsUp(f, none, empty, n)
      BY ONLY <3>2, CountedUnfolds, none \in [Codes -> Nat]
    <3> QED BY <3>2, <3>3 DEF CountsUp
  <2> QED BY <2>1, <2>3, <2>4
<1>6. Total(none) = 0 /\ none["20x"] = 0
  <2>1. none["20x"] = 0 /\ none["30x"] = 0 /\ none["40x"] = 0 /\ none["50x"] = 0
    BY <1>1 DEF NoCounts, Codes
  <2> QED BY ONLY <2>1 DEF Total
<1>7. responses = none /\ rolledOut = none /\ counters = <<none>>
  BY <1>1 DEF StatsInit
<1>8. ResponsesCounted
  BY <1>2, <1>5, <1>6, <1>7 DEF ResponsesCounted
<1> QED BY <1>4, <1>8 DEF StatsIInv

LEMMA RollInv ==
  ASSUME StatsIInv, Roll
  PROVE  StatsIInv'
<1>1. /\ counters \in Seq([Codes -> Nat]) /\ Len(counters) \in 1 .. WindowTotal - 1
      /\ rolledOut \in [Codes -> Nat] /\ WindowTotal \in Nat /\ WindowTotal >= 2
      /\ UNCHANGED <<rollers, isRunning, responses>>
  BY StatsAssumption DEF StatsIInv, StatsTypeOK, Roll
<1>2. PICK longer : longer = Append(counters, NoCounts)
  OBVIOUS
<1>3. longer \in Seq([Codes -> Nat]) /\ Len(longer) = Len(counters) + 1
  BY <1>1, <1>2, NothingCounted, AppendFacts
<1>4. Counted(rolledOut, longer, Len(longer)) = Counted(rolledOut, counters, Len(counters))
  BY <1>1, <1>2, CountedNew
<1>5. CASE Len(longer) >= WindowTotal
  <2>1. counters' = Tail(longer) /\ rolledOut' = Plus(rolledOut, Head(longer))
    BY <1>2, <1>5 DEF Roll
  <2>2. /\ Tail(longer) \in Seq([Codes -> Nat]) /\ Len(Tail(longer)) = Len(counters)
        /\ Head(longer) \in [Codes -> Nat] /\ longer # <<>>
    BY <1>1, <1>3
  <2>3. rolledOut' \in [Codes -> Nat]
    BY <1>1, <2>1, <2>2 DEF Plus
  <2>4. Counted(rolledOut', counters', Len(counters')) = Counted(rolledOut, longer, Len(longer))
    BY <1>1, <1>3, <2>1, <2>2, CountedFirst
  <2>5. ResponsesCounted'
    BY <1>1, <1>4, <2>4 DEF StatsIInv, ResponsesCounted
  <2>6. StatsTypeOK' /\ ~isRunning'
    BY <1>1, <2>1, <2>2, <2>3 DEF StatsIInv, StatsTypeOK
  <2> QED BY <2>5, <2>6 DEF StatsIInv
<1>6. CASE ~(Len(longer) >= WindowTotal)
  <2>1. counters' = longer /\ rolledOut' = rolledOut
    BY <1>2, <1>6 DEF Roll
  <2>2. Len(longer) \in 1 .. WindowTotal - 1
    BY <1>1, <1>3, <1>6
  <2>3. ResponsesCounted'
    BY <1>1, <1>4, <2>1 DEF StatsIInv, ResponsesCounted
  <2>4. StatsTypeOK' /\ ~isRunning'
    BY <1>1, <1>3, <2>1, <2>2 DEF StatsIInv, StatsTypeOK
  <2> QED BY <2>3, <2>4 DEF StatsIInv
<1> QED BY <1>5, <1>6

LEMMA ServeHTTPInv ==
  ASSUME StatsIInv, NEW code \in Codes, ServeHTTP(code)
  PROVE  StatsIInv'
<1>1. /\ counters \in Seq([Codes -> Nat]) /\ Len(counters) \in 1 .. WindowTotal - 1
      /\ UNCHANGED <<rollers, isRunning, rolledOut>>
      /\ responses \in [Codes -> Nat] /\ rolledOut \in [Codes -> Nat]
      /\ responses' = [responses EXCEPT ![code] = @ + 1]
  BY DEF StatsIInv, StatsTypeOK, ServeHTTP
<1>2. PICK one : one = [NoCounts EXCEPT !["20x"] = 1]
  OBVIOUS
<1>3. one \in [Codes -> Nat] /\ Total(one) = 1 /\ one["20x"] = 1
  <2>1. /\ one \in [Codes -> Nat] /\ one["20x"] = 1 /\ one["30x"] = 0 /\ one["40x"] = 0
        /\ one["50x"] = 0
    BY <1>2 DEF NoCounts, Codes
  <2> QED BY <2>1 DEF Total
<1>4. counters' = [counters EXCEPT ![Len(counters)] = Plus(counters[Len(counters)], one)]
  BY <1>1, <1>2 DEF ServeHTTP, Record
<1>5. PICK counted : counted = Counted(rolledOut, counters, Len(counters))
  OBVIOUS
<1>6. counted \in [Codes -> Nat]
  <2>1. Len(counters) \in 0 .. Len(counters)
    BY <1>1
  <2> QED BY ONLY <1>1, <1>5, <2>1, CountedType
<1>7. /\ counters' \in Seq([Codes -> Nat]) /\ Len(counters') = Len(counters)
      /\ Counted(rolledOut', counters', Len(counters')) = Plus(counted, one)
  <2>1. PICK cs, ds, b, n, T : /\ cs = counters /\ ds = counters' /\ b = rolledOut
                               /\ n = Len(cs) /\ T = [Codes -> Nat]
    OBVIOUS
  <2>2. PICK c : c = Plus(cs[n], one)
    OBVIOUS
  <2>3. cs # <<>> /\ cs \in Seq(T) /\ b \in T /\ n \in Nat /\ n >= 1 /\ cs[n] \in T
    BY <1>1, <2>1
  <2>4. c \in T
    BY ONLY <1>3, <2>1, <2>2, <2>3, TotalPlus
  <2>5. ds = [cs EXCEPT ![n] = c]
    BY <1>4, <2>1, <2>2
  <2>6. cs \in [1 .. n -> T]
    BY <2>1, <2>3
  <2>7. ds \in [1 .. n -> T] /\ ds[n] = c /\ \A i \in 1 .. n - 1 : cs[i] = ds[i]
    BY ONLY <2>3, <2>4, <2>5, <2>6
  <2>8. ds \in Seq(T) /\ Len(ds) = n
    BY ONLY <2>3, <2>7
  <2>9. Counted(b, ds, Len(ds)) = Plus(Counted(b, cs, Len(cs)), one)
    <3>1. one \in T
      BY <1>3, <2>1
    <3>2. /\ b \in [Codes -> Nat] /\ one \in [Codes -> Nat] /\ cs \in Seq([Codes -> Nat])
          /\ ds \in Seq([Codes -> Nat])
      BY ONLY <2>1, <2>3, <2>8, <3>1
    <3>3. /\ cs # <<>> /\ Len(ds) = Len(cs) /\ ds[Len(cs)] = Plus(cs[Len(cs)], one)
          /\ \A i \in 1 .. Len(cs) - 1 : cs[i] = ds[i]
      <4>1. n = Len(cs)
        BY <2>1
      <4> QED BY ONLY <2>2, <2>3, <2>7, <2>8, <4>1
    <3> QED BY ONLY <3>2, <3>3, CountedMore
  <2> QED BY <1>1, <1>5, <2>1, <2>8, <2>9
<1>8. responses' \in [Codes -> Nat] /\ Total(responses') = Total(responses) + 1
  <2>1. responses' \in [Codes -> Nat]
    BY <1>1
  <2>2. PICK r, s : r = responses /\ s = responses'
    OBVIOUS
  <2>3. /\ r["20x"] \in Nat /\ r["30x"] \in Nat /\ r["40x"] \in Nat /\ r["50x"] \in Nat
    BY <1>1, <2>2 DEF Codes
  <2>4. \A c \in Codes : s[c] = IF c = code THEN r[c] + 1 ELSE r[c]
    BY <1>1, <2>2
  <2>5. CASE code = "20x"
    <3>1. /\ s["20x"] = r["20x"] + 1 /\ s["30x"] = r["30x"] /\ s["40x"] = r["40x"]
          /\ s["50x"] = r["50x"]
      BY <2>4, <2>5 DEF Codes
    <3> QED BY <2>1, <2>2, <2>3, <3>1 DEF Total
  <2>6. CASE code = "30x"
    <3>1. /\ s["20x"] = r["20x"] /\ s["30x"] = r["30x"] + 1 /\ s["40x"] = r["40x"]
          /\ s["50x"] = r["50x"]
      BY <2>4, <2>6 DEF Codes
    <3> QED BY <2>1, <2>2, <2>3, <3>1 DEF Total
  <2>7. CASE code = "40x"
    <3>1. /\ s["20x"] = r["20x"] /\ s["30x"] = r["30x"] /\ s["40x"] = r["40x"] + 1
          /\ s["50x"] = r["50x"]
      BY <2>4, <2>7 DEF Codes
    <3> QED BY <2>1, <2>2, <2>3, <3>1 DEF Total
  <2>8. CASE code = "50x"
    <3>1. /\ s["20x"] = r["20x"] /\ s["30x"] = r["30x"] /\ s["40x"] = r["40x"]
          /\ s["50x"] = r["50x"] + 1
      BY <2>4, <2>8 DEF Codes
    <3> QED BY <2>1, <2>2, <2>3, <3>1 DEF Total
  <2> QED BY <2>5, <2>6, <2>7, <2>8 DEF Codes
<1>9. /\ Total(counted) = Total(responses) /\ counted["20x"] = Total(counted)
  BY <1>5 DEF StatsIInv, ResponsesCounted
<1>10. /\ Total(Plus(counted, one)) = Total(counted) + 1
       /\ Plus(counted, one)["20x"] = counted["20x"] + 1
  BY <1>3, <1>6, TotalPlus DEF Codes
<1>11. ResponsesCounted'
  BY <1>7, <1>8, <1>9, <1>10 DEF ResponsesCounted
<1>12. StatsTypeOK' /\ ~isRunning'
  BY <1>1, <1>7, <1>8 DEF StatsIInv, StatsTypeOK
<1> QED BY <1>11, <1>12 DEF StatsIInv

LEMMA StatsStepInv == StatsIInv /\ StatsNext => StatsIInv'
<1> SUFFICES ASSUME StatsIInv, StatsNext PROVE StatsIInv'
  OBVIOUS
<1>1. CASE StartStats \/ StopStats
  BY <1>1 DEF StartStats, StopStats, StatsIInv, StatsTypeOK, ResponsesCounted
<1> QED BY <1>1, RollInv, ServeHTTPInv DEF StatsNext

LEMMA StatsStutter == StatsIInv /\ UNCHANGED statsVars => StatsIInv'
  BY DEF statsVars, StatsIInv, StatsTypeOK, ResponsesCounted

-----------------------------------------------------------------------------
(****************************************************************************)
(* The web gateway: what was verified is where a request goes.             *)
(****************************************************************************)

LEMMA WebInitInv == WebInit => WebIInv
  BY DEF WebInit, WebIInv, WebTypeOK, RequestCarries, ForwardedWhereVerified

\* What the resolver finds is one of what it may find; without it there is none.
LEMMA WebResolveSelects ==
  ASSUME NEW host, NEW path, NEW e, e = WebResolve(host, path)
  PROVE  /\ e.err \in {"none", "invalid path", "not found", "no domain"}
         /\ e.err = "none" => e.service \in Selectable(host, path)
         /\ e.err \in {"invalid path", "not found"} =>
              e.name = <<>> /\ Selectable(host, path) \cap webRegistry = {}
<1>1. PICK s, t, n : s = ByPath(host, path) /\ t = ByHost(host, path) /\ n = Alias(host)
  OBVIOUS
<1>2. PICK r : r = resolveWithPath(host, path)
  OBVIOUS
<1>3. /\ path[1] \notin PathNames => r.err = "invalid path" /\ r.name = <<>>
      /\ path[1] \in PathNames /\ s \notin webRegistry => r.err = "not found" /\ r.name = <<>>
      /\ path[1] \in PathNames /\ s \in webRegistry => r.err = "none" /\ r.service = s
  BY <1>1, <1>2 DEF resolveWithPath, NoEndpoint
<1>4. e = IF PathOnly(host) THEN r
          ELSE IF Len(host) < 2 THEN NoEndpoint("no domain")
          ELSE IF t \notin webRegistry THEN r
          ELSE [err |-> "none", name |-> n, service |-> t]
  BY <1>1, <1>2 DEF WebResolve
<1>5. Selectable(host, path) = (IF path[1] \in PathNames THEN {s} ELSE {}) \cup
                               (IF PathOnly(host) \/ Len(host) < 2 THEN {} ELSE {t})
  BY <1>1 DEF Selectable
<1>6. CASE PathOnly(host)
  BY <1>3, <1>4, <1>5, <1>6
<1>7. CASE ~PathOnly(host) /\ Len(host) < 2
  <2>1. e = NoEndpoint("no domain")
    BY <1>4, <1>7
  <2>2. e.err = "no domain"
    BY ONLY <2>1 DEF NoEndpoint
  <2> QED BY ONLY <2>2
<1>8. CASE ~PathOnly(host) /\ ~(Len(host) < 2) /\ t \notin webRegistry
  BY <1>3, <1>4, <1>5, <1>8
<1>9. CASE ~PathOnly(host) /\ ~(Len(host) < 2) /\ t \in webRegistry
  BY <1>4, <1>5, <1>9
<1> QED BY <1>6, <1>7, <1>8, <1>9

\* A namespace with nothing after it.
LEMMA NamespaceAlone ==
  ASSUME NEW host \in Hosts
  PROVE  ResolveWithType(host) \o <<>> = ResolveWithType(host)
<1>1. PICK S : HostLabels \subseteq S /\ "go" \in S /\ "micro" \in S /\ gateway.type \in S
  <2> WITNESS HostLabels \cup {"go", "micro", gateway.type}
  <2> QED OBVIOUS
<1>2. host \in Seq(S) /\ GoMicro \in Seq(S)
  BY <1>1, WebAssumption DEF GoMicro
<1>3. SubdomainOf(host) \in Seq(S)
  BY <1>2 DEF SubdomainOf
<1>4. Reverse(SubdomainOf(host)) \in Seq(S)
  BY <1>3 DEF Reverse
<1>5. ResolveNamespace(host) \in Seq(S)
  BY <1>2, <1>4 DEF ResolveNamespace
<1>6. ResolveWithType(host) \in Seq(S)
  BY <1>1, <1>5 DEF ResolveWithType
<1> QED BY <1>6

LEMMA PageCodesKnown ==
  ASSUME NEW path, NEW code \in PageCodes(path)
  PROVE  code \in {200, 400, 404, 405, 500}
<1>1. ASSUME NEW c \in RPCAnswers PROVE c \in {200, 400, 404, 405, 500}
  <2>1. PICK method, body : c \in RPC(method, body)
    BY <1>1 DEF RPCAnswers
  <2> QED BY <2>1 DEF RPC
<1>2. ASSUME NEW service, NEW c \in registryHandler(service) PROVE c \in {200, 400, 404, 405, 500}
  BY DEF registryHandler
<1>3. \/ code \in RPCAnswers
      \/ \E service : code \in registryHandler(service)
      \/ code = 200
  <2>1. PageCodes(path) = RPCAnswers \/ (\E service : PageCodes(path) = registryHandler(service))
        \/ PageCodes(path) = {200}
    BY DEF PageCodes
  <2>2. code \in PageCodes(path)
    OBVIOUS
  <2> QED BY ONLY <2>1, <2>2
<1> QED BY <1>1, <1>2, <1>3

\* A step of a request that is under way keeps what it carries.
LEMMA RequestMoves ==
  ASSUME WebIInv, NEW at \in {"serve", "direct", "done"}, request.at \in {"verify", "serve", "direct"},
         request' = [request EXCEPT !.at = at], UNCHANGED <<gateway, webRegistry, webChanges>>,
         answer'.code \in {0, 200, 307, 400, 401, 403, 404, 405, 500, 502},
         answer'.from = <<>> \/ (at = "done" /\ ForwardedWhereVerified')
  PROVE  WebIInv'
<1>1. request = [at |-> request.at, host |-> request.host, path |-> request.path,
                 account |-> request.account, endpoint |-> request.endpoint,
                 resource |-> request.resource, had |-> request.had]
  BY DEF WebIInv, RequestCarries
<1>2. PICK host, path, account, endpoint, resource, had :
        request = [at |-> request.at, host |-> host, path |-> path, account |-> account,
                   endpoint |-> endpoint, resource |-> resource, had |-> had]
  BY <1>1
<1>3. request' = [at |-> at, host |-> host, path |-> path, account |-> account,
                  endpoint |-> endpoint, resource |-> resource, had |-> had]
  BY <1>2
<1>4. /\ gateway' = gateway
      /\ request'.at = at /\ request'.host = host /\ request'.path = path
      /\ request'.account = account /\ request'.endpoint = endpoint
      /\ request'.resource = resource /\ request'.had = had
  BY <1>3
<1>5. /\ host \in Hosts /\ resource = ResolveWithType(host) \o endpoint.name
      /\ gateway.type = "api" => endpoint = ApiResolve(host, path)
      /\ gateway.type = "web" /\ endpoint.err # "none" =>
           endpoint.name = <<>> /\ Selectable(host, path) \cap had = {}
  BY <1>2 DEF WebIInv, RequestCarries
<1>6. /\ ResolveWithType(host)' = ResolveWithType(host)
      /\ ApiResolve(host, path)' = ApiResolve(host, path)
      /\ Selectable(host, path)' = Selectable(host, path)
  BY <1>4 DEF ResolveWithType, ResolveNamespace, ApiResolve, Selectable, ByPath, ByHost, PathOnly
<1>7. RequestCarries'
  <2>1. request' = [at |-> request'.at, host |-> request'.host, path |-> request'.path,
                    account |-> request'.account, endpoint |-> request'.endpoint,
                    resource |-> request'.resource, had |-> request'.had]
    BY ONLY <1>3, <1>4, SMTT(30)
  <2>2. /\ request'.host \in Hosts
        /\ request'.resource = ResolveWithType(host)' \o request'.endpoint.name
        /\ gateway'.type = "api" => request'.endpoint = ApiResolve(host, path)'
        /\ gateway'.type = "web" /\ request'.endpoint.err # "none" =>
             /\ request'.endpoint.name = <<>>
             /\ Selectable(host, path)' \cap request'.had = {}
    BY ONLY <1>4, <1>5, <1>6
  <2> QED BY <1>4, <2>1, <2>2, ZenonT(30) DEF RequestCarries
<1>8. WebTypeOK'
  BY <1>4 DEF WebIInv, WebTypeOK
<1>9. ForwardedWhereVerified'
  BY DEF ForwardedWhereVerified
<1> QED BY <1>4, <1>7, <1>8, <1>9 DEF WebIInv

\* The wrapper: the endpoint is what the resolver has found.
LEMMA WrapInv ==
  ASSUME WebIInv, NEW host \in Hosts, NEW path \in Paths, NEW header, NEW issuer,
         WrapRequest(host, path, header, issuer)
  PROVE  WebIInv'
<1>1. request = [at |-> "new"] /\ answer.from = <<>> /\ UNCHANGED <<gateway, webRegistry, webChanges>>
  BY DEF WebIInv, WrapRequest
<1>2. PICK ns, e : /\ ns = IF header = <<>> THEN ResolveNamespace(host) ELSE header
                   /\ e \in {Resolve(host, path), NoEndpoint("selector")}
                   /\ IF e.err \in {"none", "invalid path", "not found"}
                        THEN /\ request' = [at |-> "verify", host |-> host, path |-> path,
                                            account |-> issuer = ns, endpoint |-> e,
                                            resource |-> ResolveWithType(host) \o e.name,
                                            had |-> webRegistry]
                             /\ UNCHANGED answer
                        ELSE Answer(500, <<>>) /\ request' = [request EXCEPT !.at = "done"]
  BY DEF WrapRequest
<1>3. CASE e.err \notin {"none", "invalid path", "not found"}
  <2>1. request' = [at |-> "done"] /\ answer' = [code |-> 500, from |-> <<>>]
    BY <1>1, <1>2, <1>3 DEF Answer
  <2> QED BY <1>1, <2>1 DEF WebIInv, WebTypeOK, RequestCarries, ForwardedWhereVerified
<1>4. CASE e.err \in {"none", "invalid path", "not found"}
  <2>1. PICK b : b = (issuer = ns)
    OBVIOUS
  <2>2. /\ request' = [at |-> "verify", host |-> host, path |-> path, account |-> b,
                       endpoint |-> e, resource |-> ResolveWithType(host) \o e.name,
                       had |-> webRegistry]
        /\ answer' = answer
    BY <1>2, <1>4, <2>1
  <2>3. e = Resolve(host, path)
    <3>1. NoEndpoint("selector").err = "selector"
      BY DEF NoEndpoint
    <3> QED BY <1>2, <1>4, <3>1
  <2>4. gateway.type = "api" => e = ApiResolve(host, path)
    BY <2>3 DEF Resolve
  <2>5. gateway.type = "web" /\ e.err # "none" =>
          e.name = <<>> /\ Selectable(host, path) \cap webRegistry = {}
    <3>1. gateway.type = "web" => e = WebResolve(host, path)
      BY <2>3 DEF Resolve
    <3> QED BY <1>4, <3>1, WebResolveSelects
  <2>6. /\ request'.at = "verify" /\ request'.host = host /\ request'.path = path
        /\ request'.account = b /\ request'.endpoint = e
        /\ request'.resource = ResolveWithType(host) \o e.name /\ request'.had = webRegistry
    BY <2>2
  <2>7. /\ ResolveWithType(host)' = ResolveWithType(host)
        /\ ApiResolve(host, path)' = ApiResolve(host, path)
        /\ Selectable(host, path)' = Selectable(host, path)
    BY <1>1 DEF ResolveWithType, ResolveNamespace, ApiResolve, Selectable, ByPath, ByHost, PathOnly
  <2>8. RequestCarries'
    BY <1>1, <2>2, <2>4, <2>5, <2>6, <2>7 DEF RequestCarries
  <2>9. WebTypeOK' /\ ForwardedWhereVerified'
    BY <1>1, <2>2, <2>6 DEF WebIInv, WebTypeOK, ForwardedWhereVerified
  <2> QED BY <1>1, <2>2, <2>6, <2>8, <2>9 DEF WebIInv
<1> QED BY <1>3, <1>4

LEMMA ServeInv ==
  ASSUME WebIInv, VerifyRequest \/ ServeWeb
  PROVE  WebIInv'
<1>1. /\ request.at \in {"verify", "serve", "direct"} /\ answer.from = <<>>
      /\ UNCHANGED <<gateway, webRegistry, webChanges>>
      /\ answer.code \in {0, 200, 307, 400, 401, 403, 404, 405, 500, 502}
  BY DEF WebIInv, WebTypeOK, VerifyRequest, ServeWeb
<1>2. /\ \E at \in {"serve", "direct", "done"} : request' = [request EXCEPT !.at = at]
      /\ answer' = answer \/ \E code \in {200, 307, 400, 401, 403, 404, 405, 500} : Answer(code, <<>>)
  <2>1. CASE VerifyRequest
    BY <2>1 DEF VerifyRequest
  <2>2. CASE ServeWeb
    BY <2>2, PageCodesKnown DEF ServeWeb
  <2> QED BY <2>1, <2>2
<1>3. /\ answer'.from = <<>>
      /\ answer'.code \in {0, 200, 307, 400, 401, 403, 404, 405, 500, 502}
  BY <1>1, <1>2 DEF Answer
<1>4. PICK at \in {"serve", "direct", "done"} : request' = [request EXCEPT !.at = at]
  BY <1>2
<1>5. answer'.from = <<>> \/ (at = "done" /\ ForwardedWhereVerified')
  BY <1>3
<1>6. request.at \in {"verify", "serve", "direct"} /\ UNCHANGED <<gateway, webRegistry, webChanges>>
  BY <1>1
<1> QED BY ONLY <1>3, <1>4, <1>5, <1>6, RequestMoves, WebIInv, at \in {"serve", "direct", "done"}

\* The director: the service of the endpoint that was verified, or one that was not
\* there when the wrapper found none.
LEMMA DirectInv ==
  ASSUME WebIInv, Direct
  PROVE  WebIInv'
<1>1. /\ request.at = "direct" /\ request.at \in {"verify", "serve", "direct"}
      /\ UNCHANGED <<gateway, webRegistry, webChanges>>
      /\ request' = [request EXCEPT !.at = "done"]
  BY DEF Direct
<1>2. PICK host, path, account, endpoint, resource, had :
        request = [at |-> request.at, host |-> host, path |-> path, account |-> account,
                   endpoint |-> endpoint, resource |-> resource, had |-> had]
  BY <1>1 DEF WebIInv, RequestCarries
<1>3. /\ host \in Hosts /\ resource = ResolveWithType(host) \o endpoint.name
      /\ gateway.type = "api" => endpoint = ApiResolve(host, path)
      /\ gateway.type = "web" /\ endpoint.err # "none" =>
           endpoint.name = <<>> /\ Selectable(host, path) \cap had = {}
  BY <1>1, <1>2 DEF WebIInv, RequestCarries
<1>4. /\ request.endpoint = endpoint /\ request.host = host /\ request.path = path
  BY <1>2
<1>5. /\ request'.endpoint = endpoint /\ request'.host = host /\ request'.resource = resource
      /\ request'.had = had /\ request'.at = "done"
  <2>1. request' = [at |-> "done", host |-> host, path |-> path, account |-> account,
                    endpoint |-> endpoint, resource |-> resource, had |-> had]
    BY <1>1, <1>2
  <2> QED BY <2>1
<1>6. ResolveWithType(host)' = ResolveWithType(host)
  BY <1>1 DEF ResolveWithType, ResolveNamespace
<1>7. PICK e : /\ e \in IF endpoint.err = "none" THEN {endpoint}
                        ELSE {Resolve(host, path), NoEndpoint("selector")}
               /\ IF e.err # "none" THEN \E code \in {500, 502} : Answer(code, <<>>)
                  ELSE Answer(200, e.service)
  BY <1>4 DEF Direct
<1>8. gateway.type \in {"web", "api"}
  BY DEF WebIInv, WebTypeOK, Gateways
<1>9. ASSUME endpoint.err # "none", e.err = "none"
      PROVE  e.service \notin had /\ resource = ResolveWithType(host)
  <2>1. gateway.type = "web"
    <3>1. ApiResolve(host, path).err = "none"
      BY DEF ApiResolve
    <3> QED BY <1>3, <1>8, <1>9, <3>1
  <2>2. e = WebResolve(host, path)
    BY <1>7, <1>9, <2>1 DEF Resolve, NoEndpoint
  <2>3. e.service \in Selectable(host, path)
    BY <1>9, <2>2, WebResolveSelects
  <2> QED BY <1>3, <1>9, <2>1, <2>3, NamespaceAlone
<1>10. ForwardedWhereVerified'
  <2>1. CASE e.err # "none"
    <3>1. answer'.from = <<>>
      BY <1>7, <2>1 DEF Answer
    <3> QED BY <3>1 DEF ForwardedWhereVerified
  <2>2. CASE e.err = "none"
    <3>1. answer'.from = e.service
      BY <1>7, <2>2 DEF Answer
    <3>2. endpoint.err = "none" => e = endpoint
      BY <1>7
    <3> QED BY <1>3, <1>5, <1>6, <1>9, <2>2, <3>1, <3>2 DEF ForwardedWhereVerified
  <2> QED BY <2>1, <2>2
<1>11. answer'.code \in {0, 200, 307, 400, 401, 403, 404, 405, 500, 502}
  BY <1>7 DEF Answer
<1> QED BY ONLY <1>1, <1>10, <1>11, RequestMoves, WebIInv

\* The handler of micro api resolves as the wrapper did.
LEMMA ServeApiInv ==
  ASSUME WebIInv, ServeApi
  PROVE  WebIInv'
<1>1. /\ request.at = "serve" /\ request.at \in {"verify", "serve", "direct"}
      /\ gateway.type = "api" /\ UNCHANGED <<gateway, webRegistry, webChanges>>
      /\ request' = [request EXCEPT !.at = "done"]
  BY DEF ServeApi
<1>2. PICK host, path, account, endpoint, resource, had :
        request = [at |-> request.at, host |-> host, path |-> path, account |-> account,
                   endpoint |-> endpoint, resource |-> resource, had |-> had]
  BY <1>1 DEF WebIInv, RequestCarries
<1>3. /\ resource = ResolveWithType(host) \o endpoint.name /\ endpoint = ApiResolve(host, path)
  BY <1>1, <1>2 DEF WebIInv, RequestCarries
<1>4. endpoint = Resolve(host, path) /\ endpoint.err = "none"
  <2>1. ApiResolve(host, path).err = "none"
    BY DEF ApiResolve
  <2> QED BY <1>1, <1>3, <2>1 DEF Resolve
<1>5. Answer(200, <<>>) \/ Answer(500, <<>>) \/ Answer(200, endpoint.service)
  <2>1. request.host = host /\ request.path = path
    BY <1>2
  <2>2. PICK service : service = endpoint.service
    OBVIOUS
  <2>3. \/ Answer(200, <<>>) \/ Answer(500, <<>>) \/ Answer(200, service)
    <3>1. PICK own : own <=> request.path \in {<<"">>, <<"favicon.ico">>}
      OBVIOUS
    <3> QED BY <1>4, <2>1, <2>2, <3>1 DEF ServeApi
  <2> QED BY <2>2, <2>3
<1>6. /\ request'.endpoint = endpoint /\ request'.host = host /\ request'.resource = resource
      /\ request'.at = "done"
  <2>1. request' = [at |-> "done", host |-> host, path |-> path, account |-> account,
                    endpoint |-> endpoint, resource |-> resource, had |-> had]
    BY <1>1, <1>2
  <2> QED BY <2>1
<1>7. ResolveWithType(host)' = ResolveWithType(host)
  BY <1>1 DEF ResolveWithType, ResolveNamespace
<1>8. /\ answer'.from = <<>> \/ answer'.from = endpoint.service
      /\ answer'.code \in {0, 200, 307, 400, 401, 403, 404, 405, 500, 502}
  BY <1>5 DEF Answer
<1>9. ForwardedWhereVerified'
  BY <1>3, <1>4, <1>6, <1>7, <1>8 DEF ForwardedWhereVerified
<1> QED BY ONLY <1>1, <1>8, <1>9, RequestMoves, WebIInv

\* Services come and go: what a request carries stays.
LEMMA WebRegistryInv ==
  ASSUME WebIInv, NEW s \in WebServices, WebRegistryChanges(s)
  PROVE  WebIInv'
<1>1. webRegistry' \subseteq WebServices /\ UNCHANGED <<gateway, request, answer>>
  BY DEF WebIInv, WebTypeOK, WebRegistryChanges
<1>2. /\ \A host : ResolveWithType(host)' = ResolveWithType(host)
      /\ \A host, path : ApiResolve(host, path)' = ApiResolve(host, path)
      /\ \A host, path : Selectable(host, path)' = Selectable(host, path)
  BY <1>1 DEF ResolveWithType, ResolveNamespace, ApiResolve, Selectable, ByPath, ByHost, PathOnly
<1>3. RequestCarries' /\ ForwardedWhereVerified'
  BY <1>1, <1>2 DEF WebIInv, RequestCarries, ForwardedWhereVerified
<1> QED BY <1>1, <1>3 DEF WebIInv, WebTypeOK

LEMMA WebStepInv == WebIInv /\ WebNext => WebIInv'
  BY WrapInv, ServeInv, DirectInv, ServeApiInv, WebRegistryInv DEF WebNext

LEMMA WebStutter == WebIInv /\ UNCHANGED webVars => WebIInv'
<1> SUFFICES ASSUME WebIInv, UNCHANGED webVars PROVE WebIInv'
  OBVIOUS
<1>1. UNCHANGED <<gateway, request, answer, webRegistry>>
  BY DEF webVars
<1>2. /\ \A host : ResolveWithType(host)' = ResolveWithType(host)
      /\ \A host, path : ApiResolve(host, path)' = ApiResolve(host, path)
      /\ \A host, path : Selectable(host, path)' = Selectable(host, path)
  BY <1>1 DEF ResolveWithType, ResolveNamespace, ApiResolve, Selectable, ByPath, ByHost, PathOnly
<1>3. RequestCarries' /\ ForwardedWhereVerified'
  BY <1>1, <1>2 DEF WebIInv, RequestCarries, ForwardedWhereVerified
<1> QED BY <1>1, <1>3 DEF WebIInv, WebTypeOK

\* A link of the index page is a label with a slash after it, which is no page of
\* the dashboard; its service is registered.
LEMMA LinksLead == WebTypeOK => LinksLeadToServices
<1> SUFFICES ASSUME WebTypeOK, gateway.type = "web", gateway.resolver = "path",
                    NEW host \in Hosts, NEW link \in indexHandler
             PROVE  LET path == Append(link.name, "") IN
                      /\ ~WebPages(path)
                      /\ link.name[1] \in PathNames /\ link.service = ResolveWithType(host) \o <<link.name[1]>>
                           => WebResolve(host, path).service = link.service
  BY DEF LinksLeadToServices
<1>1. PICK s \in webRegistry :
        \E i \in 2 .. Len(s) - 1 : link = [name |-> SubSeq(s, i + 1, Len(s)), service |-> s]
  BY DEF indexHandler
<1>9. PICK i \in 2 .. Len(s) - 1 : link = [name |-> SubSeq(s, i + 1, Len(s)), service |-> s]
  BY <1>1
<1>2. s \in Seq(WebLabels)
  BY WebAssumption DEF WebTypeOK
<1>3. Len(s) \in Nat /\ i \in Int /\ 2 <= i /\ i <= Len(s) - 1
  BY <1>2
<1>4. PICK blank \in WebLabels : blank = ""
  BY DEF WebLabels
<1>5. PICK n : n = SubSeq(s, i + 1, Len(s))
  OBVIOUS
<1>6. n \in Seq(WebLabels) /\ Len(n) \in Nat /\ Len(n) >= 1
  BY ONLY <1>2, <1>3, <1>5
<1>10. link.name = n /\ link.service = s
  BY <1>5, <1>9
<1>11. PICK path : path = Append(n, blank)
  OBVIOUS
<1>12. Len(path) = Len(n) + 1 /\ path[Len(path)] = blank /\ path[1] = n[1]
  <2>1. blank \in WebLabels
    BY <1>4
  <2>2. /\ Len(Append(n, blank)) = Len(n) + 1 /\ Append(n, blank)[Len(n) + 1] = blank
        /\ \A j \in 1 .. Len(n) : Append(n, blank)[j] = n[j]
    BY ONLY <1>6, <2>1, AppendFacts
  <2>3. 1 \in 1 .. Len(n)
    BY ONLY <1>6
  <2> QED BY ONLY <1>11, <2>2, <2>3
<1>7. ~WebPages(path)
  <2>1. Len(path) >= 2 /\ (Len(path) = 2 => path[2] = "")
    <3>1. PICK k : k = Len(path)
      OBVIOUS
    <3>2. k \in Nat /\ k >= 2
      BY ONLY <1>6, <1>12, <3>1
    <3>3. path[k] = ""
      BY <1>4, <1>12, <3>1
    <3>4. k = 2 => path[2] = ""
      BY ONLY <3>3
    <3> QED BY ONLY <3>1, <3>2, <3>4
  <2>2. path \notin {<<"">>, <<"favicon.ico">>, <<"client">>, <<"services">>, <<"rpc">>}
    <3>1. \A x : Len(<<x>>) = 1
      OBVIOUS
    <3>2. Len(path) # 1
      BY ONLY <1>6, <1>12
    <3> QED BY ONLY <3>1, <3>2, Zenon
  <2> QED BY <2>1, <2>2 DEF WebPages
<1>8. ASSUME n[1] \in PathNames, s = ResolveWithType(host) \o <<n[1]>>
      PROVE  WebResolve(host, path).service = s
  <2>1. WebResolve(host, path) = resolveWithPath(host, path)
    BY DEF WebResolve, PathOnly
  <2>2. ByPath(host, path) = s
    BY <1>8, <1>12 DEF ByPath
  <2>3. path[1] \in PathNames /\ s \in webRegistry
    BY <1>8, <1>12
  <2>4. PICK t : t = <<path[1]>>
    OBVIOUS
  <2>5. resolveWithPath(host, path) = [err |-> "none", name |-> t, service |-> s]
    BY <2>2, <2>3, <2>4 DEF resolveWithPath
  <2> QED BY <2>1, <2>5
<1>13. path = Append(link.name, "")
  BY <1>4, <1>10, <1>11
<1> QED BY <1>7, <1>8, <1>10, <1>13

-----------------------------------------------------------------------------
(****************************************************************************)
(* The settings file: what commands write that overlap.                    *)
(****************************************************************************)

LEMMA SettingNames ==
  /\ "env" \in Settings /\ "token" \in Settings /\ "refresh-token" \in Settings
  /\ AddedEnvs \subseteq Settings /\ Empty \in Configs
  /\ Empty["env"] = Unset
  BY DEF Settings, Configs, Empty, SettingValues

LEMMA SettingsInitInv == SettingsInit => SettingsIInv
<1> SUFFICES ASSUME SettingsInit PROVE SettingsIInv
  OBVIOUS
<1> DEFINE new == [at |-> "new", command |-> [name |-> "login"], config |-> Empty, missed |-> {},
                   toSet |-> <<>>, over |-> FALSE, code |-> 0]
<1>1. new \in CommandStates
  <2>1. [name |-> "login"] \in Commands
    BY DEF Commands
  <2> QED BY <2>1, SettingNames DEF CommandStates
<1>2. /\ new.at = "new" /\ new.config = Empty /\ new.toSet = <<>> /\ Len(new.toSet) = 0
      /\ commander = [p \in Commanders |-> new]
  BY DEF SettingsInit
<1> HIDE DEF new
<1>3. SettingsTypeOK
  <2>1. settingsFile \in [unreadable : BOOLEAN, holds : Configs] /\ promised \in Configs /\ lost = {}
    BY SettingNames DEF SettingsInit
  <2> QED BY <1>1, <1>2, <2>1 DEF SettingsTypeOK
<1>4. GetEnv(Empty)
  BY SettingNames DEF GetEnv
<1>5. KeepsSettings(new)
  BY <1>2, <1>4 DEF KeepsSettings, WritesWhatIsSet, SelectsWhatIsThere
<1>6. SettingsKept /\ EnvSelectedExists
  BY <1>4 DEF SettingsInit, SettingsKept, EnvSelectedExists
<1>7. ASSUME NEW p \in Commanders PROVE KeepsSettings(commander[p])
  <2>1. commander[p] = new
    BY <1>2
  <2> QED BY <1>5, <2>1
<1> QED BY <1>3, <1>6, <1>7 DEF SettingsIInv

\* A step that changes one process, and no more of the file than its being readable.
LEMMA OneProcess ==
  ASSUME SettingsIInv, NEW p \in Commanders, NEW c \in CommandStates, KeepsSettings(c),
         commander' = [commander EXCEPT ![p] = c],
         \/ settingsFile' = settingsFile
         \/ settingsFile' = [settingsFile EXCEPT !.unreadable = TRUE],
         UNCHANGED <<promised, lost>>
  PROVE  SettingsIInv'
<1>1. commander \in [Commanders -> CommandStates]
      /\ settingsFile \in [unreadable : BOOLEAN, holds : Configs]
  BY DEF SettingsIInv, SettingsTypeOK
<1>2. commander' \in [Commanders -> CommandStates]
  BY <1>1
<1>3. settingsFile' \in [unreadable : BOOLEAN, holds : Configs]
      /\ (~settingsFile'.unreadable => settingsFile' = settingsFile)
  BY <1>1
<1>4. promised' = promised /\ lost' = lost
  OBVIOUS
<1>5. SettingsTypeOK'
  BY <1>2, <1>3, <1>4 DEF SettingsIInv, SettingsTypeOK
<1>6. SettingsKept' /\ EnvSelectedExists'
  BY <1>3, <1>4 DEF SettingsIInv, SettingsKept, EnvSelectedExists
<1>7. ASSUME NEW d, KeepsSettings(d) PROVE KeepsSettings(d)'
  <2>1. LoadedAsPromised(d)' <=> LoadedAsPromised(d)
    BY <1>4 DEF LoadedAsPromised
  <2> QED BY <1>7, <2>1 DEF KeepsSettings, WritesWhatIsSet, SelectsWhatIsThere
<1>8. ASSUME NEW q \in Commanders PROVE KeepsSettings(commander[q])'
  <2>1. PICK d : d = commander'[q]
    OBVIOUS
  <2>2. d = c \/ d = commander[q]
    BY <1>1, <2>1
  <2>3. KeepsSettings(d)
    BY <2>2 DEF SettingsIInv
  <2> QED BY <1>7, <2>1, <2>3
<1> QED BY <1>5, <1>6, <1>8 DEF SettingsIInv

\* newConfig, and the library's watch: what is loaded is what the file holds.
LEMMA LoadedKept ==
  ASSUME SettingsIInv, NEW d, d.at = "run", d.toSet = <<>>,
         \/ ~settingsFile.unreadable /\ d.config = settingsFile.holds
         \/ d.config = Empty /\ d.missed = Settings
  PROVE  KeepsSettings(d)
<1>1. LoadedAsPromised(d)
  <2>1. CASE d.missed = Settings
    BY <2>1 DEF LoadedAsPromised
  <2>2. CASE ~settingsFile.unreadable /\ d.config = settingsFile.holds
    <3>1. \A x \in Settings \ lost : settingsFile.holds[x] = promised[x]
      BY <2>2 DEF SettingsIInv, SettingsKept
    <3> QED BY <2>2, <3>1 DEF LoadedAsPromised
  <2> QED BY <2>1, <2>2
<1>2. GetEnv(d.config)
  <2>1. GetEnv(Empty)
    BY SettingNames DEF GetEnv
  <2>2. ~settingsFile.unreadable => GetEnv(settingsFile.holds)
    BY DEF SettingsIInv, EnvSelectedExists
  <2> QED BY <2>1, <2>2
<1>3. Len(d.toSet) = 0
  OBVIOUS
<1> QED BY <1>1, <1>2, <1>3 DEF KeepsSettings, WritesWhatIsSet, SelectsWhatIsThere

LEMMA LoadsInv ==
  ASSUME SettingsIInv, NEW p \in Commanders,
         (\E c \in Commands : StartCommand(p, c)) \/ ReloadSettings(p)
  PROVE  SettingsIInv'
<1>1. /\ commander \in [Commanders -> CommandStates] /\ commander[p] \in CommandStates
      /\ settingsFile.holds \in Configs /\ KeepsSettings(commander[p])
      /\ UNCHANGED <<settingsFile, promised, lost>> /\ commander[p].at \in {"new", "run"}
  BY DEF SettingsIInv, SettingsTypeOK, StartCommand, ReloadSettings
<1>2. PICK d, b : d = commander'[p] /\ b = commander[p]
  OBVIOUS
<1>3. b.toSet = <<>> /\ b \in CommandStates
  BY <1>1, <1>2 DEF KeepsSettings
<1>4. CASE ReloadSettings(p)
  <2>1. /\ d = [b EXCEPT !.config = settingsFile.holds, !.missed = {}]
        /\ commander' = [commander EXCEPT ![p] = d]
        /\ b.at = "run" /\ ~settingsFile.unreadable
    BY <1>1, <1>2, <1>4 DEF ReloadSettings
  <2>2. d \in CommandStates /\ d.at = "run" /\ d.toSet = <<>> /\ d.config = settingsFile.holds
    BY <1>1, <1>3, <2>1 DEF CommandStates
  <2>3. KeepsSettings(d)
    BY <2>1, <2>2, LoadedKept
  <2> QED BY ONLY <1>1, <2>1, <2>2, <2>3, OneProcess, SettingsIInv, p \in Commanders
<1>5. ASSUME NEW c \in Commands, StartCommand(p, c) PROVE SettingsIInv'
  <2>1. PICK h, m : /\ h = IF settingsFile.unreadable THEN Empty ELSE settingsFile.holds
                    /\ m = IF settingsFile.unreadable THEN Settings ELSE {}
    OBVIOUS
  <2>2. h \in Configs /\ m \in SUBSET Settings
    BY <1>1, <2>1, SettingNames
  <2>3. /\ d = [b EXCEPT !.at = "run", !.command = c, !.config = h, !.missed = m]
        /\ commander' = [commander EXCEPT ![p] = d]
    BY <1>1, <1>2, <1>5, <2>1 DEF StartCommand
  <2>4. /\ d \in CommandStates /\ d.at = "run" /\ d.toSet = <<>> /\ d.config = h
        /\ d.missed = m
    BY <1>3, <2>2, <2>3 DEF CommandStates
  <2>5. KeepsSettings(d)
    BY <2>1, <2>4, LoadedKept
  <2> QED BY ONLY <1>1, <2>3, <2>4, <2>5, OneProcess, SettingsIInv, p \in Commanders
<1> QED BY <1>4, <1>5

\* Login, SetEnv and AddEnv: what a command is going to set.
LEMMA SetsInv ==
  ASSUME SettingsIInv, NEW p \in Commanders, Login(p) \/ SetEnv(p) \/ AddEnv(p)
  PROVE  SettingsIInv'
<1> DEFINE Sound(values) ==
             /\ values \in Seq(Settings \X SettingValues)
             /\ \A i \in 1 .. Len(values) :
                  IF values[i][1] = "env" THEN values[i][2] \in getEnvs(commander[p].config)
                  ELSE values[i][2] # Unset
<1>1. /\ commander \in [Commanders -> CommandStates] /\ commander[p] \in CommandStates
      /\ KeepsSettings(commander[p]) /\ commander[p].at = "run"
      /\ UNCHANGED <<settingsFile, promised, lost>>
  BY DEF SettingsIInv, SettingsTypeOK, Login, SetEnv, AddEnv
<1>2. PICK d : d = commander'[p]
  OBVIOUS
<1>3. Sound(<<>>)
  <2>1. <<>> \in Seq(Settings \X SettingValues) /\ Len(<<>>) = 0
    OBVIOUS
  <2> QED BY <2>1
<1>4. ASSUME NEW x \in Settings, NEW v \in SettingValues,
             IF x = "env" THEN v \in getEnvs(commander[p].config) ELSE v # Unset
      PROVE  Sound(<< <<x, v>> >>)
  <2>1. PICK values : values = << <<x, v>> >>
    OBVIOUS
  <2>2. Sound(values)
    BY <1>4, <2>1
  <2> QED BY <2>1, <2>2
<1>5. p \in SettingValues /\ p # Unset
  BY SettingsAssumption DEF SettingValues
<1>6. Sound(<< <<"token", p>>, <<"refresh-token", p>> >>)
  <2>1. PICK values : values = << <<"token", p>>, <<"refresh-token", p>> >>
    OBVIOUS
  <2>2. /\ values \in Seq(Settings \X SettingValues)
        /\ \A i \in 1 .. Len(values) : values[i][1] # "env" /\ values[i][2] # Unset
    BY <1>5, <2>1, SettingNames
  <2> QED BY <2>1, <2>2
<1> HIDE DEF Sound
<1>7. \/ commander' = [commander EXCEPT ![p] = Exit(p, 1)]
      \/ \E values : Sound(values) /\ Sets(p, values)
  <2>5. CASE Login(p)
    <3>1. Sound(<< <<"token", p>> >>)
      BY <1>4, <1>5, SettingNames
    <3> QED BY <1>6, <2>5, <3>1 DEF Login
  <2>6. CASE SetEnv(p)
    <3>1. PICK e : e = commander[p].command.env
      OBVIOUS
    <3>2. \/ commander' = [commander EXCEPT ![p] = Exit(p, 1)]
          \/ e \in getEnvs(commander[p].config) /\ Sets(p, << <<"env", e>> >>)
      BY <2>6, <3>1 DEF SetEnv
    <3>3. e \in getEnvs(commander[p].config) => e \in SettingValues
      BY DEF getEnvs, SettingValues
    <3>4. e \in getEnvs(commander[p].config) => Sound(<< <<"env", e>> >>)
      BY <1>4, <3>3, SettingNames
    <3> QED BY <3>2, <3>4
  <2>7. CASE AddEnv(p)
    <3>1. PICK e : e = commander[p].command.env
      OBVIOUS
    <3>2. \/ e \in AddedEnvs /\ Sets(p, << <<e, p>> >>)
          \/ Sets(p, <<>>)
      BY <2>7, <3>1 DEF AddEnv
    <3>3. e \in AddedEnvs => e \in Settings /\ e # "env"
      BY SettingNames, SettingsAssumption
    <3>4. e \in AddedEnvs => Sound(<< <<e, p>> >>)
      BY <1>4, <1>5, <3>3
    <3> QED BY <1>3, <3>2, <3>4
  <2> QED BY <2>5, <2>6, <2>7
<1>8. CASE commander' = [commander EXCEPT ![p] = Exit(p, 1)]
  <2>1. /\ d = [commander[p] EXCEPT !.at = "exited", !.code = 1]
        /\ commander' = [commander EXCEPT ![p] = d]
    BY <1>1, <1>2, <1>8 DEF Exit
  <2>2. /\ d \in CommandStates /\ d.at = "exited" /\ d.config = commander[p].config
        /\ d.toSet = commander[p].toSet
    BY <1>1, <2>1 DEF CommandStates
  <2>3. KeepsSettings(d)
    BY <1>1, <2>2 DEF KeepsSettings, WritesWhatIsSet, SelectsWhatIsThere
  <2> QED BY ONLY <1>1, <2>1, <2>2, <2>3, OneProcess, SettingsIInv, p \in Commanders
<1>9. ASSUME NEW values, Sound(values), Sets(p, values) PROVE SettingsIInv'
  <2>0. /\ d = [commander[p] EXCEPT !.at = "set", !.toSet = values]
        /\ commander' = [commander EXCEPT ![p] = d]
    BY <1>1, <1>2, <1>9 DEF Sets
  <2>a. values \in Seq(Settings \X SettingValues)
    BY <1>9 DEF Sound
  <2>1. /\ d \in CommandStates /\ d.at = "set" /\ d.config = commander[p].config
        /\ d.toSet = values /\ d.missed = commander[p].missed
    BY <1>1, <2>0, <2>a DEF CommandStates
  <2>2. LoadedAsPromised(d)
    BY <1>1, <2>1 DEF KeepsSettings, LoadedAsPromised
  <2>3. SelectsWhatIsThere(d)
    BY <1>1, <1>9, <2>1 DEF KeepsSettings, SelectsWhatIsThere, Sound
  <2>4. KeepsSettings(d)
    BY <2>1, <2>2, <2>3 DEF KeepsSettings, WritesWhatIsSet
  <2> QED BY ONLY <1>1, <2>0, <2>1, <2>4, OneProcess, SettingsIInv, p \in Commanders
<1> QED BY <1>7, <1>8, <1>9

\* Set, its first half: the value is in memory, and the file is empty.
LEMMA TruncatesInv ==
  ASSUME SettingsIInv, NEW p \in Commanders, SetTruncates(p)
  PROVE  SettingsIInv'
<1>1. /\ commander \in [Commanders -> CommandStates] /\ commander[p] \in CommandStates
      /\ KeepsSettings(commander[p]) /\ commander[p].at = "set" /\ commander[p].toSet # <<>>
      /\ UNCHANGED <<promised, lost>> /\ settingsFile' = [settingsFile EXCEPT !.unreadable = TRUE]
  BY DEF SettingsIInv, SettingsTypeOK, SetTruncates
<1>2. PICK c, s, x, v : c = commander[p] /\ s = c.toSet /\ x = Head(s)[1] /\ v = Head(s)[2]
  OBVIOUS
<1>3. /\ c \in CommandStates /\ c.config \in Configs /\ s \in Seq(Settings \X SettingValues)
      /\ s # <<>>
  BY <1>1, <1>2 DEF CommandStates
<1>4. Head(s) \in Settings \X SettingValues /\ Head(s) = s[1] /\ 1 \in 1 .. Len(s) /\ Len(s) \in Nat
  BY <1>3, TailFacts
<1>5. x \in Settings /\ v \in SettingValues
  BY <1>2, <1>4
<1>6. PICK d : d = commander'[p]
  OBVIOUS
<1>7. /\ d = [c EXCEPT !.at = "write", !.config = [c.config EXCEPT ![x] = v], !.over = FALSE]
      /\ commander' = [commander EXCEPT ![p] = d]
  BY <1>1, <1>2, <1>6 DEF SetTruncates
<1>8. PICK g : g = [c.config EXCEPT ![x] = v]
  OBVIOUS
<1>9. g \in Configs /\ g[x] = v /\ \A y \in Settings : y # x => g[y] = c.config[y]
  BY <1>3, <1>5, <1>8 DEF Configs
<1>10. /\ d \in CommandStates /\ d.at = "write" /\ d.config = g
       /\ d.toSet = s /\ d.missed = c.missed
  BY <1>2, <1>3, <1>7, <1>8, <1>9 DEF CommandStates
<1>11. LoadedAsPromised(d)
  <2>1. \A y \in Settings \ (lost \cup c.missed) : c.config[y] = promised[y]
    BY <1>1, <1>2 DEF KeepsSettings, LoadedAsPromised
  <2> QED BY <1>2, <1>9, <1>10, <2>1 DEF LoadedAsPromised
<1>12. WritesWhatIsSet(d)
  BY <1>2, <1>3, <1>9, <1>10 DEF WritesWhatIsSet
<1>13. /\ GetEnv(c.config)
       /\ \A i \in 1 .. Len(s) : IF s[i][1] = "env" THEN s[i][2] \in getEnvs(c.config)
                                 ELSE s[i][2] # Unset
  BY <1>1, <1>2 DEF KeepsSettings, SelectsWhatIsThere
<1>14. IF x = "env" THEN v \in getEnvs(c.config) ELSE v # Unset
  BY <1>2, <1>4, <1>13
<1>15. getEnvs(c.config) \subseteq getEnvs(g)
  BY <1>9, <1>14, SettingNames, SettingsAssumption DEF getEnvs
<1>16. GetEnv(g)
  <2>1. CASE x = "env"
    BY <1>9, <1>14, <1>15, <2>1 DEF GetEnv
  <2>2. CASE x # "env"
    BY <1>9, <1>13, <1>15, <2>2, SettingNames DEF GetEnv
  <2> QED BY <2>1, <2>2
<1>17. SelectsWhatIsThere(d)
  BY <1>10, <1>13, <1>15, <1>16 DEF SelectsWhatIsThere
<1>18. KeepsSettings(d)
  BY <1>10, <1>11, <1>12, <1>17 DEF KeepsSettings
<1> QED BY ONLY <1>1, <1>7, <1>10, <1>18, OneProcess, SettingsIInv, p \in Commanders

\* Ends of a command.
LEMMA EndsInv ==
  ASSUME SettingsIInv, NEW p \in Commanders, SetFails(p) \/ CommandEnds(p) \/ Interrupt(p)
  PROVE  SettingsIInv'
<1>1. /\ commander \in [Commanders -> CommandStates] /\ commander[p] \in CommandStates
      /\ KeepsSettings(commander[p]) /\ UNCHANGED <<settingsFile, promised, lost>>
  BY DEF SettingsIInv, SettingsTypeOK, SetFails, CommandEnds, Interrupt
<1>2. PICK d : d = commander'[p]
  OBVIOUS
<1>3. PICK code \in {0, 1, 130} : commander' = [commander EXCEPT ![p] = Exit(p, code)]
  BY DEF SetFails, CommandEnds, Interrupt
<1>4. /\ d = [commander[p] EXCEPT !.at = "exited", !.code = code]
      /\ commander' = [commander EXCEPT ![p] = d]
  BY <1>1, <1>2, <1>3 DEF Exit
<1>5. /\ d \in CommandStates /\ d.at = "exited" /\ d.config = commander[p].config
      /\ d.toSet = commander[p].toSet
  BY <1>1, <1>4 DEF CommandStates
<1>6. KeepsSettings(d)
  BY <1>1, <1>5 DEF KeepsSettings, WritesWhatIsSet, SelectsWhatIsThere
<1> QED BY ONLY <1>1, <1>4, <1>5, <1>6, OneProcess, SettingsIInv, p \in Commanders

\* Set, its second half: what the others have loaded is out of date in the setting
\* that is written, and in those that the writer itself has missed.
LEMMA WritesInv ==
  ASSUME SettingsIInv, NEW p \in Commanders, SetWrites(p)
  PROVE  SettingsIInv'
<1>1. /\ commander \in [Commanders -> CommandStates] /\ commander[p] \in CommandStates
      /\ KeepsSettings(commander[p]) /\ commander[p].at = "write"
      /\ promised \in Configs /\ lost \subseteq Settings
  BY DEF SettingsIInv, SettingsTypeOK, SetWrites
<1>2. PICK c, s, x, v : c = commander[p] /\ s = c.toSet /\ x = Head(s)[1] /\ v = Head(s)[2]
  OBVIOUS
<1>3. /\ c \in CommandStates /\ c.config \in Configs /\ s \in Seq(Settings \X SettingValues)
      /\ c.missed \subseteq Settings /\ s # <<>> /\ c.config[x] = v
  BY <1>1, <1>2 DEF CommandStates, KeepsSettings, WritesWhatIsSet
<1>4. /\ Head(s) \in Settings \X SettingValues /\ Tail(s) \in Seq(Settings \X SettingValues)
      /\ Len(s) \in Nat /\ Len(Tail(s)) = Len(s) - 1
      /\ \A i \in 1 .. Len(s) - 1 : Tail(s)[i] = s[i + 1]
  BY <1>3, TailFacts
<1>5. x \in Settings /\ v \in SettingValues
  BY <1>2, <1>4
<1>6. /\ \E garbled \in BOOLEAN : settingsFile' = [unreadable |-> garbled, holds |-> c.config]
      /\ promised' = [promised EXCEPT ![x] = v]
      /\ lost' = (lost \ {x}) \cup (c.missed \ {x})
      /\ commander' = [q \in Commanders |->
           IF q = p THEN [c EXCEPT !.at = "set", !.toSet = Tail(s)]
           ELSE [commander[q] EXCEPT !.missed = commander[q].missed \cup {x} \cup c.missed,
                                     !.over = commander[q].at = "write"]]
  BY <1>1, <1>2 DEF SetWrites, CommandStates
<1>7. \A y \in Settings : y # x => promised'[y] = promised[y]
  BY <1>1, <1>6 DEF Configs
<1>8. promised' \in Configs /\ promised'[x] = v /\ lost' \subseteq Settings
  BY <1>1, <1>3, <1>5, <1>6 DEF Configs
<1>9. \A y \in Settings \ (lost \cup c.missed \cup {x}) : c.config[y] = promised[y]
  BY <1>1, <1>2 DEF KeepsSettings, LoadedAsPromised
<1>10. \A y \in Settings \ lost' : c.config[y] = promised'[y]
  BY <1>3, <1>6, <1>7, <1>8, <1>9
<1>11. /\ settingsFile' \in [unreadable : BOOLEAN, holds : Configs]
       /\ settingsFile'.holds = c.config
  <2>1. PICK g \in BOOLEAN : settingsFile' = [unreadable |-> g, holds |-> c.config]
    BY <1>6
  <2>2. c.config \in Configs
    BY <1>3
  <2> QED BY ONLY <2>1, <2>2
<1>12. SettingsKept'
  BY <1>10, <1>11 DEF SettingsKept
<1>13. EnvSelectedExists'
  BY <1>1, <1>2, <1>11 DEF KeepsSettings, SelectsWhatIsThere, EnvSelectedExists
<1>14. ASSUME NEW q \in Commanders PROVE commander'[q] \in CommandStates /\ KeepsSettings(commander[q])'
  <2>1. PICK d : d = commander'[q]
    OBVIOUS
  <2>2. CASE q = p
    <3>1. d = [c EXCEPT !.at = "set", !.toSet = Tail(s)]
      BY <1>6, <2>1, <2>2
    <3>2. /\ d \in CommandStates /\ d.at = "set" /\ d.config = c.config /\ d.toSet = Tail(s)
          /\ d.missed = c.missed
      BY <1>3, <1>4, <3>1 DEF CommandStates
    <3>3. LoadedAsPromised(d)'
      BY <1>10, <3>2 DEF LoadedAsPromised
    <3>4. SelectsWhatIsThere(d)
      <4>1. /\ GetEnv(c.config)
            /\ \A i \in 1 .. Len(s) : IF s[i][1] = "env" THEN s[i][2] \in getEnvs(c.config)
                                      ELSE s[i][2] # Unset
        BY <1>1, <1>2 DEF KeepsSettings, SelectsWhatIsThere
      <4>2. \A i \in 1 .. Len(Tail(s)) : i + 1 \in 1 .. Len(s) /\ Tail(s)[i] = s[i + 1]
        BY <1>4
      <4> QED BY <3>2, <4>1, <4>2 DEF SelectsWhatIsThere
    <3> QED BY <2>1, <3>2, <3>3, <3>4, SMTT(30)
            DEF KeepsSettings, WritesWhatIsSet, SelectsWhatIsThere
  <2>3. CASE q # p
    <3>0. PICK b : b = commander[q]
      OBVIOUS
    <3>1. b \in CommandStates /\ KeepsSettings(b)
      BY <1>1, <3>0 DEF SettingsIInv
    <3>2. d = [b EXCEPT !.missed = b.missed \cup {x} \cup c.missed, !.over = b.at = "write"]
      BY <1>6, <2>1, <2>3, <3>0
    <3>3. /\ d \in CommandStates /\ d.at = b.at /\ d.config = b.config /\ d.toSet = b.toSet
          /\ d.missed = b.missed \cup {x} \cup c.missed
      BY <1>3, <1>5, <3>1, <3>2, ZenonT(30) DEF CommandStates
    <3>4. ASSUME d.at \in {"run", "set", "write"} PROVE LoadedAsPromised(d)'
      <4>1. LoadedAsPromised(b)
        BY <3>1, <3>3, <3>4 DEF KeepsSettings
      <4> QED BY <1>6, <1>7, <3>3, <4>1 DEF LoadedAsPromised
    <3> QED BY <2>1, <3>1, <3>3, <3>4 DEF KeepsSettings, WritesWhatIsSet, SelectsWhatIsThere
  <2> QED BY <2>2, <2>3
<1>15. commander' \in [Commanders -> CommandStates]
  BY <1>6, <1>14
<1> QED BY <1>8, <1>11, <1>12, <1>13, <1>14, <1>15 DEF SettingsIInv, SettingsTypeOK

LEMMA SettingsStepInv == SettingsIInv /\ SettingsNext => SettingsIInv'
  BY LoadsInv, SetsInv, TruncatesInv, EndsInv, WritesInv DEF SettingsNext

LEMMA SettingsStutter == SettingsIInv /\ UNCHANGED settingsVars => SettingsIInv'
<1> SUFFICES ASSUME SettingsIInv, UNCHANGED settingsVars PROVE SettingsIInv'
  OBVIOUS
<1>1. /\ settingsFile' = settingsFile /\ commander' = commander /\ promised' = promised
      /\ lost' = lost
  BY DEF settingsVars
<1>2. \A d : KeepsSettings(d)' <=> KeepsSettings(d)
  BY <1>1 DEF KeepsSettings, LoadedAsPromised, WritesWhatIsSet, SelectsWhatIsThere
<1>3. \A p \in Commanders : KeepsSettings(commander[p])'
  BY <1>1, <1>2 DEF SettingsIInv
<1> QED BY <1>1, <1>3 DEF SettingsIInv, SettingsTypeOK, SettingsKept, EnvSelectedExists

-----------------------------------------------------------------------------
(****************************************************************************)
(* The command line: what a command has printed, asked and copied.         *)
(****************************************************************************)

\* Taking the first of one sequence to the end of another keeps what they are together.
LEMMA FirstMoved ==
  ASSUME NEW S, NEW r \in Seq(S), NEW t \in Seq(S), t # <<>>
  PROVE  /\ Append(r, Head(t)) \o Tail(t) = r \o t
         /\ Append(r, Head(t)) \in Seq(S) /\ Tail(t) \in Seq(S) /\ Head(t) \in S
  OBVIOUS

\* With nothing after it, a sequence is what the two are together.
LEMMA NothingLeft ==
  ASSUME NEW S, NEW r \in Seq(S)
  PROVE  r \o <<>> = r
  OBVIOUS

LEMMA CommandInitInv == CommandInit => CommandIInv
<1> SUFFICES ASSUME CommandInit PROVE CommandIInv
  OBVIOUS
<1>1. (CHOOSE v \in SyncValues : TRUE) \in SyncValues
  BY CommandLineAssumption
<1>2. world \in Worlds
  BY <1>1 DEF CommandInit, Worlds, Stores
<1>3. session \in Sessions /\ session.at = "prompt" /\ session.said = "nothing"
      /\ session.command = "none"
  <2>1. session \in [interactive : BOOLEAN, at : {"prompt"}, command : {"none"}, code : {0},
                     said : {"nothing"}, commands : {0}]
    BY DEF CommandInit
  <2>2. {"none"} \subseteq AllCommands /\ {"prompt"} \subseteq {"prompt", "ask", "ended"}
        /\ {0} \subseteq 0 .. 2 /\ {"nothing"} \subseteq {"nothing", "ok", "error", "panic"}
        /\ {0} \subseteq Nat
    BY DEF AllCommands
  <2>3. session \in Sessions
    BY ONLY <2>1, <2>2 DEF Sessions
  <2> QED BY <2>1, <2>3
<1> QED BY <1>2, <1>3 DEF CommandIInv, CommandTypeOK, ExitTellsOutcome, NodeCommands

LEMMA ExitCodes == 0 \in 0 .. 2 /\ 1 \in 0 .. 2 /\ 2 \in 0 .. 2
  OBVIOUS

\* A command that has ended.
LEMMA EndedSession ==
  ASSUME session \in Sessions, NEW cmd \in AllCommands, NEW code \in 0 .. 2,
         NEW said \in {"nothing", "ok", "error", "panic"}, NEW s, s = Ended(cmd, code, said)
  PROVE  s \in Sessions /\ s.at \in {"prompt", "ended"} /\ s.command = cmd /\ s.code = code
         /\ s.said = said
<1>1. PICK at \in {"prompt", "ended"} :
        at = IF session.interactive /\ said # "panic" THEN "prompt" ELSE "ended"
  OBVIOUS
<1>2. s = [session EXCEPT !.at = at, !.command = cmd, !.code = code, !.said = said, !.commands = @ + 1]
  BY <1>1 DEF Ended
<1>3. session.commands + 1 \in Nat /\ at \in {"prompt", "ask", "ended"}
  BY DEF Sessions
<1>4. PICK n \in Nat : n = session.commands + 1
  BY <1>3
<1>5. s = [session EXCEPT !.at = at, !.command = cmd, !.code = code, !.said = said, !.commands = n]
  BY <1>2, <1>4
<1>6. s \in Sessions
  BY ONLY session \in Sessions, <1>3, <1>4, <1>5, cmd \in AllCommands, code \in 0 .. 2,
          said \in {"nothing", "ok", "error", "panic"} DEF Sessions
<1>7. s.at = at /\ s.command = cmd /\ s.code = code /\ s.said = said
  BY ONLY session \in Sessions, <1>5 DEF Sessions
<1> QED BY <1>6, <1>7

\* A command of one call, or of none, that has ended as told.
EndsAs(cmd, code, said) ==
  /\ session' = Ended(cmd, code, said) /\ world' \in Worlds
  /\ report' = <<>> /\ expected' = <<>>

LEMMA OneCall ==
  ASSUME CommandIInv, NEW cmd \in AllCommands \ {"sync"}, NEW code \in 0 .. 2,
         NEW said \in {"nothing", "ok", "error", "panic"}, EndsAs(cmd, code, said),
         code = 0 /\ said = "error" =>
           cmd \in {"create rule", "delete rule", "create account", "whoami", "trace"},
         code = 0 /\ said = "nothing" =>
           cmd \in {"none", "connect", "connections", "nodes", "services", "read", "trace"}
  PROVE  CommandIInv'
<1>1. session \in Sessions
  BY DEF CommandIInv, CommandTypeOK
<1>2. PICK s : s = session'
  OBVIOUS
<1>3. /\ s \in Sessions /\ s.at \in {"prompt", "ended"} /\ s.command = cmd /\ s.code = code
      /\ s.said = said
  <2>1. s = Ended(cmd, code, said) /\ cmd \in AllCommands
    BY <1>2 DEF EndsAs
  <2> QED BY ONLY <1>1, <2>1, code \in 0 .. 2, said \in {"nothing", "ok", "error", "panic"}, EndedSession
<1>4. CommandTypeOK'
  BY <1>2, <1>3 DEF CommandTypeOK, EndsAs
<1>5. ExitTellsOutcome'
  BY <1>2, <1>3 DEF ExitTellsOutcome, EndsAs
<1> QED BY <1>2, <1>3, <1>4, <1>5 DEF CommandIInv

LEMMA CallInv ==
  ASSUME CommandIInv, NEW cmd \in AllCommands \ {"sync"}, NEW then \in Worlds, Calls(cmd, then)
  PROVE  CommandIInv'
<1>1. world \in Worlds
  BY DEF CommandIInv, CommandTypeOK
<1>2. EndsAs(cmd, 0, "ok") \/ EndsAs(cmd, 1, "error")
  BY <1>1 DEF Calls, Succeeds, Fails, EndsAs
<1>3. CASE EndsAs(cmd, 0, "ok")
  <2>1. PICK code, said : code = 0 /\ said = "ok"
    OBVIOUS
  <2>2. code \in 0 .. 2
    BY <2>1
  <2>3. said \in {"nothing", "ok", "error", "panic"} /\ EndsAs(cmd, code, said)
    BY <1>3, <2>1
  <2> QED BY <2>1, <2>2, <2>3, OneCall
<1>4. CASE EndsAs(cmd, 1, "error")
  <2>1. PICK code, said : code = 1 /\ said = "error"
    OBVIOUS
  <2>2. code \in 0 .. 2 /\ code # 0
    BY <2>1
  <2>3. said \in {"nothing", "ok", "error", "panic"} /\ EndsAs(cmd, code, said)
    BY <1>4, <2>1
  <2> QED BY <2>1, <2>2, <2>3, OneCall
<1> QED BY <1>2, <1>3, <1>4

LEMMA CallOrSayInv ==
  ASSUME CommandIInv, NEW cmd \in {"create rule", "delete rule", "whoami", "trace"},
         NEW then \in Worlds, CallsOrSays(cmd, then)
  PROVE  CommandIInv'
<1>1. world \in Worlds
  BY DEF CommandIInv, CommandTypeOK
<1>2. EndsAs(cmd, 0, "ok") \/ EndsAs(cmd, 0, "error")
  BY <1>1 DEF CallsOrSays, Succeeds, SaysError, EndsAs
<1>3. cmd \in AllCommands \ {"sync"}
  BY DEF AllCommands
<1>4. PICK said \in {"ok", "error"} : EndsAs(cmd, 0, said)
  BY <1>2
<1>5. PICK code : code = 0
  OBVIOUS
<1>6. code \in 0 .. 2
  BY ONLY <1>5, ExitCodes
<1>7. said \in {"nothing", "ok", "error", "panic"} /\ said # "nothing"
  OBVIOUS
<1>8. EndsAs(cmd, code, said)
  BY <1>4, <1>5
<1> QED BY <1>3, <1>6, <1>7, <1>8, OneCall

LEMMA RefuseInv ==
  ASSUME CommandIInv, NEW cmd \in AllCommands \ {"sync"}, NEW code \in 0 .. 2,
         NEW said \in {"nothing", "error", "panic"}, Refuses(cmd, code, said),
         code = 0 /\ said = "error" =>
           cmd \in {"create rule", "delete rule", "create account", "whoami", "trace"},
         code = 0 /\ said = "nothing" =>
           cmd \in {"none", "connect", "connections", "nodes", "services", "read", "trace"}
  PROVE  CommandIInv'
<1>1. EndsAs(cmd, code, said)
  BY DEF CommandIInv, CommandTypeOK, Refuses, EndsAs
<1> QED BY <1>1, OneCall

\* A command that fails before it calls, one that says nothing, or only what is wrong,
\* and one that panics.
LEMMA RefuseFailed ==
  ASSUME CommandIInv, NEW cmd \in AllCommands \ {"sync"}, Refuses(cmd, 1, "error")
  PROVE  CommandIInv'
<1>1. PICK code, said : code = 1 /\ said = "error"
  OBVIOUS
<1>2. code \in 0 .. 2 /\ code # 0
  BY <1>1
<1>3. said \in {"nothing", "error", "panic"}
  BY <1>1
<1> QED BY <1>1, <1>2, <1>3, RefuseInv

LEMMA RefuseQuietly ==
  ASSUME CommandIInv, NEW cmd \in {"connect", "connections", "nodes", "services", "read", "trace"},
         Refuses(cmd, 0, "nothing")
  PROVE  CommandIInv'
<1>1. cmd \in AllCommands \ {"sync"}
  BY DEF AllCommands, commands
<1>2. PICK code, said : code = 0 /\ said = "nothing"
  OBVIOUS
<1>3. code \in 0 .. 2
  BY ONLY <1>2, ExitCodes
<1>4. said \in {"nothing", "error", "panic"}
  BY <1>2
<1> QED BY <1>1, <1>2, <1>3, <1>4, RefuseInv

LEMMA RefuseSaid ==
  ASSUME CommandIInv, NEW cmd \in {"create account", "trace"}, Refuses(cmd, 0, "error")
  PROVE  CommandIInv'
<1>1. cmd \in AllCommands \ {"sync"}
  BY DEF AllCommands
<1>2. PICK code, said : code = 0 /\ said = "error"
  OBVIOUS
<1>3. code \in 0 .. 2
  BY ONLY <1>2, ExitCodes
<1>4. said \in {"nothing", "error", "panic"}
  BY <1>2
<1> QED BY <1>1, <1>2, <1>3, <1>4, RefuseInv

LEMMA RefusePanic ==
  ASSUME CommandIInv, Refuses("routes", 2, "panic")
  PROVE  CommandIInv'
<1>1. "routes" \in AllCommands \ {"sync"}
  BY DEF AllCommands, commands
<1>2. PICK code, said : code = 2 /\ said = "panic"
  OBVIOUS
<1>3. code \in 0 .. 2
  BY ONLY <1>2, ExitCodes
<1>4. said \in {"nothing", "error", "panic"}
  BY <1>2
<1> QED BY <1>1, <1>2, <1>3, <1>4, RefuseInv

\* What the commands make of the world.
LEMMA WorldsMade ==
  ASSUME world \in Worlds
  PROVE  /\ \A nodes \in SUBSET ServiceNodes : /\ [world EXCEPT !.nodes = nodes] \in Worlds
                                               /\ [world EXCEPT !.up = nodes] \in Worlds
         /\ \A rules \in SUBSET {Rule} : [world EXCEPT !.rules = rules] \in Worlds
         /\ \A set \in BOOLEAN : [world EXCEPT !.config = set] \in Worlds
         /\ \A k \in SyncKeys, v \in SyncValues \cup {NoRecord} :
              /\ [world EXCEPT !.from[k] = v] \in Worlds
              /\ [world EXCEPT !.to[k] = v] \in Worlds
  BY DEF Worlds, Stores

LEMMA ServiceCommandInv ==
  ASSUME CommandIInv,
         \/ \E n \in ServiceNodes : RegisterService(n) \/ DeregisterService(n) \/ HealthAt(n)
         \/ CallService \/ Publish \/ ListAllServices \/ streamService
  PROVE  CommandIInv'
<1>1. world \in Worlds
  BY DEF CommandIInv, CommandTypeOK
<1>2. /\ {"register", "deregister", "health at", "call", "publish", "list", "stream"} \subseteq AllCommands
      /\ "sync" \notin {"register", "deregister", "health at", "call", "publish", "list", "stream"}
  BY DEF AllCommands, commands
<1>3. ASSUME NEW n \in ServiceNodes, RegisterService(n) PROVE CommandIInv'
  <2>1. [world EXCEPT !.nodes = @ \cup {n}] \in Worlds
    BY <1>1 DEF Worlds
  <2> QED BY <1>2, <1>3, <2>1, CallInv, RefuseFailed DEF RegisterService
<1>4. ASSUME NEW n \in ServiceNodes, DeregisterService(n) PROVE CommandIInv'
  <2>1. [world EXCEPT !.nodes = @ \ {n}] \in Worlds
    BY <1>1 DEF Worlds
  <2> QED BY <1>2, <1>4, <2>1, CallInv, RefuseFailed DEF DeregisterService
<1>5. ASSUME NEW n \in ServiceNodes, HealthAt(n) PROVE CommandIInv'
  BY <1>1, <1>2, <1>5, CallInv, RefuseFailed DEF HealthAt
<1>6. CASE CallService \/ Publish \/ ListAllServices \/ streamService
  BY <1>1, <1>2, <1>6, CallInv, RefuseFailed DEF CallService, Publish, ListAllServices, streamService
<1> QED BY <1>3, <1>4, <1>5, <1>6

LEMMA NetworkCommandInv ==
  ASSUME CommandIInv,
         \/ NetworkConnect \/ NetworkRoutes \/ NetworkConnections \/ NetworkNodes \/ NetworkServices
         \/ NetworkGraph
  PROVE  CommandIInv'
<1>1. world \in Worlds
  BY DEF CommandIInv, CommandTypeOK
<1>2. {"connect", "routes", "connections", "nodes", "services", "graph"} \subseteq AllCommands \ {"sync"}
  BY DEF AllCommands, commands
<1>3. CASE NetworkConnect
  BY <1>1, <1>2, <1>3, CallInv, RefuseQuietly DEF NetworkConnect
<1>4. CASE NetworkRoutes
  BY <1>1, <1>2, <1>4, CallInv, RefusePanic DEF NetworkRoutes
<1>5. CASE NetworkConnections
  BY <1>1, <1>2, <1>5, CallInv, RefuseQuietly DEF NetworkConnections
<1>6. CASE NetworkNodes
  BY <1>1, <1>2, <1>6, CallInv, RefuseQuietly DEF NetworkNodes
<1>7. CASE NetworkServices
  BY <1>1, <1>2, <1>7, CallInv, RefuseQuietly DEF NetworkServices
<1>8. CASE NetworkGraph
  BY <1>1, <1>2, <1>8, CallInv DEF NetworkGraph
<1> QED BY <1>3, <1>4, <1>5, <1>6, <1>7, <1>8

LEMMA StoreCommandInv ==
  ASSUME CommandIInv,
         \/ listDatabases \/ listTables \/ ReadNone \/ ListRecords
         \/ \E k \in SyncKeys :
              ReadRecord(k) \/ DeleteRecord(k) \/ \E v \in SyncValues : WriteRecord(k, v)
  PROVE  CommandIInv'
<1>1. world \in Worlds
  BY DEF CommandIInv, CommandTypeOK
<1>2. {"databases", "tables", "read", "list records", "delete", "write"} \subseteq AllCommands \ {"sync"}
  BY DEF AllCommands
<1>3. CASE listDatabases \/ listTables \/ ListRecords
  BY <1>1, <1>2, <1>3, CallInv, RefuseFailed DEF listDatabases, listTables, ListRecords
<1>4. CASE ReadNone
  BY <1>2, <1>4, RefuseQuietly DEF ReadNone
<1>5. ASSUME NEW k \in SyncKeys, ReadRecord(k) PROVE CommandIInv'
  BY <1>1, <1>2, <1>5, CallInv, RefuseFailed DEF ReadRecord
<1>6. ASSUME NEW k \in SyncKeys, DeleteRecord(k) PROVE CommandIInv'
  <2>1. [world EXCEPT !.from[k] = NoRecord] \in Worlds
    BY <1>1, WorldsMade
  <2> QED BY <1>2, <1>6, <2>1, CallInv, RefuseFailed DEF DeleteRecord
<1>7. ASSUME NEW k \in SyncKeys, NEW v \in SyncValues, WriteRecord(k, v) PROVE CommandIInv'
  <2>1. [world EXCEPT !.from[k] = v] \in Worlds
    BY <1>1, WorldsMade
  <2> QED BY <1>2, <1>7, <2>1, CallInv, RefuseFailed DEF WriteRecord
<1> QED BY <1>3, <1>4, <1>5, <1>6, <1>7

LEMMA ConfigCommandInv ==
  ASSUME CommandIInv, setConfig \/ getConfig \/ delConfig
  PROVE  CommandIInv'
<1>1. world \in Worlds
  BY DEF CommandIInv, CommandTypeOK
<1>2. {"set config", "get config", "del config"} \subseteq AllCommands \ {"sync"}
  BY DEF AllCommands
<1>3. CASE setConfig
  BY <1>1, <1>2, <1>3, CallInv, RefuseFailed, WorldsMade DEF setConfig
<1>4. CASE getConfig
  BY <1>1, <1>2, <1>4, CallInv, RefuseFailed DEF getConfig
<1>5. CASE delConfig
  BY <1>1, <1>2, <1>5, CallInv, RefuseFailed, WorldsMade DEF delConfig
<1> QED BY <1>3, <1>4, <1>5

LEMMA AuthCommandInv ==
  ASSUME CommandIInv,
         \/ listAccounts \/ listRules \/ createRule \/ deleteRule \/ createAccount \/ whoami
         \/ getTrace
  PROVE  CommandIInv'
<1>1. world \in Worlds
  BY DEF CommandIInv, CommandTypeOK
<1>2. {"list accounts", "list rules", "create rule", "delete rule", "create account", "whoami", "trace"}
        \subseteq AllCommands \ {"sync"}
  BY DEF AllCommands
<1>3. CASE listAccounts \/ listRules
  BY <1>1, <1>2, <1>3, CallInv DEF listAccounts, listRules
<1>4. CASE createRule
  BY <1>1, <1>2, <1>4, CallOrSayInv, RefuseFailed, WorldsMade DEF createRule
<1>5. CASE deleteRule
  BY <1>1, <1>2, <1>5, CallOrSayInv, RefuseFailed, WorldsMade DEF deleteRule
<1>6. CASE createAccount
  BY <1>1, <1>2, <1>6, CallInv, RefuseSaid DEF createAccount
<1>7. CASE whoami
  BY <1>1, <1>2, <1>7, CallOrSayInv, RefuseFailed DEF whoami
<1>8. CASE getTrace
  BY <1>1, <1>2, <1>8, CallOrSayInv, RefuseSaid, RefuseQuietly DEF getTrace
<1> QED BY <1>3, <1>4, <1>5, <1>6, <1>7, <1>8

LEMMA QuitInv ==
  ASSUME CommandIInv, quit
  PROVE  CommandIInv'
<1>1. world' \in Worlds /\ session \in Sessions
  BY DEF CommandIInv, CommandTypeOK, quit
<1>2. PICK code, n : /\ code \in {0, 1} /\ n = session.commands
                     /\ session' \in [interactive : {TRUE}, at : {"ended"}, command : {"quit"},
                                               code : {code}, said : {"ok"}, commands : {n}]
  BY DEF quit
<1>3. session' = [interactive |-> TRUE, at |-> "ended", command |-> "quit", code |-> code,
                  said |-> "ok", commands |-> n]
  BY <1>2
<1>4. n \in Nat /\ code \in 0 .. 2 /\ "quit" \in AllCommands
  <2>1. n \in Nat
    BY <1>1, <1>2 DEF Sessions
  <2>2. code \in 0 .. 2
    BY <1>2
  <2>3. "quit" \in AllCommands
    BY DEF AllCommands
  <2> QED BY <2>1, <2>2, <2>3
<1>5. session' \in Sessions
  BY ONLY <1>3, <1>4 DEF Sessions
<1>6. session'.at = "ended" /\ session'.command = "quit" /\ session'.said = "ok"
  BY ONLY <1>3
<1> QED BY <1>1, <1>5, <1>6 DEF CommandIInv, CommandTypeOK, ExitTellsOutcome, NodeCommands

\* The registry has listed the nodes: each will be asked, in its order.
LEMMA QueryInv ==
  ASSUME CommandIInv, NEW cmd \in NodeCommands, QueryNodes(cmd)
  PROVE  CommandIInv'
<1>1. world \in Worlds /\ session \in Sessions
  BY DEF CommandIInv, CommandTypeOK
<1>2. cmd \in AllCommands \ {"sync"} /\ cmd \in {"get", "health", "stats"}
  BY DEF AllCommands, commands, NodeCommands
<1>3. CASE Refuses(cmd, 1, "error")
  BY <1>2, <1>3, RefuseFailed
<1>4. ASSUME NEW nodes \in SetToSeqs(world.nodes), expected' = nodes,
             IF cmd = "get"
               THEN report' = nodes /\ toAsk' = <<>> /\ Succeeds(cmd)
               ELSE /\ toAsk' = nodes /\ report' = <<>>
                    /\ session' = [session EXCEPT !.at = "ask", !.command = cmd],
             UNCHANGED <<world, worldChanges>>
      PROVE  CommandIInv'
  <2>1. nodes \in Seq(ServiceNodes)
    <3>1. PICK S : S = world.nodes
      OBVIOUS
    <3>2. IsFiniteSet(S) /\ S \subseteq ServiceNodes
      BY <1>1, <3>1, CommandLineAssumption, FS_Subset DEF Worlds
    <3>3. nodes \in Seq(S)
      BY <3>1, <3>2, SetSequences
    <3> QED BY ONLY <3>2, <3>3
  <2>2. CASE cmd = "get"
    <3>1. PICK s : s = session'
      OBVIOUS
    <3>2. s \in Sessions /\ s.at \in {"prompt", "ended"} /\ s.command = "get" /\ s.said = "ok"
      <4>1. s = Ended(cmd, 0, "ok") /\ cmd \in AllCommands
        BY <1>2, <1>4, <2>2, <3>1 DEF Succeeds
      <4>2. PICK code, said : code = 0 /\ said = "ok"
        OBVIOUS
      <4>3. code \in 0 .. 2
        BY <4>2
      <4>4. said \in {"nothing", "ok", "error", "panic"} /\ s = Ended(cmd, code, said)
        BY <4>1, <4>2
      <4>5. s \in Sessions /\ s.at \in {"prompt", "ended"} /\ s.command = cmd /\ s.said = said
        BY ONLY <1>1, <4>1, <4>3, <4>4, EndedSession
      <4> QED BY <2>2, <4>2, <4>5
    <3>3. report' = expected'
      BY <1>4, <2>2
    <3> QED BY <1>1, <1>4, <3>1, <3>2, <3>3 DEF CommandIInv, CommandTypeOK, ExitTellsOutcome
  <2>3. CASE cmd # "get"
    <3>1. session' = [session EXCEPT !.at = "ask", !.command = cmd]
          /\ toAsk' = nodes /\ report' = <<>>
      BY <1>4, <2>3
    <3>2. session' \in Sessions
      <4>1. "ask" \in {"prompt", "ask", "ended"} /\ cmd \in AllCommands
        BY <1>2
      <4> QED BY ONLY <1>1, <3>1, <4>1 DEF Sessions
    <3>3. session'.at = "ask" /\ session'.command \in {"health", "stats"}
      BY <1>1, <1>2, <2>3, <3>1 DEF Sessions
    <3>4. AskedSoFar'
      <4>1. <<>> \in Seq(ServiceNodes) /\ <<>> \o nodes = nodes
        BY ONLY <2>1
      <4> QED BY <1>4, <2>1, <3>1, <4>1 DEF AskedSoFar
    <3> QED BY <1>1, <1>4, <3>2, <3>3, <3>4 DEF CommandIInv, CommandTypeOK, ExitTellsOutcome
  <2> QED BY <2>2, <2>3
<1> QED BY <1>3, <1>4 DEF QueryNodes

\* A node is asked, or there is none left.
LEMMA AskInv ==
  ASSUME CommandIInv, AskNode
  PROVE  CommandIInv'
<1>1. /\ session.at = "ask" /\ session.command \in {"health", "stats"}
      /\ UNCHANGED <<world, worldChanges, expected>>
  BY DEF AskNode
<1>2. world \in Worlds /\ session \in Sessions /\ AskedSoFar
  BY <1>1 DEF CommandIInv, CommandTypeOK
<1>3. CASE toAsk = <<>>
  <2>1. Succeeds(session.command) /\ UNCHANGED <<toAsk, report>>
    BY <1>3 DEF AskNode
  <2>2. report = expected
    <3>1. report \in Seq(ServiceNodes) /\ report \o <<>> = expected
      BY <1>2, <1>3 DEF AskedSoFar
    <3> QED BY ONLY <3>1, NothingLeft
  <2>3. PICK s, cmd : s = session' /\ cmd = session.command
    OBVIOUS
  <2>4. cmd \in AllCommands /\ cmd \in {"health", "stats"}
    BY <1>1, <2>3 DEF AllCommands, commands
  <2>5. PICK code, said : code = 0 /\ said = "ok"
    OBVIOUS
  <2>6. code \in 0 .. 2
    BY ONLY <2>5
  <2>7. said \in {"nothing", "ok", "error", "panic"} /\ s = Ended(cmd, code, said)
    BY <2>1, <2>3, <2>5 DEF Succeeds
  <2>8. s \in Sessions /\ s.at \in {"prompt", "ended"} /\ s.command = cmd /\ s.said = said
    BY ONLY <1>2, <2>4, <2>6, <2>7, EndedSession
  <2>9. report' = expected'
    BY <1>1, <2>1, <2>2
  <2> QED BY <1>1, <1>2, <2>3, <2>4, <2>5, <2>8, <2>9 DEF CommandIInv, CommandTypeOK, ExitTellsOutcome
<1>4. CASE toAsk # <<>>
  <2>1. toAsk' = Tail(toAsk) /\ report' = Append(report, Head(toAsk)) /\ UNCHANGED session
    BY <1>4 DEF AskNode
  <2>2. PICK r, t : r = report /\ t = toAsk
    OBVIOUS
  <2>3. r \in Seq(ServiceNodes) /\ t \in Seq(ServiceNodes) /\ t # <<>> /\ r \o t = expected
    BY <1>2, <1>4, <2>2 DEF AskedSoFar
  <2>4. /\ Append(r, Head(t)) \o Tail(t) = r \o t
        /\ Append(r, Head(t)) \in Seq(ServiceNodes) /\ Tail(t) \in Seq(ServiceNodes)
    BY ONLY <2>3, FirstMoved
  <2>5. AskedSoFar'
    BY <1>1, <2>1, <2>2, <2>3, <2>4 DEF AskedSoFar
  <2> QED BY <1>1, <1>2, <2>1, <2>5 DEF CommandIInv, CommandTypeOK, ExitTellsOutcome
<1> QED BY <1>3, <1>4

\* Keys of a report, and of one with one more.
LEMMA KeysAppended ==
  ASSUME NEW r \in Seq(SyncKeys \X SyncValues), NEW k \in SyncKeys, NEW v \in SyncValues
  PROVE  /\ [i \in DOMAIN r |-> r[i][1]] \in Seq(SyncKeys)
         /\ Len([i \in DOMAIN r |-> r[i][1]]) = Len(r)
         /\ [i \in DOMAIN Append(r, <<k, v>>) |-> Append(r, <<k, v>>)[i][1]] =
              Append([i \in DOMAIN r |-> r[i][1]], k)
<1>1. PICK e : e = <<k, v>>
  OBVIOUS
<1>2. e \in SyncKeys \X SyncValues /\ e[1] = k
  BY <1>1
<1>3. PICK s : s = Append(r, e)
  OBVIOUS
<1>4. /\ s \in Seq(SyncKeys \X SyncValues) /\ Len(s) = Len(r) + 1 /\ s[Len(r) + 1] = e
      /\ \A i \in 1 .. Len(r) : s[i] = r[i]
      /\ DOMAIN r = 1 .. Len(r) /\ DOMAIN s = 1 .. Len(r) + 1 /\ Len(r) \in Nat
  BY ONLY <1>2, <1>3, r \in Seq(SyncKeys \X SyncValues)
<1>5. PICK c : c = [i \in DOMAIN r |-> r[i][1]]
  OBVIOUS
<1>6. \A i \in 1 .. Len(r) : r[i][1] \in SyncKeys
  <2>1. \A i \in 1 .. Len(r) : r[i] \in SyncKeys \X SyncValues
    OBVIOUS
  <2> QED BY <2>1
<1>7. c \in Seq(SyncKeys) /\ Len(c) = Len(r) /\ \A i \in 1 .. Len(r) : c[i] = r[i][1]
  BY ONLY <1>4, <1>5, <1>6
<1>8. PICK d : d = [i \in DOMAIN s |-> s[i][1]]
  OBVIOUS
<1>9. d = Append(c, k)
  <2>1. PICK a : a = Append(c, k)
    OBVIOUS
  <2>2. /\ a \in Seq(SyncKeys) /\ Len(a) = Len(r) + 1 /\ a[Len(r) + 1] = k
        /\ \A i \in 1 .. Len(r) : a[i] = r[i][1]
    BY ONLY <1>4, <1>7, <2>1, k \in SyncKeys
  <2>3. \A i \in 1 .. Len(r) + 1 : d[i] = a[i]
    <3>1. d[Len(r) + 1] = k
      BY ONLY <1>2, <1>4, <1>8
    <3>2. \A i \in 1 .. Len(r) : d[i] = r[i][1]
      BY ONLY <1>4, <1>8
    <3>3. \A i \in 1 .. Len(r) + 1 : i \in 1 .. Len(r) \/ i = Len(r) + 1
      BY ONLY <1>4
    <3> QED BY ONLY <2>2, <3>1, <3>2, <3>3
  <2>4. DOMAIN a = 1 .. Len(r) + 1 /\ DOMAIN d = 1 .. Len(r) + 1
    BY ONLY <1>4, <1>8, <2>2
  <2>5. a = [i \in 1 .. Len(r) + 1 |-> a[i]] /\ d = [i \in 1 .. Len(r) + 1 |-> d[i]]
    BY ONLY <1>4, <1>8, <2>2, <2>4
  <2> QED BY ONLY <2>1, <2>3, <2>5
<1> QED BY <1>1, <1>3, <1>5, <1>7, <1>8, <1>9

LEMMA SyncListInv ==
  ASSUME CommandIInv, SyncLists
  PROVE  CommandIInv'
<1>1. world \in Worlds /\ session \in Sessions
  BY DEF CommandIInv, CommandTypeOK
<1>2. CASE Refuses("sync", 1, "error")
  <2>1. PICK s, code, said, cmd : s = session' /\ code = 1 /\ said = "error" /\ cmd = "sync"
    OBVIOUS
  <2>2. code \in 0 .. 2 /\ code # 0
    BY ONLY <2>1, ExitCodes
  <2>3. cmd \in AllCommands
    BY <2>1 DEF AllCommands
  <2>4. said \in {"nothing", "ok", "error", "panic"} /\ s = Ended(cmd, code, said) /\ world' = world
    BY <1>2, <2>1 DEF Refuses
  <2>5. s \in Sessions /\ s.at \in {"prompt", "ended"} /\ s.code = code
    BY ONLY <1>1, <2>2, <2>3, <2>4, EndedSession
  <2> QED BY <1>1, <2>1, <2>2, <2>4, <2>5 DEF CommandIInv, CommandTypeOK, ExitTellsOutcome
<1>3. ASSUME NEW keys \in SetToSeqs({k \in SyncKeys : world.from[k] # NoRecord}),
             toAsk' = keys, expected' = keys, report' = <<>>,
             session' = [session EXCEPT !.at = "ask", !.command = "sync"],
             UNCHANGED <<world, worldChanges>>
      PROVE  CommandIInv'
  <2>1. /\ keys \in Seq(SyncKeys)
        /\ \A i, j \in 1 .. Len(keys) : i # j => keys[i] # keys[j]
    <3>1. PICK S : S = {k \in SyncKeys : world.from[k] # NoRecord}
      OBVIOUS
    <3>2. IsFiniteSet(S) /\ S \subseteq SyncKeys
      BY <3>1, CommandLineAssumption, FS_Subset
    <3>3. /\ keys \in Seq(S)
          /\ \A i, j \in 1 .. Len(keys) : i # j => keys[i] # keys[j]
      BY <3>1, <3>2, SetSequences
    <3> QED BY ONLY <3>2, <3>3
  <2>2. session' \in Sessions
    <3>1. "ask" \in {"prompt", "ask", "ended"} /\ "sync" \in AllCommands
      BY DEF AllCommands
    <3> QED BY ONLY <1>1, <1>3, <3>1 DEF Sessions
  <2>3. session'.at = "ask" /\ session'.command = "sync"
    BY ONLY <1>1, <1>3 DEF Sessions
  <2>4. CopiedSoFar'
    <3>1. Copied' = <<>>
      BY <1>3 DEF Copied
    <3>2. <<>> \in Seq(SyncKeys) /\ <<>> \o keys = keys /\ <<>> \in Seq(SyncKeys \X SyncValues)
          /\ Len(<<>>) = 0
      BY ONLY <2>1
    <3> QED BY <1>3, <2>1, <3>1, <3>2 DEF CopiedSoFar
  <2> QED BY <1>1, <1>3, <2>2, <2>3, <2>4 DEF CommandIInv, CommandTypeOK, ExitTellsOutcome
<1> QED BY <1>2, <1>3 DEF SyncLists

\* A key that is read and written: none of those copied before it, as the store listed
\* each once.
LEMMA CopyInv ==
  ASSUME CommandIInv, SyncCopies
  PROVE  CommandIInv'
<1>1. /\ session.at = "ask" /\ session.command = "sync" /\ toAsk # <<>>
      /\ UNCHANGED <<worldChanges, expected>>
  BY DEF SyncCopies
<1>2. world \in Worlds /\ session \in Sessions /\ CopiedSoFar
  BY <1>1 DEF CommandIInv, CommandTypeOK
<1>3. CASE Fails("sync") /\ UNCHANGED <<world, toAsk, report>>
  <2>1. PICK s, code, said, cmd : s = session' /\ code = 1 /\ said = "error" /\ cmd = "sync"
    OBVIOUS
  <2>2. code \in 0 .. 2 /\ code # 0
    BY ONLY <2>1, ExitCodes
  <2>3. cmd \in AllCommands
    BY <2>1 DEF AllCommands
  <2>4. said \in {"nothing", "ok", "error", "panic"} /\ s = Ended(cmd, code, said)
    BY <1>3, <2>1 DEF Fails
  <2>5. s \in Sessions /\ s.at \in {"prompt", "ended"} /\ s.code = code
    BY ONLY <1>2, <2>2, <2>3, <2>4, EndedSession
  <2> QED BY <1>2, <1>3, <2>1, <2>2, <2>5 DEF CommandIInv, CommandTypeOK, ExitTellsOutcome
<1>4. ASSUME NEW k, NEW v, k = Head(toAsk), v = world.from[k], v # NoRecord,
             world' = [world EXCEPT !.to[k] = v], report' = Append(report, <<k, v>>),
             toAsk' = Tail(toAsk), UNCHANGED session
      PROVE  CommandIInv'
  <2>1. PICK r, t, c : r = report /\ t = toAsk /\ c = Copied
    OBVIOUS
  <2>2. /\ r \in Seq(SyncKeys \X SyncValues) /\ t \in Seq(SyncKeys) /\ t # <<>>
        /\ c \o t = expected /\ c = [i \in DOMAIN r |-> r[i][1]]
    BY <1>1, <1>2, <2>1 DEF CopiedSoFar, Copied
  <2>3. k \in SyncKeys /\ v \in SyncValues
    <3>1. k \in SyncKeys
      BY <1>4, <2>1, <2>2
    <3> QED BY <1>2, <1>4, <3>1 DEF Worlds, Stores
  <2>4. world' \in Worlds
    BY <1>2, <1>4, <2>3, WorldsMade
  <2>5. /\ c \in Seq(SyncKeys) /\ Len(c) = Len(r)
        /\ [i \in DOMAIN Append(r, <<k, v>>) |-> Append(r, <<k, v>>)[i][1]] = Append(c, k)
    BY <2>2, <2>3, KeysAppended
  <2>6. Copied' = Append(c, k)
    BY <1>4, <2>1, <2>5 DEF Copied
  <2>7. /\ Append(c, k) \o Tail(t) = c \o t /\ Tail(t) \in Seq(SyncKeys)
    <3>1. k = Head(t)
      BY <1>4, <2>1
    <3>2. c \in Seq(SyncKeys) /\ t \in Seq(SyncKeys) /\ t # <<>>
      BY <2>2, <2>5
    <3> QED BY ONLY <3>1, <3>2, FirstMoved
  <2>8. PICK e : e = <<k, v>>
    OBVIOUS
  <2>9. e \in SyncKeys \X SyncValues /\ e[1] = k /\ e[2] = v /\ report' = Append(r, e)
    BY <1>4, <2>1, <2>3, <2>8
  <2>10. /\ Append(r, e) \in Seq(SyncKeys \X SyncValues) /\ Len(Append(r, e)) = Len(r) + 1
         /\ Append(r, e)[Len(r) + 1] = e /\ \A i \in 1 .. Len(r) : Append(r, e)[i] = r[i]
         /\ Len(r) \in Nat
    BY ONLY <2>2, <2>9
  <2>11. \A i \in 1 .. Len(r) : r[i][1] # k
    <3>1. \A i \in 1 .. Len(r) : c[i] = r[i][1]
      BY ONLY <2>2, <2>5
    <3>2. /\ Len(c) \in Nat /\ Len(c) + 1 \in 1 .. Len(expected) /\ expected[Len(c) + 1] = k
          /\ \A i \in 1 .. Len(c) : expected[i] = c[i] /\ i \in 1 .. Len(expected)
      <4>1. Len(t) >= 1 /\ t[1] = k /\ Len(t) \in Nat
        BY ONLY <1>4, <2>1, <2>2
      <4>2. PICK x : x = expected
        OBVIOUS
      <4>3. x = c \o t
        BY <2>2, <4>2
      <4>4. /\ Len(c) \in Nat /\ Len(x) = Len(c) + Len(t) /\ x[Len(c) + 1] = t[1]
            /\ \A i \in 1 .. Len(c) : x[i] = c[i]
        BY ONLY <2>2, <2>5, <4>1, <4>3
      <4> QED BY ONLY <4>1, <4>2, <4>4
    <3>3. \A i, j \in 1 .. Len(expected) : i # j => expected[i] # expected[j]
      BY <1>2 DEF CopiedSoFar
    <3> QED BY ONLY <2>5, <3>1, <3>2, <3>3
  <2>12. world'.to[k] = v /\ \A j \in SyncKeys : j # k => world'.to[j] = world.to[j]
    BY <1>2, <1>4, <2>3 DEF Worlds, Stores
  <2>13. \A i \in 1 .. Len(r) + 1 : world'.to[Append(r, e)[i][1]] = Append(r, e)[i][2]
    <3>1. \A i \in 1 .. Len(r) : world.to[r[i][1]] = r[i][2]
      BY <1>2, <2>1 DEF CopiedSoFar
    <3>2. \A i \in 1 .. Len(r) : r[i][1] \in SyncKeys
      <4>1. \A i \in 1 .. Len(r) : r[i] \in SyncKeys \X SyncValues
        BY ONLY <2>2
      <4> QED BY ONLY <4>1
    <3>3. \A i \in 1 .. Len(r) : world'.to[r[i][1]] = r[i][2]
      BY ONLY <2>11, <2>12, <3>1, <3>2
    <3>4. \A i \in 1 .. Len(r) + 1 : i \in 1 .. Len(r) \/ i = Len(r) + 1
      BY ONLY <2>10
    <3> QED BY ONLY <2>9, <2>10, <2>12, <3>3, <3>4
  <2>14. CopiedSoFar'
    <3>1. report' \in Seq(SyncKeys \X SyncValues) /\ toAsk' \in Seq(SyncKeys)
      BY <1>4, <2>1, <2>7, <2>9, <2>10
    <3>2. Copied' \o toAsk' = expected'
      BY <1>1, <1>4, <2>1, <2>2, <2>6, <2>7
    <3>3. \A i, j \in 1 .. Len(expected') : i # j => expected'[i] # expected'[j]
      BY <1>1, <1>2 DEF CopiedSoFar
    <3>4. \A i \in 1 .. Len(report') : world'.to[report'[i][1]] = report'[i][2]
      BY <2>9, <2>10, <2>13
    <3> QED BY ONLY <3>1, <3>2, <3>3, <3>4 DEF CopiedSoFar
  <2> QED BY <1>1, <1>2, <1>4, <2>4, <2>14 DEF CommandIInv, CommandTypeOK, ExitTellsOutcome
<1> QED BY <1>3, <1>4 DEF SyncCopies

LEMMA SyncEndInv ==
  ASSUME CommandIInv, SyncEnds
  PROVE  CommandIInv'
<1>1. /\ session.at = "ask" /\ session.command = "sync" /\ toAsk = <<>> /\ Succeeds("sync")
      /\ UNCHANGED <<world, worldChanges, toAsk, report, expected>>
  BY DEF SyncEnds
<1>2. world \in Worlds /\ session \in Sessions /\ CopiedSoFar
  BY <1>1 DEF CommandIInv, CommandTypeOK
<1>3. Copied = expected
  <2>1. PICK r, c : r = report /\ c = Copied
    OBVIOUS
  <2>2. r \in Seq(SyncKeys \X SyncValues) /\ c \o <<>> = expected /\ c = [i \in DOMAIN r |-> r[i][1]]
    BY <1>1, <1>2, <2>1 DEF CopiedSoFar, Copied
  <2>3. c \in Seq(SyncKeys)
    <3>1. \A i \in 1 .. Len(r) : r[i] \in SyncKeys \X SyncValues
      BY ONLY <2>2
    <3>2. \A i \in 1 .. Len(r) : r[i][1] \in SyncKeys
      BY ONLY <3>1
    <3>3. DOMAIN r = 1 .. Len(r) /\ Len(r) \in Nat
      BY ONLY <2>2
    <3> QED BY ONLY <2>2, <3>2, <3>3
  <2> QED BY <2>1, <2>2, <2>3, NothingLeft
<1>4. PICK s, code, said, cmd : s = session' /\ code = 0 /\ said = "ok" /\ cmd = "sync"
  OBVIOUS
<1>5. code \in 0 .. 2
  BY ONLY <1>4, ExitCodes
<1>6. cmd \in AllCommands
  BY <1>4 DEF AllCommands
<1>7. said \in {"nothing", "ok", "error", "panic"} /\ s = Ended(cmd, code, said)
  BY <1>1, <1>4 DEF Succeeds
<1>8. /\ s \in Sessions /\ s.at \in {"prompt", "ended"} /\ s.code = code /\ s.said = said
      /\ s.command = cmd
  BY ONLY <1>2, <1>5, <1>6, <1>7, EndedSession
<1>9. /\ Copied' = expected'
      /\ \A i \in DOMAIN report' : world'.to[report'[i][1]] = report'[i][2]
  <2>1. DOMAIN report = 1 .. Len(report)
    BY <1>2 DEF CopiedSoFar
  <2> QED BY <1>1, <1>2, <1>3, <2>1 DEF Copied, CopiedSoFar
<1> QED BY <1>1, <1>2, <1>4, <1>8, <1>9
    DEF CommandIInv, CommandTypeOK, ExitTellsOutcome, NodeCommands

\* What others change leaves what the command has done.
LEMMA OthersInv ==
  ASSUME CommandIInv, world' \in Worlds, world'.to = world.to,
         UNCHANGED <<session, toAsk, report, expected>>
  PROVE  CommandIInv'
  BY DEF CommandIInv, CommandTypeOK, ExitTellsOutcome, AskedSoFar, CopiedSoFar, Copied

LEMMA CommandStepInv == CommandIInv /\ CommandNext => CommandIInv'
<1> SUFFICES ASSUME CommandIInv, CommandNext PROVE CommandIInv'
  OBVIOUS
<1>1. world \in Worlds
  BY DEF CommandIInv, CommandTypeOK
<1>2. ASSUME NEW n \in ServiceNodes, NodeChanges(n) PROVE CommandIInv'
  <2>1. PICK up, nodes \in SUBSET ServiceNodes :
          world' = [world EXCEPT !.up = up] \/ world' = [world EXCEPT !.nodes = nodes]
    BY <1>1, <1>2 DEF NodeChanges, Worlds
  <2>2. world' \in Worlds /\ world'.to = world.to
    BY <1>1, <2>1, WorldsMade DEF Worlds
  <2> QED BY <1>2, <2>2, OthersInv DEF NodeChanges
<1>3. ASSUME NEW k \in SyncKeys, NEW v \in SyncValues \cup {NoRecord}, FromChanges(k, v)
      PROVE  CommandIInv'
  <2>1. world' \in Worlds /\ world'.to = world.to
    BY <1>1, <1>3, WorldsMade DEF FromChanges, Worlds
  <2> QED BY <1>3, <2>1, OthersInv DEF FromChanges
<1> QED BY <1>2, <1>3, ServiceCommandInv, NetworkCommandInv, StoreCommandInv, ConfigCommandInv,
           AuthCommandInv, QuitInv, QueryInv, AskInv, SyncListInv, CopyInv, SyncEndInv, SMTT(30)
        DEF CommandNext

LEMMA CommandStutter == CommandIInv /\ UNCHANGED commandVars => CommandIInv'
  BY ZenonT(30) DEF commandVars, CommandIInv, CommandTypeOK, ExitTellsOutcome, AskedSoFar, CopiedSoFar, Copied

-----------------------------------------------------------------------------
(****************************************************************************)
(* All of them.                                                            *)
(****************************************************************************)

ServicesIInv ==
  /\ RegistryIInv /\ RuntimeIInv /\ StoreIInv /\ SnapshotIInv
  /\ DebugIInv /\ StatsIInv
  /\ WebIInv /\ SettingsIInv /\ CommandIInv

LEMMA ServicesInitInv == ServicesInit => ServicesIInv
  BY RegistryInitInv, RuntimeInitInv, StoreInitInv, SnapshotInitInv, DebugInitInv, StatsInitInv,
     WebInitInv, SettingsInitInv, CommandInitInv
  DEF ServicesInit, ServicesIInv

\* What a part leaves alone keeps its invariant.
LEMMA HandlersStutter ==
  ASSUME ServicesIInv, UNCHANGED handlerVars
  PROVE  RegistryIInv' /\ RuntimeIInv' /\ StoreIInv' /\ SnapshotIInv'
  BY RegistryStutter, RuntimeStutter, StoreStutter, SnapshotStutter DEF ServicesIInv, handlerVars

LEMMA WatchersStutter ==
  ASSUME ServicesIInv, UNCHANGED watchVars
  PROVE  DebugIInv' /\ StatsIInv'
  BY DebugStutter, StatsStutter DEF ServicesIInv, watchVars

LEMMA ClientsStutter ==
  ASSUME ServicesIInv, UNCHANGED clientVars
  PROVE  WebIInv' /\ SettingsIInv' /\ CommandIInv'
  BY WebStutter, SettingsStutter, CommandStutter DEF ServicesIInv, clientVars

LEMMA ServicesStepInv == ServicesIInv /\ [ServicesNext]_vars => ServicesIInv'
<1> SUFFICES ASSUME ServicesIInv, [ServicesNext]_vars PROVE ServicesIInv'
  OBVIOUS
<1>1. CASE RegistryStep
  BY <1>1, RegistryStepInv, RuntimeStutter, StoreStutter, SnapshotStutter, WatchersStutter, ClientsStutter
  DEF RegistryStep, ServicesIInv
<1>2. CASE RuntimeStep
  BY <1>2, RuntimeStepInv, RegistryStutter, StoreStutter, SnapshotStutter, WatchersStutter, ClientsStutter
  DEF RuntimeStep, ServicesIInv
<1>3. CASE StoreStep
  BY <1>3, StoreStepInv, RegistryStutter, RuntimeStutter, SnapshotStutter, WatchersStutter, ClientsStutter
  DEF StoreStep, ServicesIInv
<1>4. CASE SnapshotStep
  BY <1>4, SnapshotStepInv, RegistryStutter, RuntimeStutter, StoreStutter, WatchersStutter, ClientsStutter
  DEF SnapshotStep, ServicesIInv
<1>5. CASE DebugStep
  <2>1. DebugNext
    BY <1>5 DEF DebugStep, DebugNext
  <2> QED BY <1>5, <2>1, DebugStepInv, StatsStutter, HandlersStutter, ClientsStutter
      DEF DebugStep, ServicesIInv
<1>6. CASE StatsStep
  BY <1>6, StatsStepInv, DebugStutter, HandlersStutter, ClientsStutter
  DEF StatsStep, ServicesIInv
<1>7. CASE WebStep
  BY <1>7, WebStepInv, SettingsStutter, CommandStutter, HandlersStutter, WatchersStutter
  DEF WebStep, ServicesIInv
<1>8. CASE SettingsStep
  BY <1>8, SettingsStepInv, WebStutter, CommandStutter, HandlersStutter, WatchersStutter
  DEF SettingsStep, ServicesIInv
<1>9. CASE CommandStep
  BY <1>9, CommandStepInv, WebStutter, SettingsStutter, HandlersStutter, WatchersStutter
  DEF CommandStep, ServicesIInv
<1>10. CASE UNCHANGED vars
  BY <1>10, HandlersStutter, WatchersStutter, ClientsStutter DEF vars, ServicesIInv
<1> QED BY <1>1, <1>2, <1>3, <1>4, <1>5, <1>6, <1>7, <1>8, <1>9, <1>10 DEF ServicesNext

LEMMA ServicesInvariant == ServicesSpec => []ServicesIInv
  BY ServicesInitInv, ServicesStepInv, PTL DEF ServicesSpec

\* The types of every part, the bounds of the rings of the collectors and of the
\* counters, and where each goroutine and request can be.
THEOREM ServicesTypeCorrectness == ServicesSpec => []ServicesTypeOK
<1>1. ServicesIInv => ServicesTypeOK
  BY DEF ServicesIInv, ServicesTypeOK, RegistryIInv, RuntimeIInv, StoreIInv, SnapshotIInv,
     DebugIInv, StatsIInv, WebIInv, SettingsIInv, CommandIInv
<1> QED BY <1>1, ServicesInvariant, PTL

\* Register, Deregister and publishEvent: the events tell what the registry has, for
\* any services, nodes and namespaces, however long the calls run side by side.
THEOREM EventsTheorem == ServicesSpec => []EventsTellTheRegistry
<1>1. ServicesIInv => EventsTellTheRegistry
  BY RegistryIInvTells DEF ServicesIInv
<1> QED BY <1>1, ServicesInvariant, PTL

\* Watch, Read and Logs: watchers and readers see what is theirs, for any callers,
\* names and versions, and nothing is told that was not done.
THEOREM CallersTheorem == ServicesSpec => []CallersSeeTheirOwn
<1>1. ServicesIInv => CallersSeeTheirOwn
  BY ReadsOwn DEF ServicesIInv, CallersSeeTheirOwn, RegistryIInv, RuntimeIInv
<1> QED BY <1>1, ServicesInvariant, PTL

\* get and New: a table that has records is listed with its database, for any callers,
\* errors, restarts and calls that overlap, whatever they name.
THEOREM TablesTheorem == ServicesSpec => []TablesListed
<1>1. ServicesIInv => TablesListed
  BY DEF ServicesIInv, StoreIInv
<1> QED BY <1>1, ServicesInvariant, PTL

\* SnapshotRuns and restore: a snapshot made is complete and restored as it was saved,
\* for any number of records and of failures.
THEOREM SnapshotsTheorem == ServicesSpec => []SnapshotsFaithful
<1>1. ServicesIInv => SnapshotsFaithful
  BY SnapshotIInvFaithful DEF ServicesIInv, SnapshotsFaithful
<1> QED BY <1>1, ServicesInvariant, PTL

\* Trace.scrape, for rings of any length and any number of nodes: a span is kept once.
THEOREM SpansTheorem == ServicesSpec => []SpansKeptOnce
<1>1. ServicesIInv => SpansKeptOnce
  BY DEF ServicesIInv, DebugIInv
<1> QED BY <1>1, ServicesInvariant, PTL

\* scan, for any services and any changes of the registry in its course: what it was
\* told of and found is in the cache, but for keys that are the same.
THEOREM CacheTheorem == ServicesSpec => []CacheComplete
<1>1. ServicesIInv => CacheComplete
  BY CacheHasAll DEF ServicesIInv
<1> QED BY <1>1, ServicesInvariant, PTL

\* ServeHTTP and run count every response, however many there are and windows have
\* passed, and Trace.Read answers all the spans of the traces that are asked for, of
\* any number of traces and spans, in any order.
THEOREM ReadsTheorem == ServicesSpec => []ReadsTellAll
<1>1. ServicesIInv => ReadsTellAll
  BY ReadsComplete DEF ServicesIInv, ReadsTellAll, DebugIInv, StatsIInv
<1> QED BY <1>1, ServicesInvariant, PTL

\* The wrapper and the proxy: a request goes where it was verified to go, whatever
\* comes and goes in the registry, for any hosts and paths.
THEOREM GatewayTheorem == ServicesSpec => []GatewayFaithful
<1>1. ServicesIInv => GatewayFaithful
  BY LinksLead DEF ServicesIInv, GatewayFaithful, WebIInv
<1> QED BY <1>1, ServicesInvariant, PTL

\* The commands: settings are kept, the environment selected exists, and the exit code
\* tells the outcome, for any number of processes, nodes and keys.
THEOREM CommandsTheorem == ServicesSpec => []CommandsFaithful
<1>1. ServicesIInv => CommandsFaithful
  BY DEF ServicesIInv, CommandsFaithful, SettingsIInv, CommandIInv
<1> QED BY <1>1, ServicesInvariant, PTL
=============================================================================
