-------------------------- MODULE ConfigValues_proofs --------------------------
(***************************************************************************)
(* For any number of calls, paths and failures: the last event holds the   *)
(* record unless events were lost or have crossed, and every call sets the *)
(* paths it names and leaves the others as it has found them.              *)
(***************************************************************************)
EXTENDS ConfigValues, TLAPS

LEMMA ChangedType ==
  ASSUME TypeOK, NEW c \in Calls
  PROVE  Changed(c) \in Documents
  BY DEF TypeOK, Changed, Documents

LEMMA ContentType ==
  ASSUME TypeOK
  PROVE  Content \in Documents
  BY DEF TypeOK, Content, Documents, Empty

LEMMA InitType == Init => TypeOK
<1> SUFFICES ASSUME Init
             PROVE  TypeOK
  OBVIOUS
<1>1. missed \in BOOLEAN /\ crossed \in BOOLEAN
  BY DEF Init
<1>2. topic \in Seq(Documents)
  BY DEF Init
<1>3. base \in [Calls -> Documents]
  BY DEF Init, Empty, Documents
<1> QED
  BY <1>1, <1>2, <1>3, ValuesAssumption DEF Init, TypeOK

LEMMA StepType ==
  ASSUME TypeOK, [Next]_vars
  PROVE  TypeOK'
<1> USE DEF TypeOK
<1>1. ASSUME NEW c \in Calls, NEW r \in Requests, Arrive(c, r)
      PROVE  TypeOK'
  BY <1>1 DEF Arrive, Requests
<1>2. ASSUME NEW c \in Calls, Read(c)
      PROVE  TypeOK'
  BY <1>2, ContentType DEF Read
<1>3. ASSUME NEW c \in Calls, Write(c)
      PROVE  TypeOK'
  <2>1. record' \in Documents
    BY <1>3, ChangedType DEF Write
  <2>2. crossed' \in BOOLEAN
    BY <1>3 DEF Write
  <2> QED
    BY <1>3, <2>1, <2>2 DEF Write
<1>4. ASSUME NEW c \in Calls, Publish(c)
      PROVE  TypeOK'
  <2>1. topic' \in Seq(Documents)
    BY <1>4, ChangedType DEF Publish
  <2> QED
    BY <1>4, <2>1 DEF Publish
<1>5. ASSUME NEW c \in Calls, Remove(c)
      PROVE  TypeOK'
  BY <1>5 DEF Remove
<1>6. ASSUME NEW c \in Calls, Return(c)
      PROVE  TypeOK'
  BY <1>6 DEF Return
<1>7. ASSUME NEW c \in Calls, Fails(c)
      PROVE  TypeOK'
  BY <1>7 DEF Fails
<1>8. ASSUME NEW c \in Calls, Dies(c)
      PROVE  TypeOK'
  BY <1>8 DEF Dies
<1>9. CASE UNCHANGED vars
  BY <1>9 DEF vars
<1> QED
  BY <1>1, <1>2, <1>3, <1>4, <1>5, <1>6, <1>7, <1>8, <1>9 DEF Next

\* The variables keep their types, and an answer comes with the end of the call
\* (handler.go).
THEOREM TypeCorrectness == Spec => []TypeOK
  BY InitType, StepType, PTL DEF Spec

-----------------------------------------------------------------------------
(***************************************************************************)
(* When the events of changes do not cross, the call that is to publish    *)
(* its own is alone, and is the last to have written the record.           *)
(***************************************************************************)
PublisherInv ==
  ~crossed =>
    /\ \A c, d \in Calls : pc[c] = "publish" /\ pc[d] = "publish" => c = d
    /\ \A c \in Calls : pc[c] = "publish" /\ record # None => record = Changed(c)

EventInv == TypeOK /\ PublisherInv /\ LastEventIsRecord

\* A step that writes nothing, publishes nothing and takes no call to its
\* publication.
LEMMA QuietStep ==
  ASSUME EventInv, TypeOK', UNCHANGED <<topic, missed, crossed>>,
         record' \in {record, None},
         \A c \in Calls : pc'[c] = "publish" =>
           pc[c] = "publish" /\ req'[c] = req[c] /\ base'[c] = base[c]
  PROVE  EventInv'
<1>1. ASSUME NEW c \in Calls, pc'[c] = "publish"
      PROVE  pc[c] = "publish" /\ Changed(c)' = Changed(c)
  BY <1>1 DEF Changed
<1>2. PublisherInv'
  BY <1>1 DEF EventInv, PublisherInv
<1>3. LastEventIsRecord'
  BY DEF EventInv, LastEventIsRecord
<1> QED
  BY <1>2, <1>3 DEF EventInv

LEMMA StepEventInv == EventInv /\ [Next]_vars => EventInv'
<1> SUFFICES ASSUME EventInv, [Next]_vars
             PROVE  EventInv'
  OBVIOUS
<1>1. TypeOK /\ TypeOK'
  BY StepType DEF EventInv
<1>2. ASSUME NEW c \in Calls, Write(c)
      PROVE  EventInv'
  <2>1. /\ record' = Changed(c) /\ Changed(c)' = Changed(c)
        /\ missed' /\ crossed' = (\E d \in Calls \ {c} : pc[d] = "publish")
    BY <1>2 DEF Write, Changed
  <2>2. \A d \in Calls : pc'[d] = "publish" => d = c \/ pc[d] = "publish"
    BY <1>1, <1>2 DEF Write, TypeOK
  <2>3. PublisherInv'
    <3> SUFFICES ASSUME ~crossed', NEW d \in Calls, pc'[d] = "publish"
                 PROVE  d = c
      BY <2>1 DEF PublisherInv
    <3> QED
      BY <2>1, <2>2
  <2> QED
    BY <1>1, <2>1, <2>3 DEF EventInv, LastEventIsRecord
<1>3. ASSUME NEW c \in Calls, Publish(c)
      PROVE  EventInv'
  <2>1. /\ UNCHANGED <<record, req, base, crossed>>
        /\ pc[c] = "publish"
        /\ topic' = Append(topic, Changed(c))
    BY <1>3 DEF Publish
  <2>2. topic' # <<>> /\ topic'[Len(topic')] = Changed(c)
    BY <1>1, <2>1, ChangedType, SMTT(30) DEF TypeOK
  <2>3. LastEventIsRecord'
    BY <2>1, <2>2 DEF LastEventIsRecord, EventInv, PublisherInv
  <2>4. \A d \in Calls : pc'[d] = "publish" => pc[d] = "publish"
    BY <1>1, <1>3 DEF Publish, TypeOK
  <2>5. \A d \in Calls : Changed(d)' = Changed(d)
    BY <2>1 DEF Changed
  <2>6. PublisherInv'
    BY <2>1, <2>4, <2>5 DEF EventInv, PublisherInv
  <2> QED
    BY <1>1, <2>3, <2>6 DEF EventInv
<1>4. ASSUME NEW c \in Calls, NEW r \in Requests, Arrive(c, r)
      PROVE  EventInv'
  BY <1>1, <1>4, QuietStep DEF Arrive, TypeOK, Requests
<1>5. ASSUME NEW c \in Calls, Read(c)
      PROVE  EventInv'
  BY <1>1, <1>5, QuietStep DEF Read, TypeOK
<1>6. ASSUME NEW c \in Calls, Remove(c) \/ Return(c)
      PROVE  EventInv'
  BY <1>1, <1>6, QuietStep DEF Remove, Return, TypeOK
<1>7. ASSUME NEW c \in Calls, Fails(c) \/ Dies(c)
      PROVE  EventInv'
  BY <1>1, <1>7, QuietStep DEF Fails, Dies, TypeOK
<1>8. CASE UNCHANGED vars
  BY <1>1, <1>8, QuietStep DEF vars
<1> QED
  BY <1>2, <1>3, <1>4, <1>5, <1>6, <1>7, <1>8 DEF Next

\* Whatever overlaps, fails or dies, the event published last holds the record as
\* it is, unless a change has not been published or the events of two changes
\* were on their way at a time (publish in handler.go).
THEOREM LastEventTheorem == Spec => []LastEventIsRecord
<1>1. Init => EventInv
  BY InitType DEF Init, EventInv, PublisherInv, LastEventIsRecord
<1>2. EventInv => LastEventIsRecord
  BY DEF EventInv
<1> QED
  BY <1>1, <1>2, StepEventInv, PTL DEF Spec

-----------------------------------------------------------------------------
\* What a step of call c does to the status of the calls.
LEMMA StatusStep ==
  ASSUME TypeOK, NEW c \in Calls,
         \A d \in Calls \ {c} :
           pc'[d] = pc[d] /\ reply'[d] = reply[d] /\ req'[d] = req[d]
  PROVE  Status' = [Status EXCEPT ![c] = StatusOf(c)']
<1>1. ASSUME NEW d \in Calls \ {c}
      PROVE  StatusOf(d)' = StatusOf(d)
  BY <1>1 DEF StatusOf
<1>2. Status' = [d \in Calls |-> StatusOf(d)']
  BY DEF Status
<1>3. [Status EXCEPT ![c] = StatusOf(c)']
        = [d \in Calls |-> IF d = c THEN StatusOf(c)' ELSE StatusOf(d)]
  BY DEF Status
<1> QED
  BY <1>1, <1>2, <1>3

\* A step that leaves the status of call c as it was changes none.
LEMMA StatusKept ==
  ASSUME NEW c \in Calls,
         Status' = [Status EXCEPT ![c] = StatusOf(c)'],
         StatusOf(c)' = Status[c]
  PROVE  Status' = Status
<1> DEFINE f == Status
<1>1. f = [d \in Calls |-> f[d]]
  BY DEF Status
<1> HIDE DEF f
<1>2. [f EXCEPT ![c] = f[c]] = f
  BY <1>1
<1> QED
  BY <1>2 DEF f

LEMMA RequestsAgree == Requests = Map!Requests /\ Empty = Map!Empty
  BY DEF Requests, Map!Requests, Empty, Map!Empty

\* Every step is one of ConfigMap, or none: a call finds the configuration when it
\* reads the record, and takes effect when it writes it or finds that there is none
\* to delete from.
LEMMA StepMap ==
  ASSUME TypeOK, TypeOK', [Next]_vars
  PROVE  [Map!Next]_(Map!vars)
<1> USE DEF TypeOK
<1>1. ASSUME NEW c \in Calls, NEW r \in Requests, Arrive(c, r)
      PROVE  Map!Call(c)
  <2>1. Status' = [Status EXCEPT ![c] = StatusOf(c)']
    BY <1>1, StatusStep DEF Arrive
  <2>2. Status[c] = "idle" /\ StatusOf(c)' = "called"
    BY <1>1 DEF Arrive, Status, StatusOf, Requests
  <2>3. Content' = Content
    BY <1>1 DEF Arrive, Content
  <2> QED
    BY <1>1, <2>1, <2>2, <2>3, RequestsAgree DEF Arrive, Map!Call
<1>2. ASSUME NEW c \in Calls, Read(c)
      PROVE  Map!Look(c) \/ Map!Apply(c)
  <2>1. Status' = [Status EXCEPT ![c] = StatusOf(c)']
    BY <1>2, StatusStep DEF Read
  <2>2. Status[c] = "called" /\ Content' = Content /\ req' = req
    BY <1>2 DEF Read, Status, StatusOf, Content
  <2>3. CASE record = None /\ req[c].op = "delete"
    <3>1. StatusOf(c)' = "applied"
      BY <1>2, <2>3 DEF Read, StatusOf
    <3>2. Content = Empty
      BY <2>3 DEF Content
    <3>3. Map!Effect(Content, c, req[c]) = Content
      BY <2>3, <3>2 DEF Map!Effect, Empty
    <3>4. base' = base
      BY <1>2, <2>3 DEF Read
    <3> QED
      BY <2>1, <2>2, <3>1, <3>3, <3>4 DEF Map!Apply
  <2>4. CASE ~(record = None /\ req[c].op = "delete")
    <3>1. StatusOf(c)' = "looked"
      BY <1>2, <2>4 DEF Read, StatusOf
    <3>2. base' = [base EXCEPT ![c] = Content]
      BY <1>2, <2>4 DEF Read
    <3> QED
      BY <2>1, <2>2, <3>1, <3>2 DEF Map!Look
  <2> QED
    BY <2>3, <2>4
<1>3. ASSUME NEW c \in Calls, Write(c)
      PROVE  Map!Apply(c)
  <2>1. Status' = [Status EXCEPT ![c] = StatusOf(c)']
    BY <1>3, StatusStep DEF Write
  <2>2. StatusOf(c)' = "applied" /\ req' = req /\ base' = base
    BY <1>3 DEF Write, StatusOf
  <2>3. req[c] \in Requests /\ req[c].op \in {"create", "update", "delete"}
    BY <1>3 DEF Write, Requests
  <2>4. Changed(c) # None
    BY ChangedType, ValuesAssumption DEF Documents
  <2>5. Content' = Changed(c)
    BY <1>3, <2>4 DEF Write, Content
  <2>6. CASE req[c].op = "create"
    <3>1. Status[c] = "called"
      BY <1>3, <2>6 DEF Write, Status, StatusOf
    <3>2. Changed(c) = Map!Effect(Content, c, req[c])
      BY <2>6 DEF Changed, Map!Effect
    <3> QED
      BY <2>1, <2>2, <2>5, <3>1, <3>2 DEF Map!Apply
  <2>7. CASE req[c].op # "create"
    <3>1. Status[c] = "looked"
      BY <1>3, <2>7 DEF Write, Status, StatusOf
    <3>2. Changed(c) = Map!Effect(base[c], c, req[c])
      BY <2>3, <2>7 DEF Changed, Map!Effect
    <3> QED
      BY <2>1, <2>2, <2>5, <3>1, <3>2 DEF Map!Apply
  <2> QED
    BY <2>6, <2>7
<1>4. ASSUME NEW c \in Calls, Publish(c)
      PROVE  UNCHANGED Map!vars
  <2>1. Status' = [Status EXCEPT ![c] = StatusOf(c)']
    BY <1>4, StatusStep DEF Publish
  <2>2. Status[c] = "applied" /\ StatusOf(c)' = "applied"
    BY <1>4 DEF Publish, Status, StatusOf
  <2>3. Status' = Status
    BY ONLY c \in Calls, <2>1, <2>2, StatusKept
  <2> QED
    BY <1>4, <2>3 DEF Publish, Content, Map!vars
<1>5. ASSUME NEW c \in Calls, Remove(c)
      PROVE  Map!Apply(c)
  <2>1. Status' = [Status EXCEPT ![c] = StatusOf(c)']
    BY <1>5, StatusStep DEF Remove
  <2>2. Status[c] = "called" /\ StatusOf(c)' = "applied"
    BY <1>5 DEF Remove, Status, StatusOf
  <2>3. req[c].op = "remove" /\ req[c].paths = Paths
    BY <1>5 DEF Remove, Requests
  <2>4. Map!Effect(Content, c, req[c]) = Empty
    BY <2>3 DEF Map!Effect, Empty
  <2>5. Content' = Empty
    BY <1>5 DEF Remove, Content, Empty
  <2> QED
    BY <1>5, <2>1, <2>2, <2>4, <2>5 DEF Remove, Map!Apply
<1>6. ASSUME NEW c \in Calls, Return(c)
      PROVE  Map!Answer(c)
  <2>1. Status' = [Status EXCEPT ![c] = StatusOf(c)']
    BY <1>6, StatusStep DEF Return
  <2>2. Status[c] = "applied" /\ StatusOf(c)' = "ok"
    BY <1>6 DEF Return, Status, StatusOf
  <2> QED
    BY <1>6, <2>1, <2>2 DEF Return, Content, Map!Answer
<1>7. ASSUME NEW c \in Calls, Fails(c)
      PROVE  Map!Answer(c) \/ UNCHANGED Map!vars
  <2>1. Status' = [Status EXCEPT ![c] = StatusOf(c)'] /\ Content' = Content /\ req' = req
    BY <1>7, StatusStep DEF Fails, Content
  <2>2. CASE pc[c] \in {"read", "write", "remove"}
    <3>1. Status[c] \in {"called", "looked"} /\ StatusOf(c)' = "error"
      BY <1>7, <2>2 DEF Fails, Status, StatusOf
    <3> QED
      BY <1>7, <2>1, <3>1 DEF Fails, Map!Answer
  <2>3. CASE pc[c] = "publish"
    <3>1. Status[c] = "applied" /\ StatusOf(c)' = "applied"
      BY <1>7, <2>3 DEF Fails, Status, StatusOf
    <3>2. Status' = Status
      BY ONLY c \in Calls, <2>1, <3>1, StatusKept
    <3> QED
      BY <1>7, <2>1, <3>2 DEF Fails, Map!vars
  <2> QED
    BY <1>7, <2>2, <2>3 DEF Fails
<1>8. ASSUME NEW c \in Calls, Dies(c)
      PROVE  Map!Answer(c)
  <2>1. Status' = [Status EXCEPT ![c] = StatusOf(c)'] /\ Content' = Content /\ req' = req
    BY <1>8, StatusStep DEF Dies, Content
  <2>2. Status[c] \in {"called", "looked", "applied"} /\ StatusOf(c)' = "dead"
    BY <1>8 DEF Dies, Status, StatusOf
  <2> QED
    BY <1>8, <2>1, <2>2 DEF Dies, Map!Answer
<1>9. CASE UNCHANGED vars
  BY <1>9 DEF vars, Map!vars, Content, Status, StatusOf
<1> QED
  BY <1>1, <1>2, <1>3, <1>4, <1>5, <1>6, <1>7, <1>8, <1>9 DEF Next, Map!Next

\* Whatever overlaps, fails or dies, a call sets the paths it names and leaves the
\* others as it has found them at one moment since its request, and changes nothing
\* if it is answered with an error (Create, Update, Delete in handler.go).
THEOREM Implementation == Spec => ImplementsMap
<1>1. Init => Map!Init
  <2> SUFFICES ASSUME Init
               PROVE  Map!Init
    OBVIOUS
  <2>1. \A c \in Calls : StatusOf(c) = "idle"
    BY DEF Init, StatusOf
  <2>2. Content = Empty
    BY DEF Init, Content
  <2> QED
    BY <2>1, <2>2, RequestsAgree DEF Init, Map!Init, Status
<1>2. TypeOK /\ [Next]_vars => TypeOK'
  BY StepType
<1>3. TypeOK /\ TypeOK' /\ [Next]_vars => [Map!Next]_(Map!vars)
  BY StepMap
<1> QED
  BY <1>1, <1>2, <1>3, InitType, PTL DEF Spec, ImplementsMap, Map!Spec
=============================================================================
