----------------------------- MODULE RelayProofs -----------------------------
(***************************************************************************)
(* Proofs about RelaySystem for every number of jobs, connections, faults   *)
(* and restarts and every limit: the variables keep their types, a fresh    *)
(* job is executed at most once, and the system implements DeliveryPromise. *)
(***************************************************************************)
EXTENDS RelaySystem, TLAPS

-----------------------------------------------------------------------------
(* The reducer. *)

\* What one fact does to a phase, spelled out.
LEMMA NextPhaseType ==
  ASSUME NEW phase \in RelayDeliveryPhase, NEW type \in RelayDeliveryEventType
  PROVE  /\ NextPhase(phase, type) \in RelayDeliveryPhase
         /\ NextPhase(phase, type) = "terminal-result" =>
              type = "result" \/ phase = "terminal-result"
         /\ type = "result" => NextPhase(phase, type) = "terminal-result"
BY DEF RelayDeliveryPhase, RelayDeliveryEventType, NextPhase, Unsent, InTransit

\* The reducer returns a state, with a digest exactly when it is a terminal result.
LEMMA ApplyType ==
  ASSUME NEW state \in RelayDeliveryState, NEW type \in RelayDeliveryEventType,
         NEW digest \in Nat, type = "result" => digest # NoDigest
  PROVE  ApplyRelayDeliveryEvent(state, type, digest) \in RelayDeliveryState
<1>1. /\ state.phase \in RelayDeliveryPhase
      /\ NoDigest \in Nat
  BY DEF RelayDeliveryState, NoDigest
<1>2. CASE Applies(state, type)
  <2>1. /\ NextPhase(state.phase, type) \in RelayDeliveryPhase
        /\ NextPhase(state.phase, type) = "terminal-result" => digest # NoDigest
    BY <1>1, <1>2, NextPhaseType DEF Applies, IsTerminal
  <2>2. QED
    BY <1>1, <1>2, <2>1 DEF ApplyRelayDeliveryEvent, CreateState, RelayDeliveryState
<1>3. QED
  BY <1>2 DEF ApplyRelayDeliveryEvent

\* A new delivery state is typed.
LEMMA CreatedType == CreateRelayDeliveryState \in RelayDeliveryState
BY DEF CreateRelayDeliveryState, CreateState, RelayDeliveryState, RelayDeliveryPhase, NoDigest

-----------------------------------------------------------------------------
(* The Relay's helpers keep the types. *)

\* The absent record is typed.
LEMMA NoRecordType == NoRecord \in StoredJobRecord
BY CreatedType DEF NoRecord, StoredJobRecord, Times

\* A record after an event is typed.
LEMMA WithEventType ==
  ASSUME NEW r \in StoredJobRecord, NEW type \in RelayDeliveryEventType, type # "result"
  PROVE  WithEvent(r, type) \in StoredJobRecord
<1>1. ApplyRelayDeliveryEvent(r.state, type, NoDigest) \in RelayDeliveryState
  BY ApplyType DEF StoredJobRecord, NoDigest
<1>2. QED
  BY <1>1 DEF WithEvent, StoredJobRecord

\* Reaped records are typed.
LEMMA ReapType ==
  ASSUME NEW rec \in [Jobs -> StoredJobRecord], NEW now
  PROVE  Reap(rec, now) \in [Jobs -> StoredJobRecord]
<1>1. ASSUME NEW j \in Jobs PROVE Reap(rec, now)[j] \in StoredJobRecord
  BY NoRecordType, WithEventType DEF Reap, RelayDeliveryEventType
<1>2. QED
  BY <1>1 DEF Reap

\* Records after a disconnect are typed.
LEMMA DisconnectJobsType ==
  ASSUME record \in [Jobs -> StoredJobRecord], NEW js
  PROVE  DisconnectJobs(js) \in [Jobs -> StoredJobRecord]
<1>1. ASSUME NEW j \in Jobs PROVE DisconnectJobs(js)[j] \in StoredJobRecord
  BY WithEventType DEF DisconnectJobs, RelayDeliveryEventType
<1>2. QED
  BY <1>1 DEF DisconnectJobs

\* The times an alarm may have after reaping are typed.
LEMMA AlarmTypes ==
  ASSUME NEW rec \in [Jobs -> StoredJobRecord], NEW now, NEW a \in Times
  PROVE  AlarmAfterReap(rec, now, a) \subseteq Times
BY DEF AlarmAfterReap, StoredJobRecord

\* The times an alarm may have after saves are typed.
LEMMA AlarmAfterSavesType ==
  ASSUME record \in [Jobs -> StoredJobRecord], NEW js \in SUBSET Jobs, NEW a \in Times
  PROVE  AlarmAfterSaves(js, a) \subseteq Times
BY DEF AlarmAfterSaves, StoredJobRecord

\* The earliest of typed times is one of them.
LEMMA EarliestType ==
  ASSUME NEW a \in Times, NEW due \in SUBSET Times
  PROVE  Earliest(a, due) \subseteq Times
BY DEF Earliest

\* The times an alarm is set for are typed.
LEMMA DueTimesType ==
  ASSUME NEW rec \in [Jobs -> StoredJobRecord], NEW cn \in [Conns -> Conn],
         NEW used \in SUBSET Times
  PROVE  DueTimes(rec, cn, used) \in SUBSET Times
<1> DEFINE sockets == {cn[c].expiresAt : c \in {d \in Conns : cn[d].relay \in {"open", "closing"}}}
           records == UNION {{rec[j].retainedUntil, rec[j].deadlineAt} :
                               j \in {i \in Jobs : rec[i].kept}}
<1>1. sockets \subseteq Times
  BY DEF Conn
<1>2. \A j \in Jobs : {rec[j].retainedUntil, rec[j].deadlineAt} \subseteq Times
  BY DEF StoredJobRecord
<1>3. records \subseteq Times
  BY <1>2
<1>4. DueTimes(rec, cn, used) = sockets \cup records \cup used
  BY DEF DueTimes
<1> HIDE DEF sockets, records
<1>5. QED
  BY <1>1, <1>3, <1>4

\* The record of an admitted job is typed.
LEMMA NewRecordType ==
  ASSUME clock \in Times, NEW type \in RelayDeliveryEventType, type # "result", NEW g \in Nat
  PROVE  NewRecord(type, g) \in StoredJobRecord
<1>1. ApplyRelayDeliveryEvent(CreateRelayDeliveryState, type, NoDigest) \in RelayDeliveryState
  BY CreatedType, ApplyType DEF NoDigest
<1>2. clock + Deadline \in Times /\ clock + Deadline + JobRetention \in Times
  BY LimitsAssumption DEF Times
<1>3. QED
  BY <1>1, <1>2 DEF NewRecord, StoredJobRecord

\* An answer changes what is told to one source, and closes a pending one.
LEMMA SendType ==
  ASSUME told \in [Jobs -> SUBSET Answer],
         NEW src \in [Jobs -> {"none", "pending", "client", "closed"}],
         NEW j \in Jobs, NEW answer \in Answer,
         Send(src, j, answer)
  PROVE  /\ told' \in [Jobs -> SUBSET Answer]
         /\ source' \in [Jobs -> {"none", "pending", "client", "closed"}]
         /\ \A i \in Jobs : source'[i] = "none" => src[i] = "none"
<1>1. told' \in [Jobs -> SUBSET Answer]
  BY DEF Send
<1>2. source' \in [Jobs -> {"none", "pending", "client", "closed"}]
  BY DEF Send
<1>3. \A i \in Jobs : source'[i] = "none" => src[i] = "none"
  BY DEF Send
<1>4. QED
  BY <1>1, <1>2, <1>3

\* Frames on their way are typed.
LEMMA FramesType ==
  ASSUME toRuntime \in [Conns -> ToRuntime], NEW c \in Conns, NEW f \in ToRuntime
  PROVE  Frames(c, f) \in [Conns -> ToRuntime]
BY DEF Frames

\* Connections closed by the Relay are typed.
LEMMA ClosedByRelayType ==
  ASSUME NEW cn \in [Conns -> Conn], NEW cs
  PROVE  ClosedByRelay(cn, cs) \in [Conns -> Conn]
<1>1. ASSUME NEW c \in Conns PROVE ClosedByRelay(cn, cs)[c] \in Conn
  <2>1. cn[c] \in Conn
    OBVIOUS
  <2>2. [cn[c] EXCEPT !.relay = "closing"] \in Conn
    BY <2>1 DEF Conn
  <2>3. QED
    BY <2>1, <2>2 DEF ClosedByRelay
<1>2. QED
  BY <1>1 DEF ClosedByRelay

\* A socket without an attachment is typed.
LEMMA UnattachedType ==
  ASSUME NEW relay \in {"none", "requested", "open", "closing", "gone"}
  PROVE  Unattached(relay) \in Conn
BY DEF Unattached, Conn, Times

-----------------------------------------------------------------------------
(* The Relay's handlers keep the types. *)

\* receiveJob, whatever the source is.
LEMMA AnswerUnavailableType ==
  ASSUME RelayTypeOK, NEW rec \in [Jobs -> StoredJobRecord], NEW j \in Jobs,
         NEW src \in [Jobs -> {"none", "pending", "client", "closed"}], NEW g \in Nat,
         AnswerUnavailable(rec, j, src, g)
  PROVE  /\ record' \in [Jobs -> StoredJobRecord] /\ alarm' \in Times
         /\ toRuntime' = toRuntime /\ handed' = handed /\ faults' \in Nat
         /\ Send(src, j, "unavailable")
<1>1. NewRecord("disconnect", g) \in StoredJobRecord
  BY NewRecordType DEF RelayTypeOK, RelayDeliveryEventType
<1>2. CASE StorageWorks /\ SaveRecord(rec, j, NewRecord("disconnect", g))
  <2>1. record' \in [Jobs -> StoredJobRecord] /\ alarm' \in Times
    BY <1>1, <1>2 DEF SaveRecord, StoredJobRecord
  <2>2. QED
    BY <1>2, <2>1 DEF StorageWorks, RelayTypeOK, AnswerUnavailable
<1>3. CASE StorageFails /\ record' = rec /\ alarm' \in AlarmAfterReap(record, clock, alarm)
  <2>1. alarm' \in Times
    BY <1>3, AlarmTypes DEF RelayTypeOK
  <2>2. QED
    BY <1>3, <2>1 DEF StorageFails, RelayTypeOK, AnswerUnavailable
<1>4. QED
  BY <1>2, <1>3 DEF AnswerUnavailable

\* Handing a job over keeps the types.
LEMMA HandOverType ==
  ASSUME RelayTypeOK, NEW rec \in [Jobs -> StoredJobRecord], NEW j \in Jobs,
         NEW src \in [Jobs -> {"none", "pending", "client", "closed"}], NEW c \in Conns,
         HandOver(rec, j, src, c)
  PROVE  /\ record' \in [Jobs -> StoredJobRecord] /\ alarm' \in Times
         /\ toRuntime' = Frames(c, [toRuntime[c] EXCEPT !.jobs = @ \cup {j}])
         /\ handed' = handed \cup {j} /\ faults' \in Nat
         /\ NoAnswer(src) \/ Send(src, j, "delivered-ambiguous")
<1> DEFINE delivered == NewRecord("deliver", conn[c].generation)
<1>1. delivered \in StoredJobRecord
  BY NewRecordType DEF RelayTypeOK, RelayDeliveryEventType, Conn
<1>2. WithEvent(delivered, "disconnect") \in StoredJobRecord
  BY <1>1, WithEventType DEF RelayDeliveryEventType
<1>3. /\ toRuntime' = Frames(c, [toRuntime[c] EXCEPT !.jobs = @ \cup {j}])
      /\ handed' = handed \cup {j}
      /\ \/ StorageWorks /\ SaveRecord(rec, j, delivered) /\ NoAnswer(src)
         \/ /\ StorageFails
            /\ SaveRecord(rec, j, WithEvent(delivered, "disconnect"))
            /\ Send(src, j, "delivered-ambiguous")
         \/ /\ faults + 1 < MaxFaults /\ faults' = faults + 2
            /\ record' = rec /\ alarm' \in AlarmAfterReap(record, clock, alarm)
            /\ Send(src, j, "delivered-ambiguous")
  BY DEF HandOver
<1> HIDE DEF delivered
<1>4. ASSUME NEW r \in StoredJobRecord, SaveRecord(rec, j, r)
      PROVE  record' \in [Jobs -> StoredJobRecord] /\ alarm' \in Times
  BY <1>4 DEF SaveRecord, StoredJobRecord
<1>5. CASE StorageWorks /\ SaveRecord(rec, j, delivered) /\ NoAnswer(src)
  BY <1>1, <1>3, <1>4, <1>5 DEF StorageWorks, RelayTypeOK
<1>6. CASE /\ StorageFails
           /\ SaveRecord(rec, j, WithEvent(delivered, "disconnect"))
           /\ Send(src, j, "delivered-ambiguous")
  BY <1>2, <1>3, <1>4, <1>6 DEF StorageFails, RelayTypeOK
<1>7. CASE /\ faults' = faults + 2
           /\ record' = rec /\ alarm' \in AlarmAfterReap(record, clock, alarm)
           /\ Send(src, j, "delivered-ambiguous")
  BY <1>3, <1>7, AlarmTypes DEF RelayTypeOK
<1>8. QED
  BY <1>3, <1>5, <1>6, <1>7

\* A frame with one job more is typed.
LEMMA WithJobType ==
  ASSUME RelayTypeOK, NEW c \in Conns, NEW j \in Jobs
  PROVE  Frames(c, [toRuntime[c] EXCEPT !.jobs = @ \cup {j}]) \in [Conns -> ToRuntime]
<1>1. [toRuntime[c] EXCEPT !.jobs = @ \cup {j}] \in ToRuntime
  BY DEF RelayTypeOK, ToRuntime
<1>2. QED
  BY <1>1, FramesType DEF RelayTypeOK

Sources == {"none", "pending", "client", "closed"}

\* What receiveJob can come to: nothing, an answer, or a hand-over.
Received(j, src) ==
  /\ record' \in [Jobs -> StoredJobRecord] /\ alarm' \in Times
  /\ toRuntime' \in [Conns -> ToRuntime] /\ handed' \subseteq Jobs /\ faults' \in Nat
  /\ told' \in [Jobs -> SUBSET Answer]
  /\ source' \in [Jobs -> Sources]
  /\ \A i \in Jobs : source'[i] = "none" => src[i] = "none"
  /\ \/ /\ toRuntime' = toRuntime /\ handed' = handed
        /\ told' = told \/ told' = [told EXCEPT ![j] = @ \cup {"unavailable"}]
     \/ \E c \in Conns :
          /\ toRuntime' = Frames(c, [toRuntime[c] EXCEPT !.jobs = @ \cup {j}])
          /\ handed' = handed \cup {j}
          /\ told' = told \/ told' = [told EXCEPT ![j] = @ \cup {"delivered-ambiguous"}]

\* receiveJob comes to one of these.
LEMMA ReceiveJobCases ==
  ASSUME RelayTypeOK, NEW j \in Jobs, NEW src \in [Jobs -> Sources], ReceiveJob(j, src)
  PROVE  Received(j, src)
<1> DEFINE rec == Reap(record, clock)
<1>1. rec \in [Jobs -> StoredJobRecord]
  BY ReapType DEF RelayTypeOK
<1>2. ASSUME NEW answer \in Answer, Send(src, j, answer)
      PROVE  /\ told' = told \/ told' = [told EXCEPT ![j] = @ \cup {answer}]
             /\ told' \in [Jobs -> SUBSET Answer]
             /\ source' \in [Jobs -> Sources]
             /\ \A i \in Jobs : source'[i] = "none" => src[i] = "none"
  <2>1. told' = told \/ told' = [told EXCEPT ![j] = @ \cup {answer}]
    BY <1>2 DEF Send
  <2>2. QED
    BY <1>2, <2>1, SendType DEF RelayTypeOK, Sources
<1>3. ASSUME NoAnswer(src)
      PROVE  /\ told' = told
             /\ told' \in [Jobs -> SUBSET Answer]
             /\ source' \in [Jobs -> Sources]
             /\ \A i \in Jobs : source'[i] = "none" => src[i] = "none"
  BY <1>3 DEF NoAnswer, RelayTypeOK
<1>4. {"unavailable", "delivered-ambiguous"} \subseteq Answer
  BY DEF Answer
<1>5. src \in [Jobs -> {"none", "pending", "client", "closed"}]
  BY DEF Sources
<1> HIDE DEF rec
<1>6. CASE /\ NoAnswer(src)
           /\ UNCHANGED <<record, alarm, toRuntime, handed, faults>>
  BY <1>3, <1>6 DEF Received, RelayTypeOK
<1>7. CASE /\ record' = rec /\ alarm' \in AlarmAfterReap(record, clock, alarm)
           /\ Send(src, j, "unavailable")
           /\ UNCHANGED <<toRuntime, handed, faults>>
  <2>1. record' \in [Jobs -> StoredJobRecord] /\ alarm' \in Times
    BY <1>1, <1>7, AlarmTypes DEF RelayTypeOK
  <2>2. QED
    BY <1>2, <1>4, <1>7, <2>1 DEF Received, RelayTypeOK
<1>8. ASSUME NEW g \in Nat, AnswerUnavailable(rec, j, src, g)
      PROVE  Received(j, src)
  <2>1. /\ record' \in [Jobs -> StoredJobRecord] /\ alarm' \in Times
        /\ toRuntime' = toRuntime /\ handed' = handed /\ faults' \in Nat
        /\ Send(src, j, "unavailable")
    BY <1>1, <1>5, <1>8, AnswerUnavailableType
  <2>2. QED
    BY <1>2, <1>4, <2>1 DEF Received, RelayTypeOK
<1>9. ASSUME NEW c \in Conns, HandOver(rec, j, src, c)
      PROVE  Received(j, src)
  <2>1. /\ record' \in [Jobs -> StoredJobRecord] /\ alarm' \in Times
        /\ toRuntime' = Frames(c, [toRuntime[c] EXCEPT !.jobs = @ \cup {j}])
        /\ handed' = handed \cup {j} /\ faults' \in Nat
        /\ NoAnswer(src) \/ Send(src, j, "delivered-ambiguous")
    BY <1>1, <1>5, <1>9, HandOverType
  <2>2. toRuntime' \in [Conns -> ToRuntime] /\ handed' \subseteq Jobs
    BY <2>1, WithJobType DEF RelayTypeOK
  <2>3. CASE NoAnswer(src)
    BY <1>3, <2>1, <2>2, <2>3 DEF Received
  <2>4. CASE Send(src, j, "delivered-ambiguous")
    BY <1>2, <1>4, <2>1, <2>2, <2>4 DEF Received
  <2>5. QED
    BY <2>1, <2>3, <2>4
<1>10. \A c \in Targets(j) : c \in Conns /\ conn[c].generation \in Nat
  BY DEF Targets, RelayTypeOK, Conn
<1>11. QED
  BY <1>6, <1>7, <1>8, <1>9, <1>10 DEF ReceiveJob, rec

\* A dispatch keeps the types.
LEMMA DispatchType ==
  ASSUME RelayTypeOK, NEW j \in Jobs, InternalDispatchRequest(j)
  PROVE  RelayTypeOK' /\ Received(j, [source EXCEPT ![j] = "pending"])
<1>1. [source EXCEPT ![j] = "pending"] \in [Jobs -> Sources]
  BY DEF RelayTypeOK, Sources
<1>2. Received(j, [source EXCEPT ![j] = "pending"])
  BY <1>1, ReceiveJobCases DEF InternalDispatchRequest
<1>3. QED
  BY <1>2 DEF Received, InternalDispatchRequest, RelayTypeOK, Sources

\* The job of a client keeps the types.
LEMMA ClientJobType ==
  ASSUME RelayTypeOK, NEW j \in Jobs, ClientJob(j)
  PROVE  RelayTypeOK' /\ Received(j, [source EXCEPT ![j] = "client"])
<1>1. [source EXCEPT ![j] = "client"] \in [Jobs -> Sources]
  BY DEF RelayTypeOK, Sources
<1>2. Received(j, [source EXCEPT ![j] = "client"])
  BY <1>1, ReceiveJobCases DEF ClientJob
<1>3. QED
  BY <1>2 DEF Received, ClientJob, RelayTypeOK, Sources

\* A connection that is asked for keeps the types.
LEMMA FetchType ==
  ASSUME RelayTypeOK, NEW c \in Conns, Fetch(c)
  PROVE  RelayTypeOK'
<1>1. conn' \in [Conns -> Conn]
  <2>1. clock + ConnectionTTL \in Times
    BY LimitsAssumption DEF RelayTypeOK, Times
  <2>2. Unattached("gone") \in Conn
    BY UnattachedType
  <2>3. [conn[c] EXCEPT !.relay = "open", !.openedAt = clock, !.expiresAt = clock + ConnectionTTL]
          \in Conn
    BY <2>1 DEF RelayTypeOK, Conn
  <2>4. QED
    BY <2>2, <2>3 DEF Fetch, RelayTypeOK
<1>2. toRuntime' \in [Conns -> ToRuntime]
  <2>1. toRuntime[c] \in ToRuntime
    BY DEF RelayTypeOK
  <2>2. [toRuntime[c] EXCEPT !.hello = "challenge"] \in ToRuntime
    BY <2>1 DEF ToRuntime
  <2>3. QED
    BY <2>2, FramesType DEF Fetch, RelayTypeOK
<1>3. alarm' \in Times
  <2>1. DueTimes(record, conn', nonces) \in SUBSET Times
    BY <1>1, DueTimesType DEF RelayTypeOK
  <2>2. Earliest(alarm, DueTimes(record, conn', nonces)) \subseteq Times
    BY <2>1, EarliestType DEF RelayTypeOK
  <2>3. QED
    BY <2>2 DEF Fetch, RelayTypeOK
<1>4. QED
  BY <1>1, <1>2, <1>3 DEF Fetch, RelayTypeOK

\* Admission of the Runtime keeps the types.
LEMMA AdmitType ==
  ASSUME RelayTypeOK, NEW c \in Conns, AdmitRuntime(c)
  PROVE  RelayTypeOK'
<1>1. toRelay' \in [Conns -> [proof : BOOLEAN, results : SUBSET (Jobs \X (Nat \ {NoDigest}))]]
  BY DEF AdmitRuntime, RelayTypeOK
<1>2. ClosedByRelay(conn, {c}) \in [Conns -> Conn]
  BY ClosedByRelayType DEF RelayTypeOK
<1>3. CASE /\ conn' = ClosedByRelay(conn, {c})
           /\ UNCHANGED <<nonces, alarm, toRuntime, reserved, faults>>
  BY <1>1, <1>2, <1>3 DEF AdmitRuntime, RelayTypeOK
<1>4. ASSUME NEW g \in 1 .. MaxConns, reserved' = g, StorageFails,
             conn' = ClosedByRelay(conn, {c}),
             UNCHANGED <<nonces, alarm, toRuntime>>
      PROVE  RelayTypeOK'
  <2>1. reserved' \in Nat /\ faults' \in Nat
    BY <1>4, LimitsAssumption DEF StorageFails, RelayTypeOK
  <2>2. QED
    BY <1>1, <1>2, <1>4, <2>1 DEF AdmitRuntime, RelayTypeOK
<1>5. ASSUME NEW g \in 1 .. MaxConns, reserved' = g, StorageWorks,
             nonces' = LiveNonces \cup {conn[c].openedAt + ChallengeTTL},
             alarm' \in Earliest(alarm, DueTimes(record, conn, nonces')),
             conn' = Admitted(c, g),
             toRuntime' = Frames(c, Hello(c))
      PROVE  RelayTypeOK'
  <2>1. nonces' \subseteq Times
    <3>1. conn[c].openedAt + ChallengeTTL \in Times
      BY LimitsAssumption DEF RelayTypeOK, Conn, Times
    <3>2. QED
      BY <1>5, <3>1 DEF RelayTypeOK, LiveNonces
  <2>2. alarm' \in Times
    <3>1. DueTimes(record, conn, nonces') \in SUBSET Times
      BY <2>1, DueTimesType DEF RelayTypeOK
    <3>2. QED
      BY <1>5, <3>1, EarliestType DEF RelayTypeOK
  <2>3. conn' \in [Conns -> Conn]
    <3> DEFINE older == {d \in Conns \ {c} : conn[d].authenticated /\ conn[d].generation < g}
               closed == ClosedByRelay(conn, older)
    <3>1. closed \in [Conns -> Conn]
      BY ClosedByRelayType DEF RelayTypeOK
    <3>2. conn' = [closed EXCEPT ![c].authenticated = TRUE, ![c].generation = g]
      BY <1>5 DEF Admitted
    <3> HIDE DEF closed
    <3>3. closed[c] \in Conn /\ g \in Nat
      BY <3>1, LimitsAssumption
    <3>4. [closed[c] EXCEPT !.authenticated = TRUE, !.generation = g] \in Conn
      BY <3>3 DEF Conn
    <3>5. conn' = [closed EXCEPT ![c] = [closed[c] EXCEPT !.authenticated = TRUE, !.generation = g]]
      BY <3>1, <3>2
    <3>6. QED
      BY <3>1, <3>4, <3>5
  <2>4. toRuntime' \in [Conns -> ToRuntime]
    <3>1. toRuntime[c] \in ToRuntime
      BY DEF RelayTypeOK
    <3>2. Hello(c) \in ToRuntime
      BY <3>1 DEF Hello, ToRuntime
    <3>3. QED
      BY <1>5, <3>2, FramesType DEF RelayTypeOK
  <2>5. reserved' \in Nat /\ faults' \in Nat
    BY <1>5, LimitsAssumption DEF StorageWorks, RelayTypeOK
  <2>6. QED
    BY <1>1, <2>1, <2>2, <2>3, <2>4, <2>5 DEF AdmitRuntime, RelayTypeOK
<1>6. QED
  BY <1>3, <1>4, <1>5 DEF AdmitRuntime

\* A result that arrives keeps the types.
LEMMA ReceiveResultType ==
  ASSUME RelayTypeOK, NEW c \in Conns, ReceiveResult(c)
  PROVE  RelayTypeOK'
<1> PICK r \in toRelay[c].results :
         /\ toRelay' = [toRelay EXCEPT ![c].results = @ \ {r}]
         /\ \/ conn' = ClosedByRelay(conn, {c}) /\ UNCHANGED digesting
            \/ UNCHANGED <<conn, digesting>>
            \/ /\ digesting' = digesting \cup {[conn |-> c, job |-> r[1], digest |-> r[2],
                                               snapshot |-> record[r[1]]]}
               /\ UNCHANGED conn
         /\ UNCHANGED <<clock, record, nonces, alarm, toRuntime, reserved, source, told, handed, faults>>
  BY DEF ReceiveResult
<1>1. r \in Jobs \X (Nat \ {NoDigest})
  BY DEF RelayTypeOK
<1>2. toRelay' \in [Conns -> [proof : BOOLEAN, results : SUBSET (Jobs \X (Nat \ {NoDigest}))]]
  BY DEF RelayTypeOK
<1>3. conn' \in [Conns -> Conn]
  BY ClosedByRelayType DEF RelayTypeOK
<1>4. [conn |-> c, job |-> r[1], digest |-> r[2], snapshot |-> record[r[1]]] \in Digesting
  BY <1>1 DEF RelayTypeOK, Digesting
<1>5. digesting' \subseteq Digesting
  BY <1>4 DEF RelayTypeOK
<1>6. QED
  BY <1>2, <1>3, <1>5 DEF RelayTypeOK

\* A result whose digest is there keeps the types.
LEMMA FinishResultType ==
  ASSUME RelayTypeOK, FinishResult
  PROVE  RelayTypeOK'
<1> PICK w \in digesting :
         /\ digesting' = digesting \ {w}
         /\ \/ StorageFails /\ UNCHANGED <<record, alarm, told, source>>
            \/ /\ StorageWorks
               /\ SaveRecord(record, w.job, [w.snapshot EXCEPT
                    !.state = ApplyRelayDeliveryEvent(w.snapshot.state, "result", w.digest)])
               /\ Send(source, w.job, "result") \/ NoAnswer(source)
         /\ UNCHANGED <<clock, nonces, conn, toRuntime, toRelay, reserved, handed>>
  BY DEF FinishResult
<1>1. w \in Digesting
  BY DEF RelayTypeOK
<1>2. [w.snapshot EXCEPT !.state = ApplyRelayDeliveryEvent(w.snapshot.state, "result", w.digest)]
        \in StoredJobRecord
  <2>1. w.snapshot \in StoredJobRecord /\ w.snapshot.state \in RelayDeliveryState
    BY <1>1 DEF Digesting, StoredJobRecord
  <2>2. ApplyRelayDeliveryEvent(w.snapshot.state, "result", w.digest) \in RelayDeliveryState
    BY <1>1, <2>1, ApplyType DEF Digesting, RelayDeliveryEventType
  <2>3. QED
    BY <2>1, <2>2 DEF StoredJobRecord
<1>3. CASE StorageFails /\ UNCHANGED <<record, alarm, told, source>>
  BY <1>3 DEF StorageFails, RelayTypeOK
<1>4. CASE /\ StorageWorks
           /\ SaveRecord(record, w.job, [w.snapshot EXCEPT
                !.state = ApplyRelayDeliveryEvent(w.snapshot.state, "result", w.digest)])
           /\ Send(source, w.job, "result") \/ NoAnswer(source)
  <2>1. record' \in [Jobs -> StoredJobRecord] /\ alarm' \in Times
    BY <1>2, <1>4 DEF SaveRecord, RelayTypeOK, StoredJobRecord
  <2>2. /\ told' \in [Jobs -> SUBSET Answer]
        /\ source' \in [Jobs -> {"none", "pending", "client", "closed"}]
    BY <1>1, <1>4, SendType DEF NoAnswer, RelayTypeOK, Digesting, Answer
  <2>3. QED
    BY <1>4, <2>1, <2>2 DEF StorageWorks, RelayTypeOK
<1>5. QED
  BY <1>3, <1>4

\* A closed socket keeps the types.
LEMMA CloseType ==
  ASSUME RelayTypeOK, NEW c \in Conns, WebSocketClose(c)
  PROVE  RelayTypeOK'
<1>1. conn' \in [Conns -> Conn]
  BY UnattachedType DEF WebSocketClose, RelayTypeOK
<1>2. toRelay' \in [Conns -> [proof : BOOLEAN, results : SUBSET (Jobs \X (Nat \ {NoDigest}))]]
  BY DEF WebSocketClose, RelayTypeOK
<1>3. record' \in [Jobs -> StoredJobRecord]
  BY DisconnectJobsType DEF WebSocketClose, RelayTypeOK
<1>4. alarm' \in Times
  <2>1. SentOver(c) \in SUBSET Jobs
    BY DEF SentOver
  <2>2. AlarmAfterSaves(SentOver(c), alarm) \subseteq Times
    BY <2>1, AlarmAfterSavesType DEF RelayTypeOK
  <2>3. QED
    BY <2>2 DEF WebSocketClose, RelayTypeOK
<1>5. faults' \in Nat
  BY DEF WebSocketClose, StorageWorks, StorageFails, RelayTypeOK
<1>6. QED
  BY <1>1, <1>2, <1>3, <1>4, <1>5 DEF WebSocketClose, RelayTypeOK

\* The alarm keeps the types.
LEMMA AlarmType ==
  ASSUME RelayTypeOK, Alarm
  PROVE  RelayTypeOK'
<1> DEFINE expired == {c \in GetWebSockets : Expired(c)}
           closed == UNION {SentOver(c) : c \in expired}
           rec == DisconnectJobs(closed)
<1>1. rec \in [Jobs -> StoredJobRecord]
  BY DisconnectJobsType DEF RelayTypeOK
<1>2. closed \in SUBSET Jobs
  BY DEF SentOver
<1>3. /\ conn' = ClosedByRelay(conn, expired)
      /\ record' = Reap(rec, clock)
      /\ nonces' = LiveNonces
      /\ \E a \in AlarmAfterSaves(closed, NoAlarm) :
          \E b \in AlarmAfterReap(rec, clock, a) :
            alarm' \in Earliest(b, DueTimes(record', conn', nonces'))
      /\ UNCHANGED <<clock, toRuntime, toRelay, reserved, digesting, source, told, handed, faults>>
  BY DEF Alarm
<1> HIDE DEF expired, closed, rec
<1>4. conn' \in [Conns -> Conn]
  BY <1>3, ClosedByRelayType DEF RelayTypeOK
<1>5. record' \in [Jobs -> StoredJobRecord]
  BY <1>1, <1>3, ReapType
<1>6. nonces' \in SUBSET Times
  BY <1>3 DEF LiveNonces, RelayTypeOK
<1>7. alarm' \in Times
  <2>1. AlarmAfterSaves(closed, NoAlarm) \subseteq Times
    BY <1>2, AlarmAfterSavesType DEF RelayTypeOK, NoAlarm, Times
  <2>2. \A a \in AlarmAfterSaves(closed, NoAlarm) : AlarmAfterReap(rec, clock, a) \subseteq Times
    BY <1>1, <2>1, AlarmTypes
  <2>3. DueTimes(record', conn', nonces') \in SUBSET Times
    BY <1>4, <1>5, <1>6, DueTimesType
  <2>4. QED
    BY <1>3, <2>1, <2>2, <2>3, EarliestType
<1>8. QED
  BY <1>3, <1>4, <1>5, <1>6, <1>7 DEF RelayTypeOK

\* A restart of the object keeps the types.
LEMMA RestartType ==
  ASSUME RelayTypeOK, Restart
  PROVE  RelayTypeOK'
<1>1. conn' \in [Conns -> Conn]
  BY UnattachedType DEF Restart, RelayTypeOK
<1>2. told' \in [Jobs -> SUBSET Answer]
  BY DEF Restart, RelayTypeOK, Answer
<1>3. source' \in [Jobs -> {"none", "pending", "client", "closed"}]
  BY DEF Restart, RelayTypeOK
<1>4. /\ toRelay' \in [Conns -> [proof : BOOLEAN, results : SUBSET (Jobs \X (Nat \ {NoDigest}))]]
      /\ reserved' \in Nat /\ digesting' \subseteq Digesting
  BY DEF Restart
<1>5. QED
  BY <1>1, <1>2, <1>3, <1>4 DEF Restart, RelayTypeOK

\* Unloading and time keep the types.
LEMMA UnloadAndTickType ==
  ASSUME RelayTypeOK, Hibernate \/ Tick
  PROVE  RelayTypeOK'
<1>1. CASE Hibernate
  BY <1>1 DEF RelayTypeOK, Hibernate
<1>2. CASE Tick
  <2>1. clock' \in Times /\ UNCHANGED relayVars
    BY <1>2 DEF Tick, RelayTypeOK, Times
  <2>2. QED
    BY <2>1 DEF RelayTypeOK, relayVars
<1>3. QED
  BY <1>1, <1>2

-----------------------------------------------------------------------------
(* The Runtime's handlers keep the types. *)

\* Kept results are queued on the current socket, or lost with it.
LEMMA FlushOverType ==
  ASSUME TypeOK, NEW rj \in [Jobs -> RuntimeJob], NEW js \in SUBSET Jobs, FlushOver(rj, js)
  PROVE  /\ jobs' \in [Jobs -> RuntimeJob]
         /\ toRelay' \in [Conns -> [proof : BOOLEAN, results : SUBSET (Jobs \X (Nat \ {NoDigest}))]]
<1>1. ASSUME NEW j \in Jobs PROVE jobs'[j] \in RuntimeJob
  <2>1. rj[j] \in RuntimeJob /\ socket \in 0 .. MaxConns
    BY DEF TypeOK, RuntimeTypeOK
  <2>2. [rj[j] EXCEPT !.resultSentOn = socket] \in RuntimeJob
    BY <2>1 DEF RuntimeJob
  <2>3. QED
    BY <2>1, <2>2 DEF FlushOver, Flush
<1>2. jobs' \in [Jobs -> RuntimeJob]
  BY <1>1 DEF FlushOver, Flush
<1>3. CASE Reaches(socket)
  <2> DEFINE new == {<<j, rj[j].result>> : j \in Flushable(rj, js)}
  <2>1. ASSUME NEW j \in Flushable(rj, js) PROVE <<j, rj[j].result>> \in Jobs \X (Nat \ {NoDigest})
    <3>1. rj[j] \in RuntimeJob /\ rj[j].result # 0 /\ j \in Jobs
      BY <2>1 DEF Flushable
    <3>2. QED
      BY <3>1 DEF RuntimeJob, NoDigest
  <2>2. new \subseteq Jobs \X (Nat \ {NoDigest})
    BY <2>1
  <2>3. toRelay' = [toRelay EXCEPT ![socket].results = @ \cup new]
    BY <1>3 DEF FlushOver, Flush
  <2> HIDE DEF new
  <2>4. QED
    BY <1>2, <2>2, <2>3 DEF TypeOK, RelayTypeOK
<1>4. CASE ~Reaches(socket)
  BY <1>2, <1>4 DEF FlushOver, TypeOK, RelayTypeOK
<1>5. QED
  BY <1>3, <1>4

\* The absent job of the Runtime is typed.
LEMMA NoRuntimeJobType == NoRuntimeJob \in RuntimeJob
BY LimitsAssumption DEF NoRuntimeJob, RuntimeJob, NoConn, RelayDeliveryPhase

\* A fact that is no result moves the phase of a job to a phase.
LEMMA LocalEventType ==
  ASSUME NEW job \in RuntimeJob, NEW type \in RelayDeliveryEventType, type # "result"
  PROVE  [job EXCEPT !.phase = LocalEvent(job, type)] \in RuntimeJob
<1>1. NextPhase(job.phase, type) \in RelayDeliveryPhase
  BY NextPhaseType DEF RuntimeJob
<1>2. LocalEvent(job, type) \in RelayDeliveryPhase
  BY <1>1 DEF LocalEvent, ApplyRelayDeliveryEvent, CreateState, RuntimeJob
<1>3. QED
  BY <1>2 DEF RuntimeJob

\* Connecting keeps the types.
LEMMA ConnectType ==
  ASSUME TypeOK, NEW c \in Conns, Connect(c)
  PROVE  TypeOK'
<1>1. conn' \in [Conns -> Conn]
  <2>1. [conn[c] EXCEPT !.relay = "requested"] \in Conn
    BY DEF TypeOK, RelayTypeOK, Conn
  <2>2. QED
    BY <2>1 DEF Connect, TypeOK, RelayTypeOK
<1>2. toRuntime' \in [Conns -> ToRuntime]
  <2>1. toRuntime[c] \in ToRuntime
    BY DEF TypeOK, RelayTypeOK
  <2>2. [toRuntime[c] EXCEPT !.listening = TRUE] \in ToRuntime
    BY <2>1 DEF ToRuntime
  <2>3. QED
    BY <2>2 DEF Connect, TypeOK, RelayTypeOK
<1>3. socket' \in 0 .. MaxConns
  BY LimitsAssumption DEF Connect, Conns
<1>4. QED
  BY <1>1, <1>2, <1>3 DEF Connect, TypeOK, RelayTypeOK, RuntimeTypeOK

\* Frames that were read are gone.
LEMMA ReadType ==
  ASSUME TypeOK, NEW c \in Conns, NEW js \in SUBSET Jobs
  PROVE  /\ [toRuntime EXCEPT ![c].hello = "none"] \in [Conns -> ToRuntime]
         /\ [toRuntime EXCEPT ![c].jobs = @ \ js] \in [Conns -> ToRuntime]
<1>1. toRuntime \in [Conns -> ToRuntime] /\ toRuntime[c] \in ToRuntime
  BY DEF TypeOK, RelayTypeOK
<1>2. /\ [toRuntime[c] EXCEPT !.hello = "none"] \in ToRuntime
      /\ [toRuntime[c] EXCEPT !.jobs = @ \ js] \in ToRuntime
  BY <1>1 DEF ToRuntime
<1>3. QED
  BY <1>1, <1>2

\* The challenge keeps the types.
LEMMA OnChallengeType ==
  ASSUME TypeOK, NEW c \in Conns, OnChallenge(c)
  PROVE  TypeOK'
<1>1. toRuntime' \in [Conns -> ToRuntime]
  BY ReadType DEF OnChallenge
<1>2. toRelay' \in [Conns -> [proof : BOOLEAN, results : SUBSET (Jobs \X (Nat \ {NoDigest}))]]
  <2>1. toRelay[c] \in [proof : BOOLEAN, results : SUBSET (Jobs \X (Nat \ {NoDigest}))]
    BY DEF TypeOK, RelayTypeOK
  <2>2. [toRelay[c] EXCEPT !.proof = TRUE]
          \in [proof : BOOLEAN, results : SUBSET (Jobs \X (Nat \ {NoDigest}))]
    BY <2>1
  <2>3. QED
    BY <2>2 DEF OnChallenge, TypeOK, RelayTypeOK
<1>3. QED
  BY <1>1, <1>2 DEF OnChallenge, OnlyRuntime, TypeOK, RelayTypeOK, RuntimeTypeOK

\* Admission, seen by the Runtime, keeps the types.
LEMMA OnConnectedType ==
  ASSUME TypeOK, NEW c \in Conns, OnConnected(c)
  PROVE  TypeOK'
<1>1. toRuntime' \in [Conns -> ToRuntime]
  BY ReadType DEF OnConnected
<1>2. /\ jobs' \in [Jobs -> RuntimeJob]
      /\ toRelay' \in [Conns -> [proof : BOOLEAN, results : SUBSET (Jobs \X (Nat \ {NoDigest}))]]
  BY FlushOverType DEF OnConnected, TypeOK, RuntimeTypeOK
<1>3. QED
  BY <1>1, <1>2 DEF OnConnected, OnlyRuntime, TypeOK, RelayTypeOK, RuntimeTypeOK

\* What the Runtime does with one job frame.
Heard(c, j) ==
  /\ socket = c /\ j \in toRuntime[c].jobs
  /\ toRuntime' = [toRuntime EXCEPT ![c].jobs = @ \ {j}]
  /\ \/ UNCHANGED <<jobs, toRelay, executions, ignored>>
     \/ FlushOver(jobs, {j}) /\ UNCHANGED <<executions, ignored>>
     \/ ignored' = ignored \cup {j} /\ UNCHANGED <<jobs, toRelay, executions>>
     \/ /\ ~jobs[j].known
        /\ jobs' = [jobs EXCEPT ![j] = [NoRuntimeJob EXCEPT !.known = TRUE, !.origin = c,
                                          !.phase = "delivered", !.executing = TRUE]]
        /\ executions' = [executions EXCEPT ![j] = @ + 1]
        /\ UNCHANGED <<toRelay, ignored>>
  /\ UNCHANGED <<socket, admissionPending, possessionProved, restarts>>
  /\ OnlyRuntime

\* Hearing a job keeps the types.
LEMMA HeardType ==
  ASSUME TypeOK, NEW c \in Conns, NEW j \in Jobs, Heard(c, j)
  PROVE  TypeOK'
<1>1. toRuntime' \in [Conns -> ToRuntime]
  <2>1. {j} \in SUBSET Jobs
    OBVIOUS
  <2>2. QED
    BY <2>1, ReadType DEF Heard
<1>2. ASSUME jobs' \in [Jobs -> RuntimeJob], executions' \in [Jobs -> Nat], ignored' \subseteq Jobs,
             toRelay' \in [Conns -> [proof : BOOLEAN, results : SUBSET (Jobs \X (Nat \ {NoDigest}))]]
      PROVE  TypeOK'
  BY <1>1, <1>2 DEF Heard, OnlyRuntime, TypeOK, RelayTypeOK, RuntimeTypeOK
<1>3. CASE UNCHANGED <<jobs, toRelay, executions, ignored>>
  BY <1>2, <1>3 DEF TypeOK, RelayTypeOK, RuntimeTypeOK
<1>4. CASE FlushOver(jobs, {j}) /\ UNCHANGED <<executions, ignored>>
  <2>1. /\ jobs' \in [Jobs -> RuntimeJob]
        /\ toRelay' \in [Conns -> [proof : BOOLEAN, results : SUBSET (Jobs \X (Nat \ {NoDigest}))]]
    BY <1>4, FlushOverType DEF TypeOK, RuntimeTypeOK
  <2>2. QED
    BY <1>2, <1>4, <2>1 DEF TypeOK, RuntimeTypeOK
<1>5. CASE ignored' = ignored \cup {j} /\ UNCHANGED <<jobs, toRelay, executions>>
  BY <1>2, <1>5 DEF TypeOK, RelayTypeOK, RuntimeTypeOK
<1>6. CASE /\ jobs' = [jobs EXCEPT ![j] = [NoRuntimeJob EXCEPT !.known = TRUE, !.origin = c,
                                             !.phase = "delivered", !.executing = TRUE]]
           /\ executions' = [executions EXCEPT ![j] = @ + 1]
           /\ UNCHANGED <<toRelay, ignored>>
  <2>1. [NoRuntimeJob EXCEPT !.known = TRUE, !.origin = c, !.phase = "delivered",
                             !.executing = TRUE] \in RuntimeJob
    <3>1. c \in 0 .. MaxConns /\ "delivered" \in RelayDeliveryPhase
      BY LimitsAssumption DEF Conns, RelayDeliveryPhase
    <3>2. QED
      BY <3>1, NoRuntimeJobType DEF RuntimeJob
  <2>2. jobs' \in [Jobs -> RuntimeJob] /\ executions' \in [Jobs -> Nat]
    BY <1>6, <2>1 DEF TypeOK, RuntimeTypeOK
  <2>3. QED
    BY <1>2, <1>6, <2>2 DEF TypeOK, RelayTypeOK, RuntimeTypeOK
<1>7. QED
  BY <1>3, <1>4, <1>5, <1>6 DEF Heard

\* onJob is what the Runtime does with one job it heard.
LEMMA OnJobHeard ==
  ASSUME TypeOK, NEW c \in Conns, OnJob(c)
  PROVE  \E j \in Jobs : Heard(c, j)
<1>1. toRuntime[c].jobs \subseteq Jobs
  BY DEF TypeOK, RelayTypeOK, ToRuntime
<1>2. QED
  BY <1>1 DEF OnJob, Heard, Accepts

\* A finished execution keeps the types.
LEMMA ExecuteReturnsType ==
  ASSUME TypeOK, NEW j \in Jobs, ExecuteReturns(j)
  PROVE  TypeOK'
<1> DEFINE rj == [jobs EXCEPT ![j].executing = FALSE, ![j].result = executions[j]]
<1>1. rj \in [Jobs -> RuntimeJob]
  <2>1. jobs[j] \in RuntimeJob /\ executions[j] \in Nat
    BY DEF TypeOK, RuntimeTypeOK
  <2>2. [jobs[j] EXCEPT !.executing = FALSE, !.result = executions[j]] \in RuntimeJob
    BY <2>1 DEF RuntimeJob
  <2>3. rj = [jobs EXCEPT ![j] = [jobs[j] EXCEPT !.executing = FALSE, !.result = executions[j]]]
    BY DEF TypeOK, RuntimeTypeOK
  <2> HIDE DEF rj
  <2>4. QED
    BY <2>2, <2>3 DEF TypeOK, RuntimeTypeOK
<1>2. FlushOver(rj, {j}) \/ (jobs' = rj /\ UNCHANGED toRelay)
  BY DEF ExecuteReturns
<1> HIDE DEF rj
<1>3. /\ jobs' \in [Jobs -> RuntimeJob]
      /\ toRelay' \in [Conns -> [proof : BOOLEAN, results : SUBSET (Jobs \X (Nat \ {NoDigest}))]]
  BY <1>1, <1>2, FlushOverType DEF TypeOK, RelayTypeOK
<1>4. QED
  BY <1>3 DEF ExecuteReturns, OnlyRuntime, TypeOK, RelayTypeOK, RuntimeTypeOK

\* An expiry in the Runtime keeps the types.
LEMMA ExpiryTimerType ==
  ASSUME TypeOK, NEW j \in Jobs, ExpiryTimer(j)
  PROVE  TypeOK'
<1>1. [jobs[j] EXCEPT !.phase = LocalEvent(jobs[j], "expire")] \in RuntimeJob
  BY LocalEventType DEF TypeOK, RuntimeTypeOK, RelayDeliveryEventType
<1>2. jobs' \in [Jobs -> RuntimeJob]
  BY <1>1 DEF ExpiryTimer, TypeOK, RuntimeTypeOK
<1>3. QED
  BY <1>2 DEF ExpiryTimer, OnlyRuntime, TypeOK, RelayTypeOK, RuntimeTypeOK

\* An empty channel is typed.
LEMMA SilentType == Silent \in ToRuntime
BY DEF Silent, ToRuntime

\* A socket lost by the Runtime keeps the types.
LEMMA OnCloseType ==
  ASSUME TypeOK, OnClose
  PROVE  TypeOK'
<1>1. toRuntime' \in [Conns -> ToRuntime]
  BY SilentType DEF OnClose, TypeOK, RelayTypeOK
<1>2. ASSUME NEW j \in Jobs
      PROVE  [jobs[j] EXCEPT !.phase = LocalEvent(jobs[j], "disconnect")] \in RuntimeJob
  BY LocalEventType DEF TypeOK, RuntimeTypeOK, RelayDeliveryEventType
<1>3. jobs' \in [Jobs -> RuntimeJob]
  BY <1>2 DEF OnClose, TypeOK, RuntimeTypeOK
<1>4. NoConn \in 0 .. MaxConns
  BY LimitsAssumption DEF NoConn
<1>5. QED
  BY <1>1, <1>3, <1>4 DEF OnClose, OnlyRuntime, TypeOK, RelayTypeOK, RuntimeTypeOK

\* A restart of the Runtime keeps the types.
LEMMA RuntimeRestartType ==
  ASSUME TypeOK, RuntimeRestart
  PROVE  TypeOK'
<1>1. toRuntime' \in [Conns -> ToRuntime]
  BY SilentType DEF RuntimeRestart, TypeOK, RelayTypeOK
<1>2. jobs' \in [Jobs -> RuntimeJob]
  BY NoRuntimeJobType DEF RuntimeRestart
<1>3. NoConn \in 0 .. MaxConns
  BY LimitsAssumption DEF NoConn
<1>4. restarts' \in Nat
  BY DEF RuntimeRestart, TypeOK, RuntimeTypeOK
<1>5. QED
  BY <1>1, <1>2, <1>3, <1>4 DEF RuntimeRestart, OnlyRuntime, TypeOK, RelayTypeOK, RuntimeTypeOK

-----------------------------------------------------------------------------
(* Type correctness. *)

\* Every action keeps the types; relay actions leave the Runtime alone.
LEMMA TypeStep ==
  ASSUME TypeOK, [Next]_vars
  PROVE  TypeOK'
<1>1. ASSUME RelayTypeOK', UNCHANGED runtimeVars
      PROVE  TypeOK'
  BY <1>1 DEF TypeOK, RuntimeTypeOK, runtimeVars
<1>2. RelayTypeOK
  BY DEF TypeOK
<1>3. CASE Callers
  <2> PICK j \in Jobs : Dispatch(j) \/ CallerTimeout(j) \/ ClientSends(j) \/ ClientLeaves(j)
    BY <1>3 DEF Callers
  <2>1. CASE Dispatch(j)
    BY <1>1, <1>2, <2>1, DispatchType DEF Dispatch
  <2>2. CASE CallerTimeout(j)
    <3>1. told' \in [Jobs -> SUBSET Answer]
      BY <1>2, <2>2 DEF CallerTimeout, RelayTypeOK, Answer
    <3>2. source' \in [Jobs -> {"none", "pending", "client", "closed"}]
      BY <1>2, <2>2 DEF CallerTimeout, RelayTypeOK
    <3>3. RelayTypeOK'
      BY <1>2, <2>2, <3>1, <3>2 DEF CallerTimeout, RelayTypeOK
    <3>4. QED
      BY <1>1, <2>2, <3>3 DEF CallerTimeout
  <2>3. CASE ClientSends(j)
    BY <1>1, <1>2, <2>3, ClientJobType DEF ClientSends
  <2>4. CASE ClientLeaves(j)
    <3>1. RelayTypeOK'
      BY <1>2, <2>4 DEF ClientLeaves, RelayTypeOK
    <3>2. QED
      BY <1>1, <2>4, <3>1 DEF ClientLeaves
  <2>5. QED
    BY <2>1, <2>2, <2>3, <2>4
<1>4. CASE RelayFetch
  BY <1>1, <1>2, <1>4, FetchType DEF RelayFetch
<1>5. CASE RelayAdmit
  BY <1>1, <1>2, <1>5, AdmitType DEF RelayAdmit
<1>6. CASE RelayResult
  BY <1>1, <1>2, <1>6, ReceiveResultType DEF RelayResult
<1>7. CASE RelayDigest
  BY <1>1, <1>2, <1>7, FinishResultType DEF RelayDigest
<1>8. CASE RelayClose
  BY <1>1, <1>2, <1>8, CloseType DEF RelayClose
<1>9. CASE RelayAlarm
  BY <1>1, <1>2, <1>9, AlarmType DEF RelayAlarm
<1>10. CASE RelayUnload \/ Time
  BY <1>1, <1>2, <1>10, UnloadAndTickType DEF RelayUnload, Time
<1>11. CASE RelayRestart
  BY <1>1, <1>2, <1>11, RestartType DEF RelayRestart
<1>12. CASE RuntimeConnects
  BY <1>12, ConnectType DEF RuntimeConnects
<1>13. CASE RuntimeHears
  BY <1>13, OnChallengeType, OnConnectedType, OnJobHeard, HeardType DEF RuntimeHears
<1>14. CASE RuntimeReturns \/ RuntimeExpires
  BY <1>14, ExecuteReturnsType, ExpiryTimerType DEF RuntimeReturns, RuntimeExpires
<1>15. CASE RuntimeLoses \/ RuntimeRestarts
  BY <1>15, OnCloseType, RuntimeRestartType DEF RuntimeLoses, RuntimeRestarts
<1>16. CASE UNCHANGED vars
  BY <1>16 DEF vars, relayVars, runtimeVars, TypeOK, RelayTypeOK, RuntimeTypeOK
<1>17. QED
  BY <1>3, <1>4, <1>5, <1>6, <1>7, <1>8, <1>9, <1>10, <1>11, <1>12, <1>13, <1>14, <1>15, <1>16
     DEF Next

\* The initial state is typed.
LEMMA TypeInit == Init => TypeOK
<1> SUFFICES ASSUME Init PROVE TypeOK
  OBVIOUS
<1>1. conn \in [Conns -> Conn]
  BY UnattachedType DEF Init, RelayInit
<1>2. toRuntime \in [Conns -> ToRuntime] /\ record \in [Jobs -> StoredJobRecord]
  BY SilentType, NoRecordType DEF Init, RelayInit
<1>3. jobs \in [Jobs -> RuntimeJob] /\ socket \in 0 .. MaxConns
  BY NoRuntimeJobType, LimitsAssumption DEF Init, RuntimeInit, NoConn
<1>4. alarm \in Times /\ clock \in Times
  BY DEF Init, RelayInit, Times, NoAlarm
<1>5. QED
  BY <1>1, <1>2, <1>3, <1>4
     DEF Init, RelayInit, RuntimeInit, TypeOK, RelayTypeOK, RuntimeTypeOK

\* The Relay's storage, its sockets and the Runtime's memory keep their types;
\* in particular exactly the terminal results have a digest.
THEOREM Types == Spec => []TypeOK
BY TypeInit, TypeStep, PTL DEF Spec

-----------------------------------------------------------------------------
(* A fresh job is executed at most once. *)

\* Steps that neither hand over nor execute anything, and lose frames at most.
LEMMA FreshStays ==
  ASSUME FreshInv, handed' = handed, executions' = executions,
         \A j \in Jobs : source'[j] = "none" => source[j] = "none",
         \A c \in Conns : toRuntime'[c].jobs \subseteq toRuntime[c].jobs
  PROVE  FreshInv'
BY DEF FreshInv, Fresh

\* A job with no source before is handed over once: it becomes the one frame.
LEMMA FreshReceived ==
  ASSUME TypeOK, FreshInv, NEW j \in Jobs, NEW src \in [Jobs -> Sources],
         \A i \in Jobs : src[i] = "none" => source[i] = "none" /\ i # j,
         j \in SocketClients \/ source[j] = "none",
         Received(j, src), executions' = executions
  PROVE  FreshInv'
<1>1. \A i \in Jobs : source'[i] = "none" => source[i] = "none" /\ i # j
  BY DEF Received
<1>2. CASE toRuntime' = toRuntime /\ handed' = handed
  BY <1>1, <1>2, FreshStays
<1>3. ASSUME NEW c \in Conns,
             toRuntime' = Frames(c, [toRuntime[c] EXCEPT !.jobs = @ \cup {j}]),
             handed' = handed \cup {j}
      PROVE  FreshInv'
  <2>1. /\ toRuntime'[c].jobs \subseteq toRuntime[c].jobs \cup {j}
        /\ \A d \in Conns \ {c} : toRuntime'[d].jobs = toRuntime[d].jobs
    <3>1. toRuntime \in [Conns -> ToRuntime] /\ toRuntime[c] \in ToRuntime
      BY DEF TypeOK, RelayTypeOK
    <3>2. [toRuntime[c] EXCEPT !.jobs = @ \cup {j}].jobs = toRuntime[c].jobs \cup {j}
      BY <3>1 DEF ToRuntime
    <3>3. QED
      BY <1>3, <3>1, <3>2 DEF Frames
  <2> SUFFICES ASSUME NEW i \in Fresh
               PROVE  /\ source'[i] = "none" => i \notin handed'
                      /\ i \notin handed' => executions'[i] = 0
                      /\ \A d \in Conns : i \in toRuntime'[d].jobs =>
                           /\ i \in handed' /\ executions'[i] = 0
                           /\ \A e \in Conns \ {d} : i \notin toRuntime'[e].jobs
                      /\ executions'[i] <= 1
    BY DEF FreshInv, Fresh
  <2>2. CASE i = j
    <3>1. j \notin handed /\ executions[j] = 0 /\ \A d \in Conns : j \notin toRuntime[d].jobs
      BY <2>2 DEF FreshInv, Fresh
    <3>2. QED
      BY <1>1, <1>3, <2>1, <2>2, <3>1 DEF FreshInv, Fresh
  <2>3. CASE i # j
    BY <1>1, <1>3, <2>1, <2>3 DEF FreshInv, Fresh
  <2>4. QED
    BY <2>2, <2>3
<1>4. QED
  BY <1>2, <1>3 DEF Received

\* The Runtime takes a frame off its socket and may execute its job.
LEMMA FreshHeard ==
  ASSUME TypeOK, FreshInv, NEW c \in Conns, NEW j \in Jobs, Heard(c, j)
  PROVE  FreshInv'
<1>1. /\ toRuntime'[c].jobs = toRuntime[c].jobs \ {j}
      /\ \A d \in Conns \ {c} : toRuntime'[d].jobs = toRuntime[d].jobs
  BY DEF Heard, TypeOK, RelayTypeOK, ToRuntime
<1>2. handed' = handed /\ source' = source
  BY DEF Heard, OnlyRuntime
<1>3. CASE executions' = executions
  BY <1>1, <1>2, <1>3, FreshStays
<1>4. CASE executions' = [executions EXCEPT ![j] = @ + 1]
  <2> SUFFICES ASSUME NEW i \in Fresh
               PROVE  /\ source'[i] = "none" => i \notin handed'
                      /\ i \notin handed' => executions'[i] = 0
                      /\ \A d \in Conns : i \in toRuntime'[d].jobs =>
                           /\ i \in handed' /\ executions'[i] = 0
                           /\ \A e \in Conns \ {d} : i \notin toRuntime'[e].jobs
                      /\ executions'[i] <= 1
    BY DEF FreshInv, Fresh
  <2>1. executions \in [Jobs -> Nat]
    BY DEF TypeOK, RuntimeTypeOK
  <2>2. CASE i = j
    <3>1. /\ j \in handed /\ executions[j] = 0
          /\ \A d \in Conns \ {c} : j \notin toRuntime[d].jobs
      BY <2>2 DEF FreshInv, Fresh, Heard
    <3>2. \A d \in Conns : j \notin toRuntime'[d].jobs
      BY <1>1, <3>1
    <3>3. executions'[j] = 1
      BY <1>4, <2>1, <3>1
    <3>4. QED
      BY <1>2, <2>2, <3>1, <3>2, <3>3 DEF FreshInv, Fresh
  <2>3. CASE i # j
    <3>1. executions'[i] = executions[i]
      BY <1>4, <2>1, <2>3
    <3>2. QED
      BY <1>1, <1>2, <2>3, <3>1 DEF FreshInv, Fresh
  <2>4. QED
    BY <2>2, <2>3
<1>5. QED
  BY <1>3, <1>4 DEF Heard

\* Handshake frames leave the job frames alone.
LEMMA FramesJobs ==
  ASSUME TypeOK, NEW c \in Conns, NEW hello \in {"none", "challenge", "connected"},
         toRuntime' \in {toRuntime, Frames(c, [toRuntime[c] EXCEPT !.hello = hello]),
                         [toRuntime EXCEPT ![c].hello = hello],
                         [toRuntime EXCEPT ![c].listening = TRUE],
                         [toRuntime EXCEPT ![c] = Silent]}
  PROVE  \A d \in Conns : toRuntime'[d].jobs \subseteq toRuntime[d].jobs
<1>1. toRuntime \in [Conns -> ToRuntime] /\ toRuntime[c] \in ToRuntime
  BY DEF TypeOK, RelayTypeOK
<1>2. /\ [toRuntime[c] EXCEPT !.hello = hello].jobs = toRuntime[c].jobs
      /\ [toRuntime[c] EXCEPT !.listening = TRUE].jobs = toRuntime[c].jobs
      /\ Silent.jobs = {}
  BY <1>1 DEF ToRuntime, Silent
<1>3. QED
  BY <1>1, <1>2 DEF Frames

\* Every step keeps where a fresh job can be.
LEMMA FreshStep ==
  ASSUME TypeOK, FreshInv, [Next]_vars
  PROVE  FreshInv'
<1>1. CASE Callers
  <2> PICK j \in Jobs : Dispatch(j) \/ CallerTimeout(j) \/ ClientSends(j) \/ ClientLeaves(j)
    BY <1>1 DEF Callers
  <2>1. source \in [Jobs -> Sources]
    BY DEF TypeOK, RelayTypeOK, Sources
  <2>2. CASE Dispatch(j)
    <3> DEFINE src == [source EXCEPT ![j] = "pending"]
    <3>1. Received(j, src) /\ executions' = executions /\ source[j] = "none"
      BY <2>2, DispatchType DEF Dispatch, InternalDispatchRequest, TypeOK, runtimeVars
    <3>2. /\ src \in [Jobs -> Sources]
          /\ \A i \in Jobs : src[i] = "none" => source[i] = "none" /\ i # j
      BY <2>1 DEF Sources
    <3> HIDE DEF src
    <3>3. QED
      BY <3>1, <3>2, FreshReceived
  <2>3. CASE ClientSends(j)
    <3> DEFINE src == [source EXCEPT ![j] = "client"]
    <3>1. Received(j, src) /\ executions' = executions /\ j \in SocketClients
      BY <2>3, ClientJobType DEF ClientSends, ClientJob, TypeOK, runtimeVars
    <3>2. /\ src \in [Jobs -> Sources]
          /\ \A i \in Jobs : src[i] = "none" => source[i] = "none" /\ i # j
      BY <2>1 DEF Sources
    <3> HIDE DEF src
    <3>3. QED
      BY <3>1, <3>2, FreshReceived
  <2>4. CASE CallerTimeout(j) \/ ClientLeaves(j)
    BY <2>1, <2>4, FreshStays DEF CallerTimeout, ClientLeaves, runtimeVars
  <2>5. QED
    BY <2>2, <2>3, <2>4
<1>2. CASE RelayFetch
  BY <1>2, FramesJobs, FreshStays DEF RelayFetch, Fetch, runtimeVars
<1>3. CASE RelayAdmit
  BY <1>3, FramesJobs, FreshStays DEF RelayAdmit, AdmitRuntime, Hello, runtimeVars
<1>4. CASE RelayResult
  BY <1>4, FreshStays DEF RelayResult, ReceiveResult, runtimeVars
<1>5. CASE RelayDigest
  <2>1. \A j \in Jobs : source'[j] = "none" => source[j] = "none"
    BY <1>5 DEF RelayDigest, FinishResult, Send, NoAnswer, TypeOK, RelayTypeOK
  <2>2. QED
    BY <1>5, <2>1, FreshStays DEF RelayDigest, FinishResult, runtimeVars
<1>6. CASE RelayClose \/ RelayAlarm
  BY <1>6, FreshStays DEF RelayClose, WebSocketClose, RelayAlarm, Alarm, runtimeVars
<1>7. CASE RelayUnload \/ Time
  BY <1>7, FreshStays DEF RelayUnload, Hibernate, Time, Tick, relayVars, runtimeVars
<1>8. CASE RelayRestart
  BY <1>8, FreshStays DEF RelayRestart, Restart, runtimeVars, TypeOK, RelayTypeOK
<1>9. CASE RuntimeConnects
  BY <1>9, FramesJobs, FreshStays DEF RuntimeConnects, Connect
<1>10. CASE RuntimeHears
  <2> PICK c \in Conns : OnChallenge(c) \/ OnConnected(c) \/ OnJob(c)
    BY <1>10 DEF RuntimeHears
  <2>1. CASE OnChallenge(c) \/ OnConnected(c)
    BY <2>1, FramesJobs, FreshStays DEF OnChallenge, OnConnected, OnlyRuntime
  <2>2. CASE OnJob(c)
    BY <2>2, OnJobHeard, FreshHeard
  <2>3. QED
    BY <2>1, <2>2
<1>11. CASE RuntimeReturns \/ RuntimeExpires
  BY <1>11, FreshStays DEF RuntimeReturns, ExecuteReturns, RuntimeExpires, ExpiryTimer, OnlyRuntime
<1>12. CASE RuntimeLoses \/ RuntimeRestarts
  <2>1. \A c \in Conns : toRuntime'[c].jobs \subseteq toRuntime[c].jobs
    <3>1. toRuntime' = toRuntime \/ toRuntime' = [toRuntime EXCEPT ![socket] = Silent]
      BY <1>12 DEF RuntimeLoses, OnClose, RuntimeRestarts, RuntimeRestart
    <3>2. QED
      BY <3>1 DEF Silent, TypeOK, RelayTypeOK
  <2>2. QED
    BY <1>12, <2>1, FreshStays
       DEF RuntimeLoses, OnClose, RuntimeRestarts, RuntimeRestart, OnlyRuntime
<1>13. CASE UNCHANGED vars
  BY <1>13, FreshStays DEF vars, relayVars, runtimeVars
<1>14. QED
  BY <1>1, <1>2, <1>3, <1>4, <1>5, <1>6, <1>7, <1>8, <1>9, <1>10, <1>11, <1>12, <1>13 DEF Next

\* At first a fresh job is nowhere.
LEMMA FreshInit == Init => FreshInv
BY DEF Init, RelayInit, RuntimeInit, FreshInv, Fresh, Silent

\* A fresh job that was not handed over is nowhere, and one that was is under
\* way on one connection or was executed.
THEOREM FreshJobs == Spec => []FreshInv
BY FreshInit, FreshStep, Types, PTL DEF Spec

\* A job under a fresh id is executed at most once, however often the Runtime
\* reconnects or restarts, storage fails, or the relay forgets.
THEOREM FreshJobsExecuteOnce == Spec => []FreshJobsRunOnce
<1>1. FreshInv => FreshJobsRunOnce
  BY DEF FreshInv, Fresh, FreshJobsRunOnce
<1>2. QED
  BY <1>1, FreshJobs, PTL

-----------------------------------------------------------------------------
(* The delivery promise. *)

\* A result is only ever of a job that was executed: kept by the Runtime, under
\* way to the Relay, or waiting for its digest.
ResultsInv ==
  /\ \A j \in Jobs : (jobs[j].known \/ jobs[j].result # 0) => executions[j] >= 1
  /\ \A c \in Conns : \A r \in toRelay[c].results : executions[r[1]] >= 1
  /\ \A w \in digesting : executions[w.job] >= 1

\* Steps of the Relay forget results, or take one to wait for its digest.
LEMMA ResultsStay ==
  ASSUME ResultsInv, jobs' = jobs, executions' = executions,
         \A c \in Conns : toRelay'[c].results \subseteq toRelay[c].results,
         digesting' \subseteq digesting
  PROVE  ResultsInv'
BY DEF ResultsInv

\* Flushing sends results of known executions.
LEMMA ResultsFlushed ==
  ASSUME TypeOK, ResultsInv, NEW rj \in [Jobs -> RuntimeJob], NEW js \in SUBSET Jobs,
         \A j \in Jobs : (rj[j].known \/ rj[j].result # 0) => executions[j] >= 1,
         FlushOver(rj, js) \/ (jobs' = rj /\ UNCHANGED toRelay),
         executions' = executions, digesting' = digesting
  PROVE  ResultsInv'
<1>1. \A j \in Jobs : (jobs'[j].known \/ jobs'[j].result # 0) => executions[j] >= 1
  <2>1. CASE jobs' = rj
    BY <2>1
  <2>2. CASE jobs' = [j \in Jobs |-> IF j \in Flushable(rj, js)
                                     THEN [rj[j] EXCEPT !.resultSentOn = socket] ELSE rj[j]]
    <3> SUFFICES ASSUME NEW j \in Jobs
                 PROVE  (jobs'[j].known \/ jobs'[j].result # 0) => executions[j] >= 1
      OBVIOUS
    <3>1. rj[j] \in RuntimeJob
      OBVIOUS
    <3>2. jobs'[j].known = rj[j].known /\ jobs'[j].result = rj[j].result
      BY <2>2, <3>1 DEF RuntimeJob
    <3>3. QED
      BY <3>2
  <2>3. QED
    BY <2>1, <2>2 DEF FlushOver, Flush
<1>2. ASSUME NEW c \in Conns, NEW r \in toRelay'[c].results
      PROVE  executions[r[1]] >= 1
  <2> DEFINE new == {<<j, rj[j].result>> : j \in Flushable(rj, js)}
  <2>1. toRelay' = toRelay \/ toRelay' = [toRelay EXCEPT ![socket].results = @ \cup new]
    BY DEF FlushOver, Flush
  <2>2. \A n \in new : executions[n[1]] >= 1
    BY DEF Flushable
  <2> HIDE DEF new
  <2>3. r \in toRelay[c].results \/ r \in new
    BY <1>2, <2>1 DEF TypeOK, RelayTypeOK
  <2>4. QED
    BY <2>2, <2>3 DEF ResultsInv
<1>3. QED
  BY <1>1, <1>2 DEF ResultsInv

\* Every step keeps results to what was executed.
LEMMA ResultsStep ==
  ASSUME TypeOK, ResultsInv, [Next]_vars
  PROVE  ResultsInv'
<1>1. CASE Callers
  BY <1>1, ResultsStay
     DEF Callers, Dispatch, InternalDispatchRequest, CallerTimeout, ClientSends, ClientJob,
         ClientLeaves, runtimeVars
<1>2. CASE RelayFetch \/ RelayAlarm \/ RelayUnload \/ Time
  BY <1>2, ResultsStay
     DEF RelayFetch, Fetch, RelayAlarm, Alarm, RelayUnload, Hibernate, Time, Tick, relayVars,
         runtimeVars
<1>3. CASE RelayAdmit
  BY <1>3, ResultsStay DEF RelayAdmit, AdmitRuntime, runtimeVars, TypeOK, RelayTypeOK
<1>4. CASE RelayResult
  <2> PICK c \in Conns : ReceiveResult(c) /\ UNCHANGED runtimeVars
    BY <1>4 DEF RelayResult
  <2> PICK r \in toRelay[c].results :
         /\ toRelay' = [toRelay EXCEPT ![c].results = @ \ {r}]
         /\ \/ UNCHANGED digesting
            \/ digesting' = digesting \cup {[conn |-> c, job |-> r[1], digest |-> r[2],
                                            snapshot |-> record[r[1]]]}
    BY DEF ReceiveResult
  <2>1. jobs' = jobs /\ executions' = executions
    BY DEF runtimeVars
  <2>2. \A d \in Conns : toRelay'[d].results \subseteq toRelay[d].results
    BY DEF TypeOK, RelayTypeOK
  <2>3. executions[r[1]] >= 1
    BY DEF ResultsInv
  <2>4. \A w \in digesting' : executions[w.job] >= 1
    BY <2>3 DEF ResultsInv
  <2>5. QED
    BY <2>1, <2>2, <2>4 DEF ResultsInv
<1>5. CASE RelayDigest
  BY <1>5, ResultsStay DEF RelayDigest, FinishResult, runtimeVars
<1>6. CASE RelayClose
  BY <1>6, ResultsStay DEF RelayClose, WebSocketClose, runtimeVars, TypeOK, RelayTypeOK
<1>7. CASE RelayRestart
  BY <1>7, ResultsStay DEF RelayRestart, Restart, runtimeVars
<1>8. CASE RuntimeConnects
  BY <1>8, ResultsStay DEF RuntimeConnects, Connect
<1>9. CASE RuntimeHears
  <2> PICK c \in Conns : OnChallenge(c) \/ OnConnected(c) \/ OnJob(c)
    BY <1>9 DEF RuntimeHears
  <2>1. CASE OnChallenge(c)
    <3>1. \A d \in Conns : toRelay'[d].results \subseteq toRelay[d].results
      BY <2>1 DEF OnChallenge, TypeOK, RelayTypeOK
    <3>2. QED
      BY <2>1, <3>1, ResultsStay DEF OnChallenge, OnlyRuntime
  <2>2. CASE OnConnected(c)
    BY <2>2, ResultsFlushed DEF OnConnected, OnlyRuntime, TypeOK, RuntimeTypeOK, ResultsInv
  <2>3. CASE OnJob(c)
    <3> PICK j \in Jobs : Heard(c, j)
      BY <2>3, OnJobHeard
    <3>1. CASE UNCHANGED <<jobs, toRelay, executions>>
      BY <3>1, ResultsStay DEF Heard, OnlyRuntime
    <3>2. CASE FlushOver(jobs, {j}) /\ UNCHANGED executions
      <4>1. {j} \in SUBSET Jobs
        OBVIOUS
      <4>2. QED
        BY <3>2, <4>1, ResultsFlushed DEF Heard, OnlyRuntime, TypeOK, RuntimeTypeOK, ResultsInv
    <3>3. CASE /\ jobs' = [jobs EXCEPT ![j] = [NoRuntimeJob EXCEPT !.known = TRUE, !.origin = c,
                                                 !.phase = "delivered", !.executing = TRUE]]
               /\ executions' = [executions EXCEPT ![j] = @ + 1]
               /\ UNCHANGED toRelay
      <4>1. digesting' = digesting
        BY DEF Heard, OnlyRuntime
      <4>2. \A i \in Jobs : executions'[i] \in Nat /\ executions'[i] >= executions[i]
        BY <3>3 DEF TypeOK, RuntimeTypeOK
      <4>3. executions'[j] >= 1
        BY <3>3 DEF TypeOK, RuntimeTypeOK
      <4>4. \A i \in Jobs : executions[i] \in Nat /\ (executions[i] >= 1 => executions'[i] >= 1)
        BY <4>2 DEF TypeOK, RuntimeTypeOK
      <4>5. \A i \in Jobs \ {j} : jobs'[i] = jobs[i]
        BY <3>3 DEF TypeOK, RuntimeTypeOK
      <4>6. \A d \in Conns : \A r \in toRelay[d].results : r[1] \in Jobs
        BY DEF TypeOK, RelayTypeOK
      <4>7. \A w \in digesting : w.job \in Jobs
        BY DEF TypeOK, RelayTypeOK, Digesting
      <4>8. QED
        BY <3>3, <4>1, <4>3, <4>4, <4>5, <4>6, <4>7 DEF ResultsInv
    <3>4. QED
      BY <3>1, <3>2, <3>3 DEF Heard
  <2>4. QED
    BY <2>1, <2>2, <2>3
<1>10. CASE RuntimeReturns
  <2> PICK j \in Jobs : ExecuteReturns(j)
    BY <1>10 DEF RuntimeReturns
  <2> DEFINE rj == [jobs EXCEPT ![j].executing = FALSE, ![j].result = executions[j]]
  <2>1. rj \in [Jobs -> RuntimeJob]
    <3>1. jobs[j] \in RuntimeJob /\ executions[j] \in Nat
      BY DEF TypeOK, RuntimeTypeOK
    <3>2. [jobs[j] EXCEPT !.executing = FALSE, !.result = executions[j]] \in RuntimeJob
      BY <3>1 DEF RuntimeJob
    <3>3. rj = [jobs EXCEPT ![j] = [jobs[j] EXCEPT !.executing = FALSE, !.result = executions[j]]]
      BY DEF TypeOK, RuntimeTypeOK
    <3> HIDE DEF rj
    <3>4. QED
      BY <3>2, <3>3 DEF TypeOK, RuntimeTypeOK
  <2>2. /\ jobs[j].known
        /\ FlushOver(rj, {j}) \/ (jobs' = rj /\ UNCHANGED toRelay)
        /\ executions' = executions /\ digesting' = digesting
    BY DEF ExecuteReturns, OnlyRuntime
  <2>3. \A i \in Jobs : (rj[i].known \/ rj[i].result # 0) => executions[i] >= 1
    BY <2>2 DEF ResultsInv, TypeOK, RuntimeTypeOK, RuntimeJob
  <2>4. {j} \in SUBSET Jobs
    OBVIOUS
  <2> HIDE DEF rj
  <2>5. QED
    BY <2>1, <2>2, <2>3, <2>4, ResultsFlushed
<1>11. CASE RuntimeExpires \/ RuntimeLoses
  <2>1. \A j \in Jobs : jobs'[j].known = jobs[j].known /\ jobs'[j].result = jobs[j].result
    BY <1>11 DEF RuntimeExpires, ExpiryTimer, RuntimeLoses, OnClose, TypeOK, RuntimeTypeOK, RuntimeJob
  <2>2. UNCHANGED <<executions, toRelay, digesting>>
    BY <1>11 DEF RuntimeExpires, ExpiryTimer, RuntimeLoses, OnClose, OnlyRuntime
  <2>3. QED
    BY <2>1, <2>2 DEF ResultsInv
<1>12. CASE RuntimeRestarts
  BY <1>12 DEF RuntimeRestarts, RuntimeRestart, OnlyRuntime, NoRuntimeJob, ResultsInv
<1>13. CASE UNCHANGED vars
  BY <1>13, ResultsStay DEF vars, relayVars, runtimeVars
<1>14. QED
  BY <1>1, <1>2, <1>3, <1>4, <1>5, <1>6, <1>7, <1>8, <1>9, <1>10, <1>11, <1>12, <1>13 DEF Next

\* At first there is no result.
LEMMA ResultsInit == Init => ResultsInv
BY DEF Init, RelayInit, RuntimeInit, ResultsInv, NoRuntimeJob

\* A result anywhere is of an execution, in every reachable state.
LEMMA Results == Spec => []ResultsInv
BY ResultsInit, ResultsStep, Types, PTL DEF Spec

\* Where no dispatch loses its object while it waits.
UsedAsHosted == RelayRestarts = FALSE

\* What the delivery promise sees of the counts and of the answers.
FreshExecutions == [i \in Fresh |-> executions[i]]
FreshTold       == [i \in Fresh |-> told[i]]

\* An answer to one source shows in the promise only if its job is fresh.
LEMMA FreshAnswer ==
  ASSUME TypeOK, NEW j \in Jobs, NEW answer,
         told' = told \/ told' = [told EXCEPT ![j] = @ \cup {answer}]
  PROVE  \/ FreshTold' = FreshTold
         \/ j \in Fresh /\ FreshTold' = [FreshTold EXCEPT ![j] = @ \cup {answer}]
<1>1. told \in [Jobs -> SUBSET Answer] /\ Fresh \subseteq Jobs
  BY DEF TypeOK, RelayTypeOK, Fresh
<1>2. CASE told' = told
  BY <1>2 DEF FreshTold
<1>3. CASE told' = [told EXCEPT ![j] = @ \cup {answer}] /\ j \in Fresh
  BY <1>1, <1>3 DEF FreshTold
<1>4. CASE told' = [told EXCEPT ![j] = @ \cup {answer}] /\ j \notin Fresh
  <2>1. \A i \in Fresh : told'[i] = told[i]
    BY <1>1, <1>4
  <2>2. QED
    BY <2>1 DEF FreshTold
<1>5. QED
  BY <1>2, <1>3, <1>4

\* Every step is a step or a stutter of the promise.
LEMMA PromiseStep ==
  ASSUME UsedAsHosted, TypeOK, FreshInv, ResultsInv, [Next]_vars
  PROVE  [Promise!Next]_(Promise!vars)
<1> DEFINE Promised == [Promise!Next]_(Promise!vars)
<1>1. ASSUME UNCHANGED <<handed \cap Fresh, FreshExecutions, FreshTold>>
      PROVE  Promised
  BY <1>1 DEF Promise!vars, FreshExecutions, FreshTold
<1>2. ASSUME UNCHANGED <<handed, executions, told>>
      PROVE  Promised
  BY <1>1, <1>2 DEF FreshExecutions, FreshTold
<1>3. ASSUME UNCHANGED executions
      PROVE  FreshExecutions' = FreshExecutions
  BY <1>3 DEF FreshExecutions
<1>4. Fresh \subseteq Jobs
  BY DEF Fresh
<1>5. ASSUME NEW j \in Jobs, executions' = executions,
             told' = told \/ told' = [told EXCEPT ![j] = @ \cup {"delivered-ambiguous"}],
             handed' = handed \/ handed' = handed \cup {j}
      PROVE  Promised
  <2>1. FreshExecutions' = FreshExecutions
    BY <1>3, <1>5
  <2>2. \/ FreshTold' = FreshTold
        \/ /\ j \in Fresh
           /\ FreshTold' = [FreshTold EXCEPT ![j] = @ \cup {"delivered-ambiguous"}]
    BY <1>5, FreshAnswer
  <2>3. CASE j \notin Fresh
    BY <1>1, <1>5, <2>1, <2>2, <2>3
  <2>4. CASE j \in Fresh /\ FreshTold' = FreshTold
    <3>1. handed' \cap Fresh \in {handed \cap Fresh, (handed \cap Fresh) \cup {j}}
      BY <1>5, <2>4
    <3>2. QED
      BY <1>1, <2>1, <2>4, <3>1 DEF Promise!Next, Promise!HandOver, FreshExecutions, FreshTold
  <2>5. CASE /\ j \in Fresh
             /\ FreshTold' = [FreshTold EXCEPT ![j] = @ \cup {"delivered-ambiguous"}]
    <3>1. handed' \cap Fresh \in {handed \cap Fresh, (handed \cap Fresh) \cup {j}}
      BY <1>5, <2>5
    <3>2. QED
      BY <2>1, <2>5, <3>1 DEF Promise!Next, Promise!TellAmbiguous, FreshExecutions, FreshTold
  <2>6. QED
    BY <2>2, <2>3, <2>4, <2>5
<1>6. ASSUME NEW j \in Jobs, executions' = executions, handed' = handed,
             told' = told \/ told' = [told EXCEPT ![j] = @ \cup {"unavailable"}],
             j \in Fresh => j \notin handed
      PROVE  Promised
  <2>1. FreshExecutions' = FreshExecutions
    BY <1>3, <1>6
  <2>2. CASE FreshTold' = FreshTold
    BY <1>1, <1>6, <2>1, <2>2
  <2>3. CASE j \in Fresh /\ FreshTold' = [FreshTold EXCEPT ![j] = @ \cup {"unavailable"}]
    BY <1>6, <2>1, <2>3 DEF Promise!Next, Promise!TellUnavailable, FreshExecutions, FreshTold
  <2>4. QED
    BY <1>6, <2>2, <2>3, FreshAnswer
<1>7. ASSUME NEW j \in Jobs, NEW src, Received(j, src), executions' = executions,
             j \in Fresh => j \notin handed
      PROVE  Promised
  BY <1>5, <1>6, <1>7 DEF Received
<1>8. CASE Callers
  <2> PICK j \in Jobs : Dispatch(j) \/ CallerTimeout(j) \/ ClientSends(j) \/ ClientLeaves(j)
    BY <1>8 DEF Callers
  <2>1. CASE Dispatch(j)
    <3>1. /\ Received(j, [source EXCEPT ![j] = "pending"])
          /\ executions' = executions /\ source[j] = "none"
      BY <2>1, DispatchType DEF Dispatch, InternalDispatchRequest, TypeOK, runtimeVars
    <3>2. j \in Fresh => j \notin handed
      BY <3>1 DEF FreshInv
    <3>3. QED
      BY <1>7, <3>1, <3>2
  <2>2. CASE CallerTimeout(j)
    <3>1. /\ executions' = executions /\ handed' = handed
          /\ told' = [told EXCEPT ![j] = @ \cup {"delivered-ambiguous"}]
      BY <2>2 DEF CallerTimeout, runtimeVars
    <3>2. QED
      BY <1>5, <3>1
  <2>3. CASE ClientSends(j)
    <3>1. /\ Received(j, [source EXCEPT ![j] = "client"])
          /\ executions' = executions /\ j \in SocketClients
      BY <2>3, ClientJobType DEF ClientSends, ClientJob, TypeOK, runtimeVars
    <3>2. j \notin Fresh
      BY <3>1 DEF Fresh
    <3>3. QED
      BY <1>7, <3>1, <3>2
  <2>4. CASE ClientLeaves(j)
    BY <1>2, <2>4 DEF ClientLeaves, runtimeVars
  <2>5. QED
    BY <2>1, <2>2, <2>3, <2>4
<1>9. CASE RelayFetch \/ RelayAdmit \/ RelayResult \/ RelayClose \/ RelayAlarm \/ RelayUnload \/ Time
  BY <1>2, <1>9
     DEF RelayFetch, Fetch, RelayAdmit, AdmitRuntime, RelayResult, ReceiveResult, RelayClose,
         WebSocketClose, RelayAlarm, Alarm, RelayUnload, Hibernate, Time, Tick, relayVars,
         runtimeVars
<1>10. CASE RelayDigest
  <2> PICK w \in digesting :
         /\ \/ told' = told
            \/ told' = [told EXCEPT ![w.job] = @ \cup {"result"}]
         /\ handed' = handed /\ executions' = executions
    BY <1>10 DEF RelayDigest, FinishResult, Send, NoAnswer, runtimeVars
  <2>1. w.job \in Jobs
    BY DEF TypeOK, RelayTypeOK, Digesting
  <2>2. FreshExecutions' = FreshExecutions
    BY <1>3
  <2>3. CASE FreshTold' = FreshTold
    BY <1>1, <2>2, <2>3
  <2>4. CASE w.job \in Fresh /\ FreshTold' = [FreshTold EXCEPT ![w.job] = @ \cup {"result"}]
    <3>1. FreshExecutions[w.job] = 1
      BY <2>1, <2>4 DEF FreshInv, ResultsInv, FreshExecutions, TypeOK, RuntimeTypeOK
    <3>2. QED
      BY <2>2, <2>4, <3>1 DEF Promise!Next, Promise!TellResult, FreshExecutions, FreshTold
  <2>5. QED
    BY <2>1, <2>3, <2>4, FreshAnswer
<1>11. CASE RelayRestart
  BY <1>11 DEF RelayRestart, UsedAsHosted
<1>12. CASE RuntimeHears
  <2> PICK c \in Conns : OnChallenge(c) \/ OnConnected(c) \/ OnJob(c)
    BY <1>12 DEF RuntimeHears
  <2>1. CASE OnChallenge(c) \/ OnConnected(c)
    BY <1>2, <2>1 DEF OnChallenge, OnConnected, OnlyRuntime
  <2>2. CASE OnJob(c)
    <3> PICK j \in Jobs : Heard(c, j)
      BY <2>2, OnJobHeard
    <3>1. told' = told /\ handed' = handed
      BY DEF Heard, OnlyRuntime
    <3>2. FreshTold' = FreshTold
      BY <3>1 DEF FreshTold
    <3>3. executions' = executions \/ executions' = [executions EXCEPT ![j] = @ + 1]
      BY DEF Heard
    <3>4. executions \in [Jobs -> Nat]
      BY DEF TypeOK, RuntimeTypeOK
    <3>5. CASE executions' = executions
      BY <1>2, <3>1, <3>5
    <3>6. CASE executions' = [executions EXCEPT ![j] = @ + 1] /\ j \notin Fresh
      <4>1. \A i \in Fresh : executions'[i] = executions[i]
        BY <1>4, <3>4, <3>6
      <4>2. FreshExecutions' = FreshExecutions
        BY <4>1 DEF FreshExecutions
      <4>3. QED
        BY <1>1, <3>1, <3>2, <4>2
    <3>7. CASE executions' = [executions EXCEPT ![j] = @ + 1] /\ j \in Fresh
      <4>1. j \in handed /\ executions[j] = 0
        BY <3>7 DEF Heard, FreshInv
      <4>2. FreshExecutions' = [FreshExecutions EXCEPT ![j] = 1]
        <5>1. executions'[j] = 1 /\ \A i \in Fresh \ {j} : executions'[i] = executions[i]
          BY <1>4, <3>4, <3>7, <4>1
        <5>2. QED
          BY <3>7, <5>1 DEF FreshExecutions
      <4>3. QED
        BY <3>1, <3>2, <3>7, <4>1, <4>2
           DEF Promise!Next, Promise!Execute, FreshExecutions, FreshTold
    <3>8. QED
      BY <3>3, <3>5, <3>6, <3>7
  <2>3. QED
    BY <2>1, <2>2
<1>13. CASE RuntimeConnects \/ RuntimeReturns \/ RuntimeExpires \/ RuntimeLoses \/ RuntimeRestarts
  BY <1>2, <1>13
     DEF RuntimeConnects, Connect, RuntimeReturns, ExecuteReturns, RuntimeExpires, ExpiryTimer,
         RuntimeLoses, OnClose, RuntimeRestarts, RuntimeRestart, OnlyRuntime
<1>14. CASE UNCHANGED vars
  BY <1>2, <1>14 DEF vars, relayVars, runtimeVars
<1>15. QED
  BY <1>8, <1>9, <1>10, <1>11, <1>12, <1>13, <1>14 DEF Next

\* The initial states are those of the promise.
LEMMA PromiseInit == Init => Promise!Init
BY DEF Init, RelayInit, RuntimeInit, Promise!Init, Fresh

\* The relay and the Runtime together implement the delivery promise for every
\* fresh job, whatever repeated ids do beside it: at most one execution, results
\* only of executions, and "unavailable" only of jobs that were not handed over.
THEOREM SystemKeepsPromise == ASSUME UsedAsHosted PROVE Spec => KeepsPromise
<1>1. TypeOK /\ FreshInv /\ ResultsInv /\ [Next]_vars
        => [Promise!Next]_(Promise!vars)
  BY PromiseStep
<1>2. QED
  BY <1>1, PromiseInit, Types, FreshJobs, Results, PTL
     DEF Spec, KeepsPromise, Promise!Spec, FreshExecutions, FreshTold
=============================================================================
