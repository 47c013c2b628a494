------------------------- MODULE RelayEvidenceProofs -------------------------
(***************************************************************************)
(* Proofs about the records of RelaySystem: how many there are, that what   *)
(* they say is never taken back although results are saved from records     *)
(* read before an await, and that no generation is given out twice.         *)
(***************************************************************************)
EXTENDS RelayProofs, FiniteSetTheorems

-----------------------------------------------------------------------------
(* What a step may do to a record. *)

\* Two records of one use of a job id: nothing but the state may differ.
SameUse(r, s) ==
  /\ r.kept /\ s.kept
  /\ r.generation = s.generation
  /\ r.deadlineAt = s.deadlineAt /\ r.retainedUntil = s.retainedUntil

\* s is r after its socket closed or its deadline passed.
Ages(r, s) ==
  /\ SameUse(r, s)
  /\ \/ s.state = r.state
     \/ Unsent(r.state.phase) /\ s.state.phase \in {"unavailable", "expired"}
     \/ InTransit(r.state.phase) /\ s.state.phase = "possibly-delivered"

\* s is what is left of r at this time if nothing new is learnt.
Fades(r, s) ==
  \/ s = r
  \/ Ages(r, s)
  \/ r.kept /\ clock >= r.retainedUntil /\ s = NoRecord

AllFade == \A i \in Jobs : Fades(record[i], record'[i])

\* A disconnect or a deadline ages a record.
LEMMA EventAges ==
  ASSUME NEW r \in StoredJobRecord, r.kept, NEW type \in {"disconnect", "expire"}
  PROVE  Ages(r, WithEvent(r, type))
<1> DEFINE s == ApplyRelayDeliveryEvent(r.state, type, NoDigest)
<1>1. r.state.phase \in RelayDeliveryPhase
  BY DEF StoredJobRecord, RelayDeliveryState
<1>2. \/ s = r.state
      \/ Unsent(r.state.phase) /\ s.phase \in {"unavailable", "expired"}
      \/ InTransit(r.state.phase) /\ s.phase = "possibly-delivered"
  BY <1>1 DEF ApplyRelayDeliveryEvent, Applies, CreateState, NextPhase, Unsent, InTransit,
              RelayDeliveryPhase, IsTerminal
<1> HIDE DEF s
<1>3. WithEvent(r, type) = [r EXCEPT !.state = s]
  BY DEF WithEvent, s
<1>4. QED
  BY <1>2, <1>3 DEF Ages, SameUse, StoredJobRecord

\* A record that aged and then fades has faded.
LEMMA FadesAfterAges ==
  ASSUME NEW r, NEW s, NEW t, s = r \/ Ages(r, s), Fades(s, t)
  PROVE  Fades(r, t)
<1>1. CASE s = r
  BY <1>1
<1>2. CASE Ages(r, s) /\ t = s
  BY <1>2 DEF Fades
<1>3. CASE Ages(r, s) /\ Ages(s, t)
  <2>1. SameUse(r, t)
    BY <1>3 DEF Ages, SameUse
  <2>2. \/ t.state = r.state
        \/ Unsent(r.state.phase) /\ t.state.phase \in {"unavailable", "expired"}
        \/ InTransit(r.state.phase) /\ t.state.phase = "possibly-delivered"
    BY <1>3 DEF Ages, Unsent, InTransit
  <2>3. QED
    BY <2>1, <2>2 DEF Fades, Ages
<1>4. CASE Ages(r, s) /\ s.kept /\ clock >= s.retainedUntil /\ t = NoRecord
  BY <1>4 DEF Fades, Ages, SameUse
<1>5. QED
  BY <1>1, <1>2, <1>3, <1>4 DEF Fades

\* Reaping lets every record fade.
LEMMA ReapFades ==
  ASSUME NEW rec \in [Jobs -> StoredJobRecord], NEW i \in Jobs
  PROVE  Fades(rec[i], Reap(rec, clock)[i])
<1>1. CASE rec[i].kept /\ clock >= rec[i].retainedUntil
  BY <1>1 DEF Reap, Fades
<1>2. CASE ~(rec[i].kept /\ clock >= rec[i].retainedUntil) /\ Overdue(rec[i], clock)
  <2>1. Ages(rec[i], WithEvent(rec[i], "expire"))
    BY <1>2, EventAges DEF Overdue
  <2>2. QED
    BY <1>2, <2>1 DEF Reap, Fades
<1>3. CASE ~(rec[i].kept /\ clock >= rec[i].retainedUntil) /\ ~Overdue(rec[i], clock)
  BY <1>3 DEF Reap, Fades
<1>4. QED
  BY <1>1, <1>2, <1>3

\* A disconnect ages the records of the jobs that were sent over a socket.
LEMMA DisconnectAges ==
  ASSUME record \in [Jobs -> StoredJobRecord], NEW js, \A j \in js : record[j].kept,
         NEW i \in Jobs
  PROVE  DisconnectJobs(js)[i] = record[i] \/ Ages(record[i], DisconnectJobs(js)[i])
BY EventAges DEF DisconnectJobs

\* receiveJob with an answer or a hand-over creates the record of its job, if any.
Creates(j) ==
  /\ ~record[j].kept /\ ~AtLimit(Reap(record, clock))
  /\ record'[j].kept
  /\ record' = [Reap(record, clock) EXCEPT ![j] = record'[j]]
  /\ \/ record'[j].state.phase = "unavailable" /\ UNCHANGED <<toRuntime, handed>>
     \/ /\ record'[j].state.phase \in {"delivered", "possibly-delivered"}
        /\ handed' = handed \cup {j}
        /\ \E c \in Conns :
             /\ IsOpen(c) /\ conn[c].authenticated
             /\ record'[j].generation = conn[c].generation
             /\ toRuntime' = Frames(c, [toRuntime[c] EXCEPT !.jobs = @ \cup {j}])

\* The record that receiveJob creates: what it says, and that it is kept.
LEMMA NewRecordSays ==
  ASSUME NEW g
  PROVE  /\ NewRecord("disconnect", g).kept /\ NewRecord("deliver", g).kept
         /\ NewRecord("disconnect", g).state.phase = "unavailable"
         /\ NewRecord("deliver", g).state.phase = "delivered"
         /\ NewRecord("disconnect", g).generation = g
         /\ NewRecord("deliver", g).generation = g
         /\ WithEvent(NewRecord("deliver", g), "disconnect").kept
         /\ WithEvent(NewRecord("deliver", g), "disconnect").generation = g
         /\ WithEvent(NewRecord("deliver", g), "disconnect").state.phase = "possibly-delivered"
BY DEF NewRecord, WithEvent, ApplyRelayDeliveryEvent, CreateRelayDeliveryState, CreateState,
       Applies, NextPhase, Unsent, InTransit, IsTerminal, NoDigest

\* receiveJob begins a new use of an id, or leaves the records as they are.
LEMMA ReceiveJobRecords ==
  ASSUME TypeOK, NEW j \in Jobs, NEW src, ReceiveJob(j, src)
  PROVE  AllFade \/ Creates(j)
<1> DEFINE rec == Reap(record, clock)
<1>1. record \in [Jobs -> StoredJobRecord]
  BY DEF TypeOK, RelayTypeOK
<1>2. rec \in [Jobs -> StoredJobRecord]
  BY <1>1, ReapType
<1>3. record' = record \/ record' = rec => AllFade
  BY <1>1, ReapFades DEF AllFade, Fades
<1>4. rec = Reap(record, clock)
  OBVIOUS
<1> HIDE DEF rec
<1>5. ASSUME ~record[j].kept, ~AtLimit(rec), NEW g, AnswerUnavailable(rec, j, src, g)
      PROVE  AllFade \/ Creates(j)
  <2> DEFINE r == NewRecord("disconnect", g)
  <2>1. UNCHANGED <<toRuntime, handed>>
    BY <1>5 DEF AnswerUnavailable
  <2>2. r.kept /\ r.state.phase = "unavailable"
    BY NewRecordSays
  <2>3. SaveRecord(rec, j, r) \/ record' = rec
    BY <1>5 DEF AnswerUnavailable
  <2> HIDE DEF r
  <2>4. CASE SaveRecord(rec, j, r)
    <3>1. record' = [rec EXCEPT ![j] = r] /\ record'[j] = r
      BY <1>2, <2>4 DEF SaveRecord
    <3>2. QED
      BY <1>4, <1>5, <2>1, <2>2, <3>1 DEF Creates
  <2>5. QED
    BY <1>3, <2>3, <2>4
<1>6. ASSUME ~record[j].kept, ~AtLimit(rec), NEW c \in Targets(j), HandOver(rec, j, src, c)
      PROVE  AllFade \/ Creates(j)
  <2> DEFINE r == NewRecord("deliver", conn[c].generation)
             s == WithEvent(r, "disconnect")
  <2>1. c \in Conns /\ IsOpen(c) /\ conn[c].authenticated
    BY DEF Targets, IsCurrentRuntime
  <2>2. /\ toRuntime' = Frames(c, [toRuntime[c] EXCEPT !.jobs = @ \cup {j}])
        /\ handed' = handed \cup {j}
    BY <1>6 DEF HandOver
  <2>3. /\ r.kept /\ r.state.phase = "delivered" /\ r.generation = conn[c].generation
        /\ s.kept /\ s.state.phase = "possibly-delivered" /\ s.generation = conn[c].generation
    BY NewRecordSays
  <2>4. SaveRecord(rec, j, r) \/ SaveRecord(rec, j, s) \/ record' = rec
    BY <1>6 DEF HandOver
  <2> HIDE DEF r, s
  <2>5. ASSUME NEW t, t = r \/ t = s, SaveRecord(rec, j, t)
        PROVE  Creates(j)
    <3>1. record' = [rec EXCEPT ![j] = t] /\ record'[j] = t
      BY <1>2, <2>5 DEF SaveRecord
    <3>2. QED
      BY <1>4, <1>6, <2>1, <2>2, <2>3, <2>5, <3>1 DEF Creates
  <2>6. QED
    BY <1>3, <2>4, <2>5
<1>7. QED
  BY <1>3, <1>4, <1>5, <1>6 DEF ReceiveJob
-----------------------------------------------------------------------------
(* The steps, by what they do to the records. *)

\* receiveResult takes a result of the current socket to wait for its digest, if
\* the record is of this socket.
Waits(c, r) ==
  /\ IsOpen(c) /\ conn[c].authenticated
  /\ record[r[1]].kept /\ record[r[1]].generation = conn[c].generation
  /\ digesting' = digesting \cup {[conn |-> c, job |-> r[1], digest |-> r[2],
                                   snapshot |-> record[r[1]]]}
  /\ conn' = conn

\* receiveResult takes one result and refuses it or waits for its digest.
LEMMA ResultSteps ==
  ASSUME RelayResult
  PROVE  \E c \in Conns : \E r \in toRelay[c].results :
           /\ toRelay' = [toRelay EXCEPT ![c].results = @ \ {r}]
           /\ (digesting' = digesting /\ conn' \in {conn, ClosedByRelay(conn, {c})}) \/ Waits(c, r)
           /\ UNCHANGED <<clock, record, toRuntime, source, handed, runtimeVars>>
BY DEF RelayResult, ReceiveResult, Waits, MatchesRecord

\* What receiveResult saves when the digest is there.
WithResult(w) ==
  [w.snapshot EXCEPT !.state = ApplyRelayDeliveryEvent(w.snapshot.state, "result", w.digest)]

\* When the digest is there, one record is written, or none.
LEMMA DigestSteps ==
  ASSUME RelayDigest
  PROVE  \E w \in digesting :
           /\ digesting' = digesting \ {w}
           /\ record' = record \/ record' = [record EXCEPT ![w.job] = WithResult(w)]
           /\ UNCHANGED <<clock, conn, toRuntime, toRelay, handed, runtimeVars>>
BY DEF RelayDigest, FinishResult, SaveRecord, WithResult

\* The result is of the use of the id that the record was read in, and terminal
\* unless the job had expired.
LEMMA WithResultSays ==
  ASSUME NEW w \in Digesting, w.snapshot.kept
  PROVE  /\ WithResult(w) \in StoredJobRecord
         /\ SameUse(w.snapshot, WithResult(w))
         /\ \/ /\ WithResult(w).state = [phase |-> "terminal-result", digest |-> w.digest]
               /\ w.snapshot.state.phase \notin {"expired", "terminal-result"}
            \/ /\ WithResult(w).state = w.snapshot.state
               /\ w.snapshot.state.phase \in {"expired", "terminal-result"}
<1> DEFINE s == ApplyRelayDeliveryEvent(w.snapshot.state, "result", w.digest)
<1>1. w.snapshot \in StoredJobRecord /\ w.snapshot.state \in RelayDeliveryState
      /\ w.digest \in Nat \ {NoDigest}
  BY DEF Digesting, StoredJobRecord
<1>2. s \in RelayDeliveryState
  BY <1>1, ApplyType DEF RelayDeliveryEventType
<1>3. NextPhase(w.snapshot.state.phase, "result") = "terminal-result"
  BY <1>1, NextPhaseType DEF RelayDeliveryState, RelayDeliveryEventType
<1>4. \/ /\ s = [phase |-> "terminal-result", digest |-> w.digest]
         /\ w.snapshot.state.phase \notin {"expired", "terminal-result"}
      \/ s = w.snapshot.state /\ w.snapshot.state.phase \in {"expired", "terminal-result"}
  BY <1>3 DEF ApplyRelayDeliveryEvent, Applies, IsTerminal, CreateState
<1> HIDE DEF s
<1>5. WithResult(w) = [w.snapshot EXCEPT !.state = s]
  BY DEF WithResult, s
<1>6. QED
  BY <1>1, <1>2, <1>4, <1>5 DEF SameUse, StoredJobRecord

\* Every step creates, ages, reaps or saves a record, or leaves it.
LEMMA RecordSteps ==
  ASSUME TypeOK, [Next]_vars
  PROVE  \/ AllFade /\ digesting' \subseteq digesting /\ clock' \in {clock, clock + 1}
         \/ \E j \in Jobs : /\ Creates(j) /\ (j \in Fresh => source[j] = "none")
                            /\ UNCHANGED <<clock, conn, digesting, toRelay, runtimeVars>>
         \/ RelayResult
         \/ RelayDigest
<1> DEFINE Passes == AllFade /\ digesting' \subseteq digesting /\ clock' \in {clock, clock + 1}
<1>1. record \in [Jobs -> StoredJobRecord]
  BY DEF TypeOK, RelayTypeOK
<1>2. UNCHANGED record => AllFade
  BY DEF AllFade, Fades
<1>3. ASSUME UNCHANGED <<clock, record, digesting>> PROVE Passes
  BY <1>2, <1>3
<1>4. CASE Callers
  <2> PICK j \in Jobs : Dispatch(j) \/ CallerTimeout(j) \/ ClientSends(j) \/ ClientLeaves(j)
    BY <1>4 DEF Callers
  <2>1. CASE Dispatch(j) \/ ClientSends(j)
    <3>1. /\ UNCHANGED <<clock, conn, digesting, toRelay, runtimeVars>>
          /\ j \in Fresh => source[j] = "none"
          /\ \E src : ReceiveJob(j, src)
      BY <2>1 DEF Dispatch, InternalDispatchRequest, ClientSends, ClientJob, Fresh
    <3>2. AllFade \/ Creates(j)
      BY <3>1, ReceiveJobRecords
    <3>3. QED
      BY <3>1, <3>2
  <2>2. CASE CallerTimeout(j) \/ ClientLeaves(j)
    BY <1>3, <2>2 DEF CallerTimeout, ClientLeaves
  <2>3. QED
    BY <2>1, <2>2
<1>5. CASE RelayFetch \/ RelayAdmit \/ RelayUnload
  BY <1>3, <1>5 DEF RelayFetch, Fetch, RelayAdmit, AdmitRuntime, RelayUnload, Hibernate
<1>6. CASE RelayRestart
  BY <1>2, <1>6 DEF RelayRestart, Restart
<1>7. CASE RelayClose
  <2> PICK c \in Conns : WebSocketClose(c)
    BY <1>7 DEF RelayClose
  <2>1. \A j \in SentOver(c) : record[j].kept
    BY DEF SentOver
  <2>2. record' = record \/ record' = DisconnectJobs(SentOver(c))
    BY DEF WebSocketClose
  <2>3. AllFade
    BY <1>1, <1>2, <2>1, <2>2, DisconnectAges DEF AllFade, Fades
  <2>4. QED
    BY <2>3 DEF WebSocketClose
<1>8. CASE RelayAlarm
  <2> DEFINE closed == UNION {SentOver(c) : c \in {d \in GetWebSockets : Expired(d)}}
             rec == DisconnectJobs(closed)
  <2>1. record' = Reap(rec, clock) /\ UNCHANGED <<clock, digesting>>
    BY <1>8 DEF RelayAlarm, Alarm
  <2>2. \A j \in closed : record[j].kept
    BY DEF SentOver
  <2>3. rec \in [Jobs -> StoredJobRecord]
    BY <1>1, DisconnectJobsType
  <2>4. \A i \in Jobs : rec[i] = record[i] \/ Ages(record[i], rec[i])
    BY <1>1, <2>2, DisconnectAges
  <2> HIDE DEF closed, rec
  <2>5. AllFade
    BY <2>1, <2>3, <2>4, ReapFades, FadesAfterAges DEF AllFade
  <2>6. QED
    BY <2>1, <2>5
<1>9. CASE RuntimeConnects \/ RuntimeReturns \/ RuntimeExpires \/ RuntimeLoses \/ RuntimeRestarts
  BY <1>3, <1>9
     DEF RuntimeConnects, Connect, RuntimeReturns, ExecuteReturns, RuntimeExpires, ExpiryTimer,
         RuntimeLoses, OnClose, RuntimeRestarts, RuntimeRestart, OnlyRuntime
<1>10. CASE RuntimeHears
  BY <1>3, <1>10 DEF RuntimeHears, OnChallenge, OnConnected, OnJob, OnlyRuntime
<1>11. CASE Time
  BY <1>2, <1>11 DEF Time, Tick, relayVars
<1>12. CASE UNCHANGED vars
  BY <1>3, <1>12 DEF vars, relayVars
<1>13. QED
  BY <1>4, <1>5, <1>6, <1>7, <1>8, <1>9, <1>10, <1>11, <1>12 DEF Next

-----------------------------------------------------------------------------
(* What waits for its digest is of the record that is kept. *)

InTime(w) == clock < w.snapshot.retainedUntil

\* For the jobs J: until its retention is over, the record a result was matched
\* with is kept, whatever happened to its state; a later one of a fresh job can
\* only be what a late result wrote again.
UsesInv(J) ==
  \A w \in digesting : w.job \in J =>
    /\ w.snapshot.kept
    /\ InTime(w) => record[w.job].kept
    /\ record[w.job].kept /\ (w.job \in Fresh \/ InTime(w)) => SameUse(w.snapshot, record[w.job])
    /\ \A v \in digesting : v.job = w.job => SameUse(v.snapshot, w.snapshot)

\* Being of the same use is an equivalence on records.
LEMMA SameUseIsEquivalence ==
  /\ \A r : r.kept => SameUse(r, r)
  /\ \A r, s : SameUse(r, s) => SameUse(s, r)
  /\ \A r, s, t : SameUse(r, s) /\ SameUse(s, t) => SameUse(r, t)
BY DEF SameUse

\* A record that fades is of the same use while it is kept, and kept in its time.
LEMMA FadesSameUse ==
  ASSUME TypeOK, NEW r \in StoredJobRecord, NEW s, Fades(r, s)
  PROVE  /\ s.kept => SameUse(r, s)
         /\ r.kept /\ clock < r.retainedUntil => s.kept
<1>1. clock < r.retainedUntil => ~(clock >= r.retainedUntil)
  BY DEF TypeOK, RelayTypeOK, StoredJobRecord, Times
<1>2. QED
  BY <1>1 DEF Fades, Ages, SameUse, NoRecord

\* At first no digest is awaited.
LEMMA UsesInit == ASSUME NEW J PROVE Init => UsesInv(J)
BY DEF Init, RelayInit, UsesInv

\* A job whose record is created has no result waiting: a fresh one was never sent,
\* and one of a client has a record as long as its results are in time.
LEMMA NothingWaits ==
  ASSUME TypeOK, FreshInv, ResultsInv, NEW J, J \subseteq Fresh \/ TimelyDigests, UsesInv(J),
         NEW j \in Jobs, ~record[j].kept, j \in Fresh => source[j] = "none",
         NEW w \in digesting, w.job \in J
  PROVE  w.job # j
<1> SUFFICES ASSUME w.job = j PROVE FALSE
  OBVIOUS
<1>1. CASE j \in Fresh
  <2>1. executions[j] = 0
    BY <1>1 DEF FreshInv
  <2>2. executions[w.job] >= 1
    BY DEF ResultsInv
  <2>3. QED
    BY <2>1, <2>2
<1>2. CASE j \notin Fresh
  <2>1. InTime(w)
    BY <1>2 DEF TimelyDigests, InTime, Fresh
  <2>2. QED
    BY <2>1 DEF UsesInv
<1>3. QED
  BY <1>1, <1>2

\* Every step keeps what waiting digests know of their records.
LEMMA UsesStep ==
  ASSUME TypeOK, FreshInv, ResultsInv, NEW J, J \subseteq Fresh \/ TimelyDigests, UsesInv(J),
         [Next]_vars
  PROVE  UsesInv(J)'
<1> DEFINE Use(w) == /\ w.snapshot.kept
                     /\ clock' < w.snapshot.retainedUntil => record'[w.job].kept
                     /\ record'[w.job].kept /\ (w.job \in Fresh \/ clock' < w.snapshot.retainedUntil)
                          => SameUse(w.snapshot, record'[w.job])
<1>1. ASSUME NEW w \in digesting
      PROVE  /\ w \in Digesting /\ w.job \in Jobs /\ w.snapshot.retainedUntil \in Nat
             /\ record[w.job] \in StoredJobRecord /\ clock \in Nat
  BY DEF TypeOK, RelayTypeOK, Digesting, StoredJobRecord, Times
<1>2. ASSUME NEW w \in digesting, w.job \in J, clock' \in {clock, clock + 1},
             Fades(record[w.job], record'[w.job])
      PROVE  Use(w)
  <2>1. clock' < w.snapshot.retainedUntil => InTime(w)
    BY <1>1, <1>2 DEF InTime
  <2>2. /\ record'[w.job].kept => SameUse(record[w.job], record'[w.job])
        /\ record[w.job].kept /\ clock < record[w.job].retainedUntil => record'[w.job].kept
    BY <1>1, <1>2, FadesSameUse
  <2>3. InTime(w) => record[w.job].kept /\ clock < record[w.job].retainedUntil
    BY <1>2 DEF UsesInv, InTime, SameUse
  <2>4. record'[w.job].kept /\ (w.job \in Fresh \/ InTime(w)) => SameUse(w.snapshot, record[w.job])
    BY <1>2, <2>2 DEF UsesInv, SameUse
  <2>5. QED
    BY <1>2, <2>1, <2>2, <2>3, <2>4, SameUseIsEquivalence DEF UsesInv
<1>3. ASSUME \A w \in digesting' : w.job \in J => w \in digesting /\ Use(w)
      PROVE  UsesInv(J)'
  BY <1>3 DEF UsesInv, InTime
<1> HIDE DEF Use
<1>4. CASE AllFade /\ digesting' \subseteq digesting /\ clock' \in {clock, clock + 1}
  BY <1>1, <1>2, <1>3, <1>4 DEF AllFade
<1>5. CASE \E j \in Jobs : /\ Creates(j) /\ (j \in Fresh => source[j] = "none")
                           /\ UNCHANGED <<clock, digesting>>
  <2> PICK j \in Jobs : /\ Creates(j) /\ (j \in Fresh => source[j] = "none")
                        /\ UNCHANGED <<clock, digesting>>
    BY <1>5
  <2>1. \A i \in Jobs \ {j} : Fades(record[i], record'[i])
    <3>1. /\ record \in [Jobs -> StoredJobRecord]
          /\ Reap(record, clock) \in [Jobs -> StoredJobRecord]
      BY ReapType DEF TypeOK, RelayTypeOK
    <3>2. record' = [Reap(record, clock) EXCEPT ![j] = record'[j]]
      BY DEF Creates
    <3>3. \A i \in Jobs \ {j} : record'[i] = Reap(record, clock)[i]
      BY <3>1, <3>2
    <3>4. QED
      BY <3>1, <3>3, ReapFades
  <2>2. \A w \in digesting : w.job \in J => w.job # j
    BY NothingWaits DEF Creates
  <2>3. QED
    BY <1>1, <1>2, <1>3, <2>1, <2>2
<1>6. CASE RelayResult
  <2> PICK c \in Conns : \E r \in toRelay[c].results :
             /\ digesting' = digesting \/ Waits(c, r)
             /\ UNCHANGED <<clock, record>>
    BY <1>6, ResultSteps
  <2> PICK r \in toRelay[c].results : /\ digesting' = digesting \/ Waits(c, r)
                                      /\ UNCHANGED <<clock, record>>
    OBVIOUS
  <2> DEFINE new == [conn |-> c, job |-> r[1], digest |-> r[2], snapshot |-> record[r[1]]]
  <2>1. \A w \in digesting : w.job \in J => Use(w)
    BY <1>2 DEF Fades
  <2>2. CASE digesting' = digesting
    BY <1>3, <2>1, <2>2
  <2>3. CASE Waits(c, r)
    <3>1. /\ digesting' = digesting \cup {new} /\ new.job = r[1] /\ new.snapshot = record[r[1]]
          /\ record[r[1]].kept
      BY <2>3 DEF Waits
    <3>2. new.snapshot.kept /\ SameUse(new.snapshot, record'[new.job]) /\ record'[new.job].kept
      BY <3>1, SameUseIsEquivalence
    <3>3. \A w \in digesting : w.job \in J /\ w.job = new.job => SameUse(w.snapshot, new.snapshot)
      BY <3>1 DEF UsesInv, TimelyDigests, InTime, Fresh, TypeOK, RelayTypeOK, Digesting
    <3> HIDE DEF new
    <3>4. \A w \in digesting' : w.job \in J => Use(w)
      BY <2>1, <3>1, <3>2 DEF Use
    <3>5. \A v, w \in digesting' : w.job \in J /\ v.job = w.job => SameUse(v.snapshot, w.snapshot)
      BY <3>1, <3>2, <3>3, SameUseIsEquivalence DEF UsesInv
    <3>6. QED
      BY <3>4, <3>5 DEF UsesInv, InTime, Use
  <2>4. QED
    BY <2>2, <2>3
<1>7. CASE RelayDigest
  <2> PICK u \in digesting :
             /\ digesting' = digesting \ {u}
             /\ record' = record \/ record' = [record EXCEPT ![u.job] = WithResult(u)]
             /\ UNCHANGED clock
    BY <1>7, DigestSteps
  <2>1. ASSUME NEW w \in digesting', w.job \in J, Fades(record[w.job], record'[w.job])
        PROVE  w \in digesting /\ Use(w)
    BY <1>2, <2>1
  <2>2. ASSUME NEW w \in digesting', w.job \in J, w.job = u.job,
               record' = [record EXCEPT ![u.job] = WithResult(u)]
        PROVE  w \in digesting /\ Use(w)
    <3>1. u.snapshot.kept /\ SameUse(u.snapshot, w.snapshot) /\ w.snapshot.kept
      BY <2>2 DEF UsesInv
    <3>2. record'[w.job] = WithResult(u)
      BY <1>1, <2>2 DEF TypeOK, RelayTypeOK
    <3>3. SameUse(u.snapshot, WithResult(u))
      BY <1>1, <3>1, WithResultSays
    <3>4. SameUse(w.snapshot, record'[w.job])
      BY <3>1, <3>2, <3>3, SameUseIsEquivalence
    <3>5. record'[w.job].kept
      BY <3>4 DEF SameUse
    <3>6. QED
      BY <3>1, <3>4, <3>5 DEF Use
  <2>3. ASSUME NEW w \in digesting', w.job # u.job \/ record' = record
        PROVE  Fades(record[w.job], record'[w.job])
    BY <1>1, <2>3 DEF Fades, TypeOK, RelayTypeOK
  <2>4. QED
    BY <1>3, <2>1, <2>2, <2>3
<1>8. QED
  BY <1>4, <1>5, <1>6, <1>7, RecordSteps

\* What waits for a digest of a fresh job is of the record that is kept.
LEMMA FreshUses == Spec => []UsesInv(Fresh)
<1>1. Init => UsesInv(Fresh)
  BY UsesInit
<1>2. TypeOK /\ FreshInv /\ ResultsInv /\ UsesInv(Fresh) /\ [Next]_vars => UsesInv(Fresh)'
  BY UsesStep
<1>3. QED
  BY <1>1, <1>2, Types, FreshJobs, Results, PTL DEF Spec

\* If digests are in time, so is what waits for that of a repeated id.
LEMMA AllUses == Spec /\ []TimelyDigests => []UsesInv(Jobs)
<1>1. Init => UsesInv(Jobs)
  BY UsesInit
<1>2. TypeOK /\ FreshInv /\ ResultsInv /\ TimelyDigests /\ UsesInv(Jobs) /\ [Next]_vars
        => UsesInv(Jobs)'
  BY UsesStep
<1>3. QED
  BY <1>1, <1>2, Types, FreshJobs, Results, PTL DEF Spec

-----------------------------------------------------------------------------
(* The records that are retained stay within the limits. *)

BoundedInv == IsFiniteSet(Retained(record)) /\ RetainedIsBounded

\* A subset of a finite set is finite and no larger.
LEMMA BoundedShrinks ==
  ASSUME BoundedInv, Retained(record)' \subseteq Retained(record),
         InFlight(record)' \subseteq InFlight(record)
  PROVE  BoundedInv'
<1>1. InFlight(record) \subseteq Retained(record)
  BY DEF InFlight
<1>2. IsFiniteSet(Retained(record)) /\ IsFiniteSet(InFlight(record))
  BY <1>1, FS_Subset DEF BoundedInv
<1>3. /\ IsFiniteSet(Retained(record)')
      /\ Cardinality(Retained(record)') <= Cardinality(Retained(record))
      /\ Cardinality(InFlight(record)') <= Cardinality(InFlight(record))
  BY <1>2, FS_Subset
<1>4. /\ Cardinality(Retained(record)') \in Nat /\ Cardinality(Retained(record)) \in Nat
      /\ Cardinality(InFlight(record)') \in Nat /\ Cardinality(InFlight(record)) \in Nat
  BY <1>2, FS_Subset, FS_CardinalityType
<1>5. MaxRetainedJobs \in Nat /\ MaxInFlightJobs \in Nat
  BY LimitsAssumption
<1>6. QED
  BY <1>3, <1>4, <1>5 DEF BoundedInv, RetainedIsBounded

\* A set below a limit takes one more element.
LEMMA OneMoreFits ==
  ASSUME NEW S, IsFiniteSet(S), NEW x, NEW limit \in Nat, Cardinality(S) < limit,
         NEW T \in SUBSET (S \cup {x})
  PROVE  IsFiniteSet(T) /\ Cardinality(T) <= limit
<1>1. /\ IsFiniteSet(S \cup {x}) /\ Cardinality(S) \in Nat
      /\ Cardinality(S \cup {x}) <= Cardinality(S) + 1
  BY FS_AddElement, FS_CardinalityType
<1>2. IsFiniteSet(T) /\ Cardinality(T) <= Cardinality(S \cup {x})
  BY <1>1, FS_Subset
<1>3. Cardinality(T) \in Nat /\ Cardinality(S \cup {x}) \in Nat
  BY <1>1, <1>2, FS_CardinalityType
<1>4. QED
  BY <1>1, <1>2, <1>3

\* A record that fades is retained or in flight only if it was.
LEMMA FadesShrinks ==
  ASSUME TypeOK, NEW r \in StoredJobRecord, NEW s \in StoredJobRecord, Fades(r, s),
         NEW now \in Nat, clock <= now, s.kept, s.retainedUntil > now
  PROVE  /\ r.kept /\ r.retainedUntil > clock
         /\ r.state.phase \in {"terminal-result", "expired", "cancelled", "unavailable"}
              => s.state.phase \in {"terminal-result", "expired", "cancelled", "unavailable"}
<1>1. SameUse(r, s)
  BY FadesSameUse
<1>2. clock \in Nat /\ r.retainedUntil \in Nat
  BY DEF TypeOK, RelayTypeOK, StoredJobRecord, Times
<1>3. s = r \/ Ages(r, s)
  BY DEF Fades, NoRecord
<1>4. QED
  BY <1>1, <1>2, <1>3 DEF SameUse, Ages, Unsent, InTransit

\* Every step keeps the limits: only admission adds a record, and it tests them.
LEMMA BoundedStep ==
  ASSUME TypeOK, TypeOK', UsesInv(Jobs), BoundedInv, [Next]_vars
  PROVE  BoundedInv'
<1>1. /\ record \in [Jobs -> StoredJobRecord] /\ record' \in [Jobs -> StoredJobRecord]
      /\ clock \in Nat
  BY DEF TypeOK, RelayTypeOK, Times
<1>2. CASE AllFade /\ clock' \in {clock, clock + 1}
  <2>1. clock' \in Nat /\ clock <= clock'
    BY <1>1, <1>2
  <2>2. \A i \in Jobs : i \in Retained(record)' => i \in Retained(record)
    BY <1>1, <1>2, <2>1, FadesShrinks DEF Retained, AllFade
  <2>3. \A i \in Jobs : i \in InFlight(record)' => i \in InFlight(record)
    BY <1>1, <1>2, <2>1, FadesShrinks DEF Retained, InFlight, AllFade
  <2>4. QED
    BY <2>2, <2>3, BoundedShrinks DEF Retained, InFlight
<1>3. CASE \E j \in Jobs : Creates(j) /\ clock' = clock
  <2> PICK j \in Jobs : Creates(j) /\ clock' = clock
    BY <1>3
  <2> DEFINE rec == Reap(record, clock)
  <2>1. rec \in [Jobs -> StoredJobRecord] /\ \A i \in Jobs : Fades(record[i], rec[i])
    BY <1>1, ReapType, ReapFades
  <2>2. record' = [rec EXCEPT ![j] = record'[j]] /\ ~AtLimit(rec)
    BY DEF Creates
  <2> HIDE DEF rec
  <2>3. Retained(rec) \subseteq Retained(record)
    BY <1>1, <2>1, FadesShrinks DEF Retained
  <2>4. \A i \in Jobs \ {j} : record'[i] = rec[i]
    BY <1>1, <2>1, <2>2
  <2>5. /\ Retained(record)' \subseteq Retained(rec) \cup {j}
        /\ InFlight(record)' \subseteq InFlight(rec) \cup {j}
    BY <2>4 DEF Retained, InFlight
  <2>6. /\ IsFiniteSet(Retained(rec)) /\ IsFiniteSet(InFlight(rec))
        /\ Cardinality(Retained(rec)) \in Nat /\ Cardinality(InFlight(rec)) \in Nat
    <3>1. InFlight(rec) \subseteq Retained(rec)
      BY DEF InFlight
    <3>2. QED
      BY <2>3, <3>1, FS_Subset, FS_CardinalityType DEF BoundedInv
  <2>7. /\ MaxRetainedJobs \in Nat /\ MaxInFlightJobs \in Nat
        /\ Cardinality(Retained(rec)) < MaxRetainedJobs
        /\ Cardinality(InFlight(rec)) < MaxInFlightJobs
    BY <2>2, <2>6, LimitsAssumption DEF AtLimit
  <2>8. QED
    BY <2>5, <2>6, <2>7, OneMoreFits DEF BoundedInv, RetainedIsBounded
<1>4. CASE RelayResult
  <2>1. UNCHANGED <<clock, record>>
    BY <1>4, ResultSteps
  <2>2. QED
    BY <2>1, BoundedShrinks DEF Retained, InFlight
<1>5. CASE RelayDigest
  <2> PICK w \in digesting :
             /\ record' = record \/ record' = [record EXCEPT ![w.job] = WithResult(w)]
             /\ clock' = clock
    BY <1>5, DigestSteps
  <2>1. w \in Digesting /\ w.job \in Jobs /\ w.snapshot.kept
    BY DEF TypeOK, RelayTypeOK, Digesting, UsesInv
  <2>2. CASE record' = record
    BY <2>2, BoundedShrinks DEF Retained, InFlight
  <2>3. CASE record' = [record EXCEPT ![w.job] = WithResult(w)]
    <3>1. /\ SameUse(w.snapshot, WithResult(w))
          /\ WithResult(w).state.phase \in {"expired", "terminal-result"}
      <4>1. /\ SameUse(w.snapshot, WithResult(w))
            /\ \/ WithResult(w).state = [phase |-> "terminal-result", digest |-> w.digest]
               \/ /\ WithResult(w).state = w.snapshot.state
                  /\ w.snapshot.state.phase \in {"expired", "terminal-result"}
        BY <2>1, WithResultSays
      <4>2. QED
        BY <4>1
    <3>2. record'[w.job] = WithResult(w) /\ \A i \in Jobs \ {w.job} : record'[i] = record[i]
      BY <1>1, <2>1, <2>3
    <3>3. w.job \in Retained(record)' => w.job \in Retained(record)
      <4> SUFFICES ASSUME WithResult(w).retainedUntil > clock
                   PROVE  record[w.job].kept /\ record[w.job].retainedUntil > clock
        BY <2>1, <3>2 DEF Retained
      <4>1. WithResult(w).retainedUntil = w.snapshot.retainedUntil
        BY <3>1 DEF SameUse
      <4>2. w.snapshot.retainedUntil \in Nat
        BY <2>1 DEF Digesting, StoredJobRecord, Times
      <4>3. InTime(w)
        BY <1>1, <4>1, <4>2 DEF InTime
      <4>4. record[w.job].kept /\ SameUse(w.snapshot, record[w.job])
        BY <2>1, <4>3 DEF UsesInv
      <4>5. QED
        BY <4>1, <4>4 DEF SameUse
    <3>4. w.job \notin InFlight(record)'
      BY <3>1, <3>2 DEF InFlight
    <3>5. Retained(record)' \subseteq Retained(record) /\ InFlight(record)' \subseteq InFlight(record)
      BY <3>2, <3>3, <3>4 DEF Retained, InFlight
    <3>6. QED
      BY <3>5, BoundedShrinks
  <2>4. QED
    BY <2>2, <2>3
<1>6. QED
  BY <1>2, <1>3, <1>4, <1>5, RecordSteps

\* At first no record is retained.
LEMMA BoundedInit == Init => BoundedInv
<1> SUFFICES ASSUME Init PROVE BoundedInv
  OBVIOUS
<1>1. Retained(record) = {} /\ InFlight(record) = {}
  BY DEF Init, RelayInit, Retained, InFlight, NoRecord
<1>2. QED
  BY <1>1, FS_EmptySet, LimitsAssumption DEF BoundedInv, RetainedIsBounded

\* The retained records, and those in flight, stay within the limits of the relay,
\* however late the digest of a fresh job is.
THEOREM RecordsStayWithinLimits == Spec /\ []TimelyDigests => []RetainedIsBounded
<1>1. TypeOK /\ TypeOK' /\ UsesInv(Jobs) /\ BoundedInv /\ [Next]_vars => BoundedInv'
  BY BoundedStep
<1>2. BoundedInv => RetainedIsBounded
  BY DEF BoundedInv
<1>3. QED
  BY <1>1, <1>2, BoundedInit, Types, AllUses, PTL DEF Spec

-----------------------------------------------------------------------------
(* A fresh job has one result. *)

\* Flushing sends results that are kept, and keeps them.
LEMMA FlushFlow ==
  ASSUME TypeOK, NEW rj \in [Jobs -> RuntimeJob], NEW js \in SUBSET Jobs,
         FlushOver(rj, js) \/ (jobs' = rj /\ UNCHANGED toRelay)
  PROVE  /\ \A j \in Jobs : jobs'[j].result = rj[j].result /\ jobs'[j].known = rj[j].known
         /\ \A c \in Conns : \A r \in toRelay'[c].results :
              r \in toRelay[c].results \/ (r[1] \in Jobs /\ r[2] = rj[r[1]].result)
<1>1. ASSUME NEW j \in Jobs
      PROVE  jobs'[j].result = rj[j].result /\ jobs'[j].known = rj[j].known
  <2>1. rj[j] \in RuntimeJob
    OBVIOUS
  <2>2. jobs'[j] = rj[j] \/ jobs'[j] = [rj[j] EXCEPT !.resultSentOn = socket]
    BY DEF FlushOver, Flush
  <2>3. QED
    BY <2>1, <2>2 DEF RuntimeJob
<1>2. ASSUME NEW c \in Conns, NEW r \in toRelay'[c].results
      PROVE  r \in toRelay[c].results \/ (r[1] \in Jobs /\ r[2] = rj[r[1]].result)
  <2> DEFINE new == {<<j, rj[j].result>> : j \in Flushable(rj, js)}
  <2>1. toRelay' = toRelay \/ toRelay' = [toRelay EXCEPT ![socket].results = @ \cup new]
    BY DEF FlushOver, Flush
  <2>2. \A n \in new : n[1] \in Jobs /\ n[2] = rj[n[1]].result
    BY DEF Flushable
  <2> HIDE DEF new
  <2>3. r \in toRelay[c].results \/ r \in new
    BY <1>2, <2>1 DEF TypeOK, RelayTypeOK
  <2>4. QED
    BY <2>2, <2>3
<1>3. QED
  BY <1>1, <1>2

\* Where results come from: the Runtime keeps what an execution returned, sends
\* what it keeps, and the Relay takes what was sent to wait with the record.
Flow ==
  /\ \A j \in Jobs : jobs'[j].result \in {jobs[j].result, 0, executions[j]}
  /\ \A c \in Conns : \A r \in toRelay'[c].results :
       r \in toRelay[c].results \/ (r[1] \in Jobs /\ r[2] = jobs'[r[1]].result)
  /\ \A w \in digesting' :
       \/ w \in digesting
       \/ \E c \in Conns : \E r \in toRelay[c].results :
            /\ w.job = r[1] /\ w.digest = r[2] /\ w.conn = c
            /\ w.snapshot = record[r[1]] /\ record[r[1]].kept

\* A step that brings no result forward is in the flow.
LEMMA FlowStays ==
  ASSUME UNCHANGED jobs, digesting' \subseteq digesting,
         \A c \in Conns : toRelay'[c].results \subseteq toRelay[c].results
  PROVE  Flow
BY DEF Flow

\* Every step is in the flow.
LEMMA FlowStep ==
  ASSUME TypeOK, [Next]_vars
  PROVE  Flow
<1>1. CASE Callers
  BY <1>1, FlowStays
     DEF Callers, Dispatch, InternalDispatchRequest, CallerTimeout, ClientSends, ClientJob,
         ClientLeaves, runtimeVars
<1>2. CASE RelayFetch \/ RelayAlarm \/ RelayUnload \/ RelayDigest \/ RelayRestart \/ Time
  <2>1. CASE RelayFetch \/ RelayAlarm \/ RelayUnload
    BY <2>1, FlowStays
       DEF RelayFetch, Fetch, RelayAlarm, Alarm, RelayUnload, Hibernate, runtimeVars
  <2>2. CASE RelayDigest
    BY <2>2, FlowStays DEF RelayDigest, FinishResult, runtimeVars
  <2>3. CASE RelayRestart
    BY <2>3, FlowStays DEF RelayRestart, Restart, runtimeVars
  <2>4. CASE Time
    BY <2>4, FlowStays DEF Time, Tick, relayVars, runtimeVars
  <2>5. QED
    BY <1>2, <2>1, <2>2, <2>3, <2>4
<1>3. CASE RelayAdmit
  BY <1>3, FlowStays DEF RelayAdmit, AdmitRuntime, runtimeVars, TypeOK, RelayTypeOK
<1>4. CASE RelayResult
  <2> PICK c \in Conns : \E r \in toRelay[c].results :
           /\ toRelay' = [toRelay EXCEPT ![c].results = @ \ {r}]
           /\ digesting' = digesting \/ Waits(c, r)
           /\ UNCHANGED jobs
    BY <1>4, ResultSteps DEF runtimeVars
  <2> PICK r \in toRelay[c].results :
           /\ toRelay' = [toRelay EXCEPT ![c].results = @ \ {r}]
           /\ digesting' = digesting \/ Waits(c, r)
           /\ UNCHANGED jobs
    OBVIOUS
  <2>1. \A d \in Conns : toRelay'[d].results \subseteq toRelay[d].results
    BY DEF TypeOK, RelayTypeOK
  <2>2. QED
    BY <2>1 DEF Flow, Waits
<1>5. CASE RelayClose
  BY <1>5, FlowStays DEF RelayClose, WebSocketClose, runtimeVars, TypeOK, RelayTypeOK
<1>6. CASE RuntimeConnects
  BY <1>6, FlowStays DEF RuntimeConnects, Connect
<1>7. CASE RuntimeHears
  <2> PICK c \in Conns : OnChallenge(c) \/ OnConnected(c) \/ OnJob(c)
    BY <1>7 DEF RuntimeHears
  <2>1. CASE OnChallenge(c)
    <3>1. \A d \in Conns : toRelay'[d].results \subseteq toRelay[d].results
      BY <2>1 DEF OnChallenge, TypeOK, RelayTypeOK
    <3>2. QED
      BY <2>1, <3>1, FlowStays DEF OnChallenge, OnlyRuntime
  <2>2. CASE OnConnected(c)
    <3>1. FlushOver(jobs, Jobs) /\ digesting' = digesting /\ jobs \in [Jobs -> RuntimeJob]
      BY <2>2 DEF OnConnected, OnlyRuntime, TypeOK, RuntimeTypeOK
    <3>2. QED
      BY <3>1, FlushFlow DEF Flow
  <2>3. CASE OnJob(c)
    <3> PICK j \in Jobs : Heard(c, j)
      BY <2>3, OnJobHeard
    <3>1. CASE UNCHANGED <<jobs, toRelay>>
      BY <3>1, FlowStays DEF Heard, OnlyRuntime
    <3>2. CASE FlushOver(jobs, {j})
      <4>1. {j} \in SUBSET Jobs /\ digesting' = digesting /\ jobs \in [Jobs -> RuntimeJob]
        BY DEF Heard, OnlyRuntime, TypeOK, RuntimeTypeOK
      <4>2. QED
        BY <3>2, <4>1, FlushFlow DEF Flow
    <3>3. CASE /\ jobs' = [jobs EXCEPT ![j] = [NoRuntimeJob EXCEPT !.known = TRUE, !.origin = c,
                                                 !.phase = "delivered", !.executing = TRUE]]
               /\ UNCHANGED toRelay
      <4>1. \A i \in Jobs : jobs'[i].result \in {jobs[i].result, 0}
        BY <3>3 DEF NoRuntimeJob, TypeOK, RuntimeTypeOK
      <4>2. QED
        BY <3>3, <4>1 DEF Flow, Heard, OnlyRuntime
    <3>4. QED
      BY <3>1, <3>2, <3>3 DEF Heard
  <2>4. QED
    BY <2>1, <2>2, <2>3
<1>8. CASE RuntimeReturns
  <2> PICK j \in Jobs : ExecuteReturns(j)
    BY <1>8 DEF RuntimeReturns
  <2> DEFINE rj == [jobs EXCEPT ![j].executing = FALSE, ![j].result = executions[j]]
  <2>1. rj \in [Jobs -> RuntimeJob]
    <3>1. jobs[j] \in RuntimeJob /\ executions[j] \in Nat
      BY DEF TypeOK, RuntimeTypeOK
    <3>2. [jobs[j] EXCEPT !.executing = FALSE, !.result = executions[j]] \in RuntimeJob
      BY <3>1 DEF RuntimeJob
    <3>3. rj = [jobs EXCEPT ![j] = [jobs[j] EXCEPT !.executing = FALSE, !.result = executions[j]]]
      BY DEF TypeOK, RuntimeTypeOK
    <3> HIDE DEF rj
    <3>4. QED
      BY <3>2, <3>3 DEF TypeOK, RuntimeTypeOK
  <2>2. /\ FlushOver(rj, {j}) \/ (jobs' = rj /\ UNCHANGED toRelay)
        /\ digesting' = digesting
    BY DEF ExecuteReturns, OnlyRuntime
  <2>3. \A i \in Jobs : rj[i].result \in {jobs[i].result, executions[i]}
    BY DEF TypeOK, RuntimeTypeOK, RuntimeJob
  <2>4. {j} \in SUBSET Jobs
    OBVIOUS
  <2> HIDE DEF rj
  <2>5. QED
    BY <2>1, <2>2, <2>3, <2>4, FlushFlow DEF Flow
<1>9. CASE RuntimeExpires \/ RuntimeLoses
  <2>1. \A j \in Jobs : jobs'[j].result = jobs[j].result
    BY <1>9 DEF RuntimeExpires, ExpiryTimer, RuntimeLoses, OnClose, TypeOK, RuntimeTypeOK, RuntimeJob
  <2>2. UNCHANGED <<toRelay, digesting>>
    BY <1>9 DEF RuntimeExpires, ExpiryTimer, RuntimeLoses, OnClose, OnlyRuntime
  <2>3. QED
    BY <2>1, <2>2 DEF Flow
<1>10. CASE RuntimeRestarts
  BY <1>10 DEF RuntimeRestarts, RuntimeRestart, OnlyRuntime, NoRuntimeJob, Flow
<1>11. CASE UNCHANGED vars
  BY <1>11, FlowStays DEF vars, relayVars, runtimeVars
<1>12. QED
  BY <1>1, <1>2, <1>3, <1>4, <1>5, <1>6, <1>7, <1>8, <1>9, <1>10, <1>11 DEF Next

\* Every result of a fresh job is that of its one execution, in the Runtime, under
\* way, waiting or recorded; and what a record or a waiting result says of it is
\* never that it was not delivered once it was handed over.
FreshResultsInv ==
  /\ \A j \in Fresh : /\ jobs[j].result <= 1 /\ record[j].state.digest <= 1
                      /\ record[j].kept /\ j \in handed
                           => DeliveryEvidence(record[j].state.phase) # "not-delivered"
  /\ \A c \in Conns : \A r \in toRelay[c].results : r[1] \in Fresh => r[2] = 1
  /\ \A w \in digesting : w.job \in Fresh =>
       /\ w.digest = 1 /\ w.snapshot.state.digest <= 1
       /\ DeliveryEvidence(w.snapshot.state.phase) # "not-delivered"

\* A record that fades keeps its digest or has none, and keeps saying that its job
\* was or may have been delivered.
LEMMA FadesSays ==
  ASSUME NEW r \in StoredJobRecord, NEW s \in StoredJobRecord, Fades(r, s)
  PROVE  /\ s.state.digest \in {0, r.state.digest}
         /\ s.kept => r.kept
         /\ s.kept /\ DeliveryEvidence(r.state.phase) # "not-delivered"
              => DeliveryEvidence(s.state.phase) # "not-delivered"
<1>1. /\ r.state \in RelayDeliveryState /\ s.state \in RelayDeliveryState
      /\ r.state.phase \in RelayDeliveryPhase /\ s.state.phase \in RelayDeliveryPhase
  BY DEF StoredJobRecord, RelayDeliveryState
<1>2. s.state.phase # "terminal-result" => s.state.digest = 0
  BY <1>1 DEF RelayDeliveryState, NoDigest
<1>3. CASE s = r
  BY <1>3
<1>4. CASE Ages(r, s)
  <2>1. r.kept /\ s.kept
    BY <1>4 DEF Ages, SameUse
  <2>2. CASE s.state = r.state
    BY <2>1, <2>2
  <2>3. CASE Unsent(r.state.phase) /\ s.state.phase \in {"unavailable", "expired"}
    BY <1>2, <2>1, <2>3 DEF DeliveryEvidence, Unsent
  <2>4. CASE InTransit(r.state.phase) /\ s.state.phase = "possibly-delivered"
    BY <1>2, <2>1, <2>4 DEF DeliveryEvidence, InTransit
  <2>5. QED
    BY <1>4, <2>2, <2>3, <2>4 DEF Ages
<1>5. CASE s = NoRecord
  BY <1>5 DEF NoRecord, CreateRelayDeliveryState, CreateState, NoDigest
<1>6. QED
  BY <1>3, <1>4, <1>5 DEF Fades

\* A job is handed over only when it has no record.
LEMMA HandedStep ==
  ASSUME TypeOK, [Next]_vars
  PROVE  \/ handed' = handed
         \/ \E j \in Jobs : ~record[j].kept /\ handed' = handed \cup {j}
<1>1. ASSUME NEW j \in Jobs, NEW src, ReceiveJob(j, src)
      PROVE  handed' = handed \/ (~record[j].kept /\ handed' = handed \cup {j})
  BY <1>1 DEF ReceiveJob, AnswerUnavailable, HandOver
<1>2. CASE Callers
  BY <1>1, <1>2
     DEF Callers, Dispatch, InternalDispatchRequest, CallerTimeout, ClientSends, ClientJob,
         ClientLeaves
<1>3. CASE RelayFetch \/ RelayAdmit \/ RelayResult \/ RelayDigest \/ RelayClose
  BY <1>3
     DEF RelayFetch, Fetch, RelayAdmit, AdmitRuntime, RelayResult, ReceiveResult, RelayDigest,
         FinishResult, RelayClose, WebSocketClose
<1>4. CASE RelayAlarm \/ RelayUnload \/ RelayRestart \/ Time
  BY <1>4 DEF RelayAlarm, Alarm, RelayUnload, Hibernate, RelayRestart, Restart, Time, Tick, relayVars
<1>5. CASE RuntimeConnects \/ RuntimeReturns \/ RuntimeExpires \/ RuntimeLoses \/ RuntimeRestarts
  BY <1>5
     DEF RuntimeConnects, Connect, RuntimeReturns, ExecuteReturns, RuntimeExpires, ExpiryTimer,
         RuntimeLoses, OnClose, RuntimeRestarts, RuntimeRestart, OnlyRuntime
<1>6. CASE RuntimeHears
  BY <1>6 DEF RuntimeHears, OnChallenge, OnConnected, OnJob, OnlyRuntime
<1>7. CASE UNCHANGED vars
  BY <1>7 DEF vars, relayVars
<1>8. QED
  BY <1>2, <1>3, <1>4, <1>5, <1>6, <1>7 DEF Next

\* Every step keeps it: a fresh job is executed once and has one result.
LEMMA FreshResultsStep ==
  ASSUME TypeOK, TypeOK', FreshInv, ResultsInv, UsesInv(Fresh), FreshResultsInv, [Next]_vars
  PROVE  FreshResultsInv'
<1> DEFINE Says(rec, h, j) == /\ rec[j].state.digest <= 1
                              /\ rec[j].kept /\ j \in h
                                   => DeliveryEvidence(rec[j].state.phase) # "not-delivered"
<1>1. Flow /\ Fresh \subseteq Jobs
  BY FlowStep DEF Fresh
<1>2. \A j \in Fresh : /\ record[j] \in StoredJobRecord /\ record'[j] \in StoredJobRecord
                       /\ executions[j] <= 1 /\ Says(record, handed, j)
  BY <1>1 DEF TypeOK, RelayTypeOK, FreshInv, FreshResultsInv
<1>3. \A j \in Fresh : jobs'[j].result <= 1
  BY <1>1, <1>2 DEF Flow, FreshResultsInv
<1>4. \A c \in Conns : \A r \in toRelay'[c].results : r[1] \in Fresh => r[2] = 1
  <2> SUFFICES ASSUME NEW c \in Conns, NEW r \in toRelay'[c].results, r[1] \in Fresh
               PROVE  r[2] = 1
    OBVIOUS
  <2>1. r[2] \in Nat \ {0}
    BY DEF TypeOK, RelayTypeOK, NoDigest
  <2>2. r \in toRelay[c].results \/ r[2] <= 1
    BY <1>1, <1>3 DEF Flow
  <2>3. QED
    BY <2>1, <2>2 DEF FreshResultsInv
<1>5. \A w \in digesting' : w.job \in Fresh =>
        /\ w.digest = 1 /\ w.snapshot.state.digest <= 1
        /\ DeliveryEvidence(w.snapshot.state.phase) # "not-delivered"
  <2> SUFFICES ASSUME NEW w \in digesting', w.job \in Fresh, w \notin digesting
               PROVE  /\ w.digest = 1 /\ w.snapshot.state.digest <= 1
                      /\ DeliveryEvidence(w.snapshot.state.phase) # "not-delivered"
    BY DEF FreshResultsInv
  <2> PICK c \in Conns : \E r \in toRelay[c].results :
           /\ w.job = r[1] /\ w.digest = r[2]
           /\ w.snapshot = record[r[1]] /\ record[r[1]].kept
    BY <1>1 DEF Flow
  <2> PICK r \in toRelay[c].results :
           /\ w.job = r[1] /\ w.digest = r[2]
           /\ w.snapshot = record[r[1]] /\ record[r[1]].kept
    OBVIOUS
  <2>1. w.digest = 1
    BY DEF FreshResultsInv
  <2>2. executions[w.job] >= 1
    BY DEF ResultsInv
  <2>3. w.job \in handed
    BY <2>2 DEF FreshInv
  <2>4. QED
    BY <1>2, <2>1, <2>3
<1>6. ASSUME NEW j \in Fresh, Fades(record[j], record'[j]), j \in handed' /\ record[j].kept => j \in handed
      PROVE  Says(record', handed', j)
  <2>1. /\ record'[j].state.digest \in {0, record[j].state.digest}
        /\ record'[j].kept => record[j].kept
        /\ record'[j].kept /\ DeliveryEvidence(record[j].state.phase) # "not-delivered"
             => DeliveryEvidence(record'[j].state.phase) # "not-delivered"
    BY <1>2, <1>6, FadesSays
  <2>2. QED
    BY <1>2, <1>6, <2>1
<1>7. ASSUME \A j \in Fresh : Says(record', handed', j)
      PROVE  FreshResultsInv'
  <2>1. Fresh' = Fresh
    BY DEF Fresh
  <2>2. QED
    BY <1>3, <1>4, <1>5, <1>7, <2>1 DEF FreshResultsInv
<1>8. \A j \in Jobs : j \in handed' /\ record[j].kept => j \in handed
  BY HandedStep
<1> HIDE DEF Says
<1>9. CASE AllFade
  BY <1>1, <1>6, <1>7, <1>8, <1>9 DEF AllFade
<1>10. CASE \E j \in Jobs : Creates(j) /\ (j \in Fresh => source[j] = "none")
  <2> PICK j \in Jobs : Creates(j) /\ (j \in Fresh => source[j] = "none")
    BY <1>10
  <2>1. \A i \in Fresh \ {j} : Says(record', handed', i)
    <3>1. /\ record \in [Jobs -> StoredJobRecord]
          /\ Reap(record, clock) \in [Jobs -> StoredJobRecord]
      BY ReapType DEF TypeOK, RelayTypeOK
    <3>2. record' = [Reap(record, clock) EXCEPT ![j] = record'[j]]
      BY DEF Creates
    <3>3. \A i \in Fresh \ {j} : record'[i] = Reap(record, clock)[i]
      BY <1>1, <3>1, <3>2
    <3>4. \A i \in Fresh \ {j} : Fades(record[i], record'[i])
      BY <1>1, <3>1, <3>3, ReapFades
    <3>5. QED
      BY <1>1, <1>6, <1>8, <3>4
  <2>2. j \in Fresh => Says(record', handed', j)
    <3> SUFFICES ASSUME j \in Fresh PROVE Says(record', handed', j)
      OBVIOUS
    <3>1. j \notin handed
      BY DEF FreshInv
    <3>2. record'[j].state.phase \in {"unavailable", "delivered", "possibly-delivered"}
      BY DEF Creates
    <3>3. record'[j].state.digest = 0
      <4>1. record'[j].state \in RelayDeliveryState
        BY <1>2 DEF StoredJobRecord
      <4>2. QED
        BY <3>2, <4>1 DEF RelayDeliveryState, NoDigest
    <3>4. record'[j].state.phase = "unavailable" => j \notin handed'
      <4>1. record'[j].state.phase = "unavailable" => handed' = handed
        BY <3>2 DEF Creates
      <4>2. QED
        BY <3>1, <4>1
    <3>5. QED
      BY <3>2, <3>3, <3>4 DEF Says, DeliveryEvidence
  <2>3. QED
    BY <1>7, <2>1, <2>2
<1>11. CASE RelayResult
  <2>1. record' = record /\ handed' = handed
    BY <1>11, ResultSteps
  <2>2. QED
    BY <1>2, <1>7, <2>1 DEF Says
<1>12. CASE RelayDigest
  <2> PICK w \in digesting :
             /\ record' = record \/ record' = [record EXCEPT ![w.job] = WithResult(w)]
             /\ handed' = handed
    BY <1>12, DigestSteps
  <2>1. w \in Digesting /\ w.job \in Jobs
    BY DEF TypeOK, RelayTypeOK, Digesting
  <2>2. CASE record' = record
    BY <1>2, <1>7, <2>2 DEF Says
  <2>3. CASE record' = [record EXCEPT ![w.job] = WithResult(w)]
    <3>1. /\ record'[w.job] = WithResult(w)
          /\ \A j \in Fresh \ {w.job} : record'[j] = record[j]
      BY <1>1, <2>1, <2>3 DEF TypeOK, RelayTypeOK
    <3>2. \A j \in Fresh \ {w.job} : Says(record', handed', j)
      BY <1>2, <3>1 DEF Says
    <3>3. ASSUME w.job \in Fresh PROVE Says(record', handed', w.job)
      <4>1. w.snapshot.kept /\ w.digest = 1 /\ w.snapshot.state.digest <= 1
            /\ DeliveryEvidence(w.snapshot.state.phase) # "not-delivered"
        BY <3>3 DEF UsesInv, FreshResultsInv
      <4>2. WithResult(w).state \in {[phase |-> "terminal-result", digest |-> 1], w.snapshot.state}
        BY <2>1, <4>1, WithResultSays
      <4>3. CASE WithResult(w).state = [phase |-> "terminal-result", digest |-> 1]
        BY <3>1, <4>3 DEF Says, DeliveryEvidence
      <4>4. CASE WithResult(w).state = w.snapshot.state
        BY <3>1, <4>1, <4>4 DEF Says
      <4>5. QED
        BY <4>2, <4>3, <4>4
    <3>4. QED
      BY <1>7, <3>2, <3>3
  <2>4. QED
    BY <2>2, <2>3
<1>13. QED
  BY <1>9, <1>10, <1>11, <1>12, RecordSteps

\* Everything that is known of a fresh job's result comes from its one execution.
LEMMA FreshResults == Spec => []FreshResultsInv
<1>1. Init => FreshResultsInv
  BY DEF Init, RelayInit, RuntimeInit, FreshResultsInv, NoRecord, NoRuntimeJob,
         CreateRelayDeliveryState, CreateState, NoDigest, Fresh
<1>2. TypeOK /\ TypeOK' /\ FreshInv /\ ResultsInv /\ UsesInv(Fresh) /\ FreshResultsInv
        /\ [Next]_vars => FreshResultsInv'
  BY FreshResultsStep
<1>3. QED
  BY <1>1, <1>2, Types, FreshJobs, Results, FreshUses, PTL DEF Spec
=============================================================================
