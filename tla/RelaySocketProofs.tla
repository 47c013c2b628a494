-------------------------- MODULE RelaySocketProofs --------------------------
(***************************************************************************)
(* Proofs about the Runtime sockets of RelaySystem and their generations:   *)
(* a generation stands for one socket as long as a record has it, and so a  *)
(* result that is matched by its generation is of the right connection.     *)
(***************************************************************************)
EXTENDS RelayEvidenceProofs

-----------------------------------------------------------------------------
(* Sockets. *)

\* The sockets that the Relay lists and has admitted.
AdmittedSockets == {c \in GetWebSockets : conn[c].authenticated}

\* Every listed socket that is admitted has a generation of its own.
SocketInv ==
  /\ \A c \in Conns : conn[c].relay \in {"none", "requested"} => ~conn[c].authenticated
  /\ \A c, d \in AdmittedSockets : conn[c].generation = conn[d].generation => c = d

\* A step that admits nobody leaves at most the admitted sockets, as they were.
Keeps(c) ==
  c \in AdmittedSockets' => c \in AdmittedSockets /\ conn'[c].generation = conn[c].generation

\* Admission gives the socket a generation above all that are held.
Admits(c) ==
  /\ \A h \in HeldGenerations : h < conn'[c].generation
  /\ \A d \in Conns \ {c} : Keeps(d)
  /\ UNCHANGED <<clock, record, jobs, executions, digesting>>

\* No socket is admitted before it is open, and none is asked for twice.
Unadmitted ==
  \A c \in Conns : /\ conn'[c].relay \in {"none", "requested"} => ~conn'[c].authenticated
                   /\ conn'[c].relay = "none" => conn[c].relay = "none"

\* Closing sockets admits nobody.
LEMMA ClosedKeeps ==
  ASSUME TypeOK, NEW cs, conn' = ClosedByRelay(conn, cs),
         \A c \in Conns : conn[c].relay \in {"none", "requested"} => ~conn[c].authenticated
  PROVE  Unadmitted /\ \A c \in Conns : Keeps(c)
<1>1. ASSUME NEW c \in Conns
      PROVE  /\ conn'[c].authenticated = conn[c].authenticated
             /\ conn'[c].generation = conn[c].generation
             /\ \/ conn'[c].relay = conn[c].relay
                \/ conn[c].relay = "open" /\ conn'[c].relay = "closing"
  <2>1. conn[c] \in Conn
    BY DEF TypeOK, RelayTypeOK
  <2>2. \/ conn'[c] = conn[c]
        \/ conn[c].relay = "open" /\ conn'[c] = [conn[c] EXCEPT !.relay = "closing"]
    BY DEF ClosedByRelay
  <2>3. QED
    BY <2>1, <2>2 DEF Conn
<1>2. QED
  BY <1>1 DEF Unadmitted, Keeps, AdmittedSockets, GetWebSockets

\* What admitRuntime does, seen from the sockets.
LEMMA AdmitSteps ==
  ASSUME TypeOK, SocketInv, NEW c \in Conns, AdmitRuntime(c), UNCHANGED runtimeVars
  PROVE  Unadmitted /\ ((\A d \in Conns : Keeps(d)) \/ Admits(c))
<1>1. CASE conn' = ClosedByRelay(conn, {c})
  BY <1>1, ClosedKeeps DEF SocketInv
<1>2. ASSUME NEW g, IsNextRuntimeGeneration(g), conn' = Admitted(c, g)
      PROVE  Unadmitted /\ Admits(c)
  <2> DEFINE older == {d \in Conns \ {c} : conn[d].authenticated /\ conn[d].generation < g}
             closed == ClosedByRelay(conn, older)
  <2>1. conn' = [closed EXCEPT ![c].authenticated = TRUE, ![c].generation = g]
    BY <1>2 DEF Admitted
  <2>2. closed \in [Conns -> Conn]
    BY ClosedByRelayType DEF TypeOK, RelayTypeOK
  <2>3. ASSUME NEW d \in Conns
        PROVE  /\ closed[d].authenticated = conn[d].authenticated
               /\ closed[d].generation = conn[d].generation
               /\ \/ closed[d].relay = conn[d].relay
                  \/ conn[d].relay = "open" /\ closed[d].relay = "closing"
    <3>1. conn[d] \in Conn
      BY DEF TypeOK, RelayTypeOK
    <3>2. \/ closed[d] = conn[d]
          \/ conn[d].relay = "open" /\ closed[d] = [conn[d] EXCEPT !.relay = "closing"]
      BY DEF ClosedByRelay
    <3> HIDE DEF closed
    <3>3. QED
      BY <3>1, <3>2 DEF Conn
  <2> HIDE DEF closed
  <2>4. \A d \in Conns \ {c} : conn'[d] = closed[d]
    BY <2>1, <2>2
  <2>5. conn'[c].generation = g /\ conn'[c].relay = closed[c].relay
    BY <2>1, <2>2 DEF Conn
  <2>6. conn[c].relay = "open"
    BY DEF AdmitRuntime, IsOpen
  <2>7. Unadmitted
    BY <2>3, <2>4, <2>5, <2>6 DEF Unadmitted, SocketInv
  <2>8. \A d \in Conns \ {c} : Keeps(d)
    BY <2>3, <2>4 DEF Keeps, AdmittedSockets, GetWebSockets
  <2>9. QED
    BY <1>2, <2>5, <2>7, <2>8 DEF Admits, IsNextRuntimeGeneration, AdmitRuntime, runtimeVars
<1>3. QED
  BY <1>1, <1>2 DEF AdmitRuntime

\* Sockets stay admitted as they were, or one is admitted.
LEMMA SocketSteps ==
  ASSUME TypeOK, SocketInv, [Next]_vars
  PROVE  Unadmitted /\ ((\A d \in Conns : Keeps(d)) \/ \E c \in Conns : Admits(c))
<1>1. ASSUME UNCHANGED conn
      PROVE  Unadmitted /\ \A d \in Conns : Keeps(d)
  BY <1>1 DEF Unadmitted, Keeps, AdmittedSockets, GetWebSockets, SocketInv
<1>2. CASE Callers
  BY <1>1, <1>2
     DEF Callers, Dispatch, InternalDispatchRequest, CallerTimeout, ClientSends, ClientJob,
         ClientLeaves
<1>3. CASE RelayFetch
  <2> PICK c \in Conns : Fetch(c)
    BY <1>3 DEF RelayFetch
  <2>1. conn[c] \in Conn /\ conn[c].relay = "requested" /\ ~conn[c].authenticated
    BY DEF Fetch, TypeOK, RelayTypeOK, SocketInv
  <2>2. /\ \/ conn'[c] = Unattached("gone")
           \/ conn'[c] = [conn[c] EXCEPT !.relay = "open", !.openedAt = clock,
                                         !.expiresAt = clock + ConnectionTTL]
        /\ \A d \in Conns \ {c} : conn'[d] = conn[d]
    BY DEF Fetch, TypeOK, RelayTypeOK
  <2>3. ~conn'[c].authenticated
    <3>1. CASE conn'[c] = Unattached("gone")
      BY <3>1 DEF Unattached
    <3>2. CASE conn'[c] = [conn[c] EXCEPT !.relay = "open", !.openedAt = clock,
                                          !.expiresAt = clock + ConnectionTTL]
      <4>1. conn'[c].authenticated = conn[c].authenticated
        BY <2>1, <3>2 DEF Conn
      <4>2. QED
        BY <2>1, <4>1
    <3>3. QED
      BY <2>2, <3>1, <3>2
  <2>4. conn'[c].relay # "none"
    <3>1. CASE conn'[c] = Unattached("gone")
      BY <3>1 DEF Unattached
    <3>2. CASE conn'[c] = [conn[c] EXCEPT !.relay = "open", !.openedAt = clock,
                                          !.expiresAt = clock + ConnectionTTL]
      BY <2>1, <3>2 DEF Conn
    <3>3. QED
      BY <2>2, <3>1, <3>2
  <2>5. QED
    BY <2>2, <2>3, <2>4 DEF Unadmitted, Keeps, AdmittedSockets, GetWebSockets, SocketInv
<1>4. CASE RelayAdmit
  BY <1>4, AdmitSteps DEF RelayAdmit
<1>5. CASE RelayResult
  <2>1. \E c \in Conns : conn' \in {conn, ClosedByRelay(conn, {c})}
    BY <1>5, ResultSteps DEF Waits
  <2>2. QED
    BY <1>1, <2>1, ClosedKeeps DEF SocketInv
<1>6. CASE RelayDigest \/ RelayUnload
  BY <1>1, <1>6 DEF RelayDigest, FinishResult, RelayUnload, Hibernate
<1>7. CASE RelayClose
  <2> PICK c \in Conns : conn' = [conn EXCEPT ![c] = Unattached("gone")]
    BY <1>7 DEF RelayClose, WebSocketClose
  <2>1. /\ ~conn'[c].authenticated /\ conn'[c].relay # "none"
        /\ \A d \in Conns \ {c} : conn'[d] = conn[d]
    BY DEF Unattached, TypeOK, RelayTypeOK
  <2>2. QED
    BY <2>1 DEF Unadmitted, Keeps, AdmittedSockets, GetWebSockets, SocketInv
<1>8. CASE RelayAlarm
  <2>1. \E cs : conn' = ClosedByRelay(conn, cs)
    BY <1>8 DEF RelayAlarm, Alarm
  <2>2. QED
    BY <2>1, ClosedKeeps DEF SocketInv
<1>9. CASE RelayRestart
  <2>1. \A c \in Conns : conn'[c] \in {Unattached("gone"), conn[c]}
    BY <1>9 DEF RelayRestart, Restart
  <2>2. QED
    BY <2>1 DEF Unattached, Unadmitted, Keeps, AdmittedSockets, GetWebSockets, SocketInv
<1>10. CASE RuntimeConnects
  <2> PICK c \in Conns : conn' = [conn EXCEPT ![c].relay = "requested"] /\ conn[c].relay = "none"
    BY <1>10 DEF RuntimeConnects, Connect
  <2>1. /\ conn'[c].relay = "requested" /\ conn'[c].authenticated = conn[c].authenticated
        /\ \A d \in Conns \ {c} : conn'[d] = conn[d]
    BY DEF TypeOK, RelayTypeOK, Conn
  <2>2. QED
    BY <2>1 DEF Unadmitted, Keeps, AdmittedSockets, GetWebSockets, SocketInv
<1>11. CASE RuntimeHears \/ RuntimeReturns \/ RuntimeExpires \/ RuntimeLoses \/ RuntimeRestarts
  BY <1>1, <1>11
     DEF RuntimeHears, OnChallenge, OnConnected, OnJob, RuntimeReturns, ExecuteReturns,
         RuntimeExpires, ExpiryTimer, RuntimeLoses, OnClose, RuntimeRestarts, RuntimeRestart,
         OnlyRuntime
<1>12. CASE Time \/ UNCHANGED vars
  BY <1>1, <1>12 DEF Time, Tick, vars, relayVars
<1>13. QED
  BY <1>2, <1>3, <1>4, <1>5, <1>6, <1>7, <1>8, <1>9, <1>10, <1>11, <1>12 DEF Next

\* A generation is held as long as a listed socket or a record has it.
LEMMA HeldBySockets ==
  ASSUME TypeOK
  PROVE  /\ HeldGenerations \subseteq Nat
         /\ \A c \in AdmittedSockets : conn[c].generation \in HeldGenerations
         /\ \A j \in Jobs : record[j].kept /\ clock < record[j].retainedUntil
                              => record[j].generation \in HeldGenerations
<1>1. \A j \in Jobs : clock < record[j].retainedUntil => record[j].retainedUntil > clock
  BY DEF TypeOK, RelayTypeOK, StoredJobRecord, Times
<1>2. /\ reserved \in Nat /\ \A c \in Conns : conn[c].generation \in Nat
      /\ \A j \in Jobs : record[j].generation \in Nat
  BY DEF TypeOK, RelayTypeOK, Conn, StoredJobRecord
<1>3. QED
  BY <1>1, <1>2 DEF HeldGenerations, AdmittedSockets, GetWebSockets

\* Every admitted socket has a generation of its own, whatever memory was lost.
LEMMA Sockets == Spec => []SocketInv
<1>1. Init => SocketInv
  BY DEF Init, RelayInit, SocketInv, AdmittedSockets, GetWebSockets, Unattached
<1>2. ASSUME TypeOK, SocketInv, [Next]_vars PROVE SocketInv'
  <2>1. AdmittedSockets' \subseteq Conns
    BY DEF AdmittedSockets, GetWebSockets, Conns
  <2>2. CASE \A d \in Conns : Keeps(d)
    BY <1>2, <2>1, <2>2, SocketSteps DEF SocketInv, Unadmitted, Keeps
  <2>3. CASE \E c \in Conns : Admits(c)
    <3> PICK c \in Conns : Admits(c)
      BY <2>3
    <3>1. \A d \in AdmittedSockets' \ {c} : conn'[d].generation # conn'[c].generation
      BY <1>2, <2>1, HeldBySockets DEF Admits, Keeps
    <3>2. \A d, e \in AdmittedSockets' \ {c} : conn'[d].generation = conn'[e].generation => d = e
      BY <1>2, <2>1 DEF Admits, Keeps, SocketInv
    <3>3. QED
      BY <1>2, <3>1, <3>2, SocketSteps DEF SocketInv, Unadmitted
  <2>4. QED
    BY <1>2, <2>2, <2>3, SocketSteps
<1>3. QED
  BY <1>1, <1>2, Types, PTL DEF Spec

-----------------------------------------------------------------------------
(* A generation stands for the socket a job was sent over. *)

\* A job is under way where it was, and known as it was or from where it was.
Settled(j) ==
  /\ \A d \in Conns : j \in toRuntime'[d].jobs => j \in toRuntime[d].jobs
  /\ jobs'[j].known => \/ jobs[j].known /\ jobs'[j].origin = jobs[j].origin
                       \/ \E d \in Conns : jobs'[j].origin = d /\ j \in toRuntime[d].jobs

\* A job that goes to no new socket stays where it is.
LEMMA SettledStays ==
  ASSUME \A d \in Conns : toRuntime'[d].jobs \subseteq toRuntime[d].jobs,
         \A j \in Jobs : jobs'[j].known => jobs[j].known /\ jobs'[j].origin = jobs[j].origin
  PROVE  \A j \in Jobs : Settled(j)
BY DEF Settled

\* Flushing changes neither what is known nor where it came from.
LEMMA FlushOrigins ==
  ASSUME NEW rj \in [Jobs -> RuntimeJob], NEW js,
         FlushOver(rj, js) \/ (jobs' = rj /\ UNCHANGED toRelay), NEW j \in Jobs
  PROVE  jobs'[j].known = rj[j].known /\ jobs'[j].origin = rj[j].origin
<1>1. rj[j] \in RuntimeJob
  OBVIOUS
<1>2. jobs'[j] = rj[j] \/ jobs'[j] = [rj[j] EXCEPT !.resultSentOn = socket]
  BY DEF FlushOver, Flush
<1>3. QED
  BY <1>1, <1>2 DEF RuntimeJob

\* A job that has a record stays settled; one that has none may be sent.
LEMMA JobSteps ==
  ASSUME TypeOK, [Next]_vars, NEW i \in Jobs, record[i].kept
  PROVE  Settled(i)
<1>1. toRuntime \in [Conns -> ToRuntime] /\ \A c \in Conns : toRuntime[c].jobs \subseteq Jobs
  BY DEF TypeOK, RelayTypeOK, ToRuntime
<1>2. ASSUME UNCHANGED jobs PROVE \A j \in Jobs : jobs'[j].known
                                    => jobs[j].known /\ jobs'[j].origin = jobs[j].origin
  BY <1>2
<1>3. ASSUME NEW j \in Jobs, NEW src, ReceiveJob(j, src), UNCHANGED jobs
      PROVE  Settled(i)
  <2>1. CASE toRuntime' = toRuntime
    BY <1>3, <2>1 DEF Settled
  <2>2. ASSUME NEW c \in Conns, HandOver(Reap(record, clock), j, src, c), j # i
        PROVE  Settled(i)
    <3>1. toRuntime' \in {toRuntime,
                          [toRuntime EXCEPT ![c] = [toRuntime[c] EXCEPT !.jobs = @ \cup {j}]]}
      BY <2>2 DEF HandOver, Frames
    <3>2. \A d \in Conns : toRuntime'[d].jobs \subseteq toRuntime[d].jobs \cup {j}
      BY <1>1, <3>1 DEF ToRuntime
    <3>3. QED
      BY <1>3, <2>2, <3>2 DEF Settled
  <2>3. QED
    BY <1>3, <2>1, <2>2 DEF ReceiveJob, AnswerUnavailable, Targets
<1>4. CASE Callers
  <2> PICK j \in Jobs : Dispatch(j) \/ CallerTimeout(j) \/ ClientSends(j) \/ ClientLeaves(j)
    BY <1>4 DEF Callers
  <2>1. CASE Dispatch(j) \/ ClientSends(j)
    BY <1>3, <2>1
       DEF Dispatch, InternalDispatchRequest, ClientSends, ClientJob, runtimeVars
  <2>2. CASE CallerTimeout(j) \/ ClientLeaves(j)
    BY <2>2 DEF CallerTimeout, ClientLeaves, runtimeVars, Settled
  <2>3. QED
    BY <2>1, <2>2
<1>5. CASE RelayFetch
  BY <1>2, <1>5, FramesJobs, SettledStays DEF RelayFetch, Fetch, runtimeVars
<1>6. CASE RelayAdmit
  BY <1>2, <1>6, FramesJobs, SettledStays DEF RelayAdmit, AdmitRuntime, Hello, runtimeVars
<1>7. CASE RelayResult \/ RelayDigest \/ RelayClose
  BY <1>7
     DEF RelayResult, ReceiveResult, RelayDigest, FinishResult, RelayClose, WebSocketClose,
         runtimeVars, Settled
<1>8. CASE RelayAlarm \/ RelayUnload \/ RelayRestart \/ Time \/ UNCHANGED vars
  BY <1>8
     DEF RelayAlarm, Alarm, RelayUnload, Hibernate, RelayRestart, Restart, Time, Tick, vars,
         relayVars, runtimeVars, Settled
<1>9. CASE RuntimeConnects
  BY <1>2, <1>9, FramesJobs, SettledStays DEF RuntimeConnects, Connect
<1>10. CASE RuntimeHears
  <2> PICK c \in Conns : OnChallenge(c) \/ OnConnected(c) \/ OnJob(c)
    BY <1>10 DEF RuntimeHears
  <2>1. CASE OnChallenge(c)
    BY <1>2, <2>1, FramesJobs, SettledStays DEF OnChallenge
  <2>2. CASE OnConnected(c)
    <3>1. \A d \in Conns : toRuntime'[d].jobs \subseteq toRuntime[d].jobs
      BY <2>2, FramesJobs DEF OnConnected
    <3>2. jobs \in [Jobs -> RuntimeJob] /\ FlushOver(jobs, Jobs)
      BY <2>2 DEF OnConnected, TypeOK, RuntimeTypeOK
    <3>3. QED
      BY <3>1, <3>2, FlushOrigins, SettledStays
  <2>3. CASE OnJob(c)
    <3> PICK j \in Jobs : Heard(c, j)
      BY <2>3, OnJobHeard
    <3>1. \A d \in Conns : toRuntime'[d].jobs \subseteq toRuntime[d].jobs
      BY <1>1 DEF Heard, ToRuntime
    <3>2. jobs \in [Jobs -> RuntimeJob]
      BY DEF TypeOK, RuntimeTypeOK
    <3>3. CASE UNCHANGED jobs
      BY <1>2, <3>1, <3>3, SettledStays
    <3>4. CASE FlushOver(jobs, {j})
      BY <3>1, <3>2, <3>4, FlushOrigins, SettledStays
    <3>5. CASE jobs' = [jobs EXCEPT ![j] = [NoRuntimeJob EXCEPT !.known = TRUE, !.origin = c,
                                              !.phase = "delivered", !.executing = TRUE]]
      <4>1. jobs'[j].origin = c /\ j \in toRuntime[c].jobs /\ \A k \in Jobs \ {j} : jobs'[k] = jobs[k]
        BY <3>2, <3>5 DEF NoRuntimeJob, Heard
      <4>2. QED
        BY <3>1, <4>1 DEF Settled
    <3>6. QED
      BY <3>3, <3>4, <3>5 DEF Heard
  <2>4. QED
    BY <2>1, <2>2, <2>3
<1>11. CASE RuntimeReturns
  <2> PICK j \in Jobs : ExecuteReturns(j)
    BY <1>11 DEF RuntimeReturns
  <2> DEFINE rj == [jobs EXCEPT ![j].executing = FALSE, ![j].result = executions[j]]
  <2>1. rj \in [Jobs -> RuntimeJob] /\ \A k \in Jobs : /\ rj[k].known = jobs[k].known
                                                       /\ rj[k].origin = jobs[k].origin
    <3>1. jobs[j] \in RuntimeJob /\ executions[j] \in Nat
      BY DEF TypeOK, RuntimeTypeOK
    <3>2. [jobs[j] EXCEPT !.executing = FALSE, !.result = executions[j]] \in RuntimeJob
      BY <3>1 DEF RuntimeJob
    <3>3. rj = [jobs EXCEPT ![j] = [jobs[j] EXCEPT !.executing = FALSE, !.result = executions[j]]]
      BY DEF TypeOK, RuntimeTypeOK
    <3> HIDE DEF rj
    <3>4. rj \in [Jobs -> RuntimeJob]
      BY <3>2, <3>3 DEF TypeOK, RuntimeTypeOK
    <3>5. \A k \in Jobs : rj[k].known = jobs[k].known /\ rj[k].origin = jobs[k].origin
      BY <3>1, <3>3 DEF TypeOK, RuntimeTypeOK, RuntimeJob
    <3>6. QED
      BY <3>4, <3>5
  <2>2. FlushOver(rj, {j}) \/ (jobs' = rj /\ UNCHANGED toRelay)
    BY DEF ExecuteReturns
  <2>3. toRuntime' = toRuntime
    BY DEF ExecuteReturns
  <2> HIDE DEF rj
  <2>4. \A k \in Jobs : jobs'[k].known = rj[k].known /\ jobs'[k].origin = rj[k].origin
    BY <2>1, <2>2, FlushOrigins
  <2>5. QED
    BY <2>1, <2>3, <2>4 DEF Settled
<1>12. CASE RuntimeExpires \/ RuntimeLoses \/ RuntimeRestarts
  <2>1. \A c \in Conns : toRuntime'[c].jobs \subseteq toRuntime[c].jobs
    <3>1. toRuntime' = toRuntime \/ toRuntime' = [toRuntime EXCEPT ![socket] = Silent]
      BY <1>12
         DEF RuntimeExpires, ExpiryTimer, RuntimeLoses, OnClose, RuntimeRestarts, RuntimeRestart
    <3>2. QED
      BY <1>1, <3>1 DEF Silent
  <2>2. \A j \in Jobs : jobs'[j].known => jobs[j].known /\ jobs'[j].origin = jobs[j].origin
    <3>1. CASE RuntimeExpires \/ RuntimeLoses
      BY <3>1
         DEF RuntimeExpires, ExpiryTimer, RuntimeLoses, OnClose, TypeOK, RuntimeTypeOK, RuntimeJob
    <3>2. CASE RuntimeRestarts
      BY <3>2 DEF RuntimeRestarts, RuntimeRestart, NoRuntimeJob
    <3>3. QED
      BY <1>12, <3>1, <3>2
  <2>3. QED
    BY <2>1, <2>2, SettledStays
<1>13. QED
  BY <1>4, <1>5, <1>6, <1>7, <1>8, <1>9, <1>10, <1>11, <1>12 DEF Next

\* Every frame and every memory of a job is of this socket.
Placed(j, c) ==
  /\ \A d \in Conns : j \in toRuntime[d].jobs => d = c
  /\ jobs[j].known => jobs[j].origin = c

\* The admitted socket that has the generation of a retained record of a fresh
\* job is where the job was sent.
PlacesInv ==
  \A j \in Fresh, c \in AdmittedSockets :
    (/\ record[j].kept /\ clock < record[j].retainedUntil
     /\ conn[c].generation = record[j].generation)
    => Placed(j, c)

\* Where a retained record of a fresh job comes from: it is new, or it was there.
LEMMA RecordBefore ==
  ASSUME TypeOK, UsesInv(Fresh), [Next]_vars, NEW j \in Fresh,
         record'[j].kept, clock' < record'[j].retainedUntil
  PROVE  \/ /\ Creates(j) /\ source[j] = "none"
            /\ UNCHANGED <<conn, jobs, executions>>
         \/ /\ record[j].kept /\ clock < record[j].retainedUntil
            /\ record[j].generation = record'[j].generation
<1>1. /\ record \in [Jobs -> StoredJobRecord] /\ j \in Jobs /\ clock \in Nat
      /\ record[j] \in StoredJobRecord /\ record[j].retainedUntil \in Nat
  BY DEF TypeOK, RelayTypeOK, Fresh, StoredJobRecord, Times
<1>2. ASSUME Fades(record[j], record'[j]), clock' \in {clock, clock + 1}
      PROVE  /\ record[j].kept /\ clock < record[j].retainedUntil
             /\ record[j].generation = record'[j].generation
  <2>1. SameUse(record[j], record'[j])
    BY <1>1, <1>2, FadesSameUse
  <2>2. QED
    BY <1>1, <1>2, <2>1 DEF SameUse
<1>3. CASE AllFade /\ clock' \in {clock, clock + 1}
  BY <1>1, <1>2, <1>3 DEF AllFade
<1>4. CASE \E i \in Jobs : /\ Creates(i) /\ (i \in Fresh => source[i] = "none")
                           /\ UNCHANGED <<clock, conn, runtimeVars>>
  <2> PICK i \in Jobs : /\ Creates(i) /\ (i \in Fresh => source[i] = "none")
                        /\ UNCHANGED <<clock, conn, runtimeVars>>
    BY <1>4
  <2>1. CASE i = j
    BY <2>1 DEF runtimeVars
  <2>2. CASE i # j
    <3>1. Reap(record, clock) \in [Jobs -> StoredJobRecord]
      BY <1>1, ReapType
    <3>2. record' = [Reap(record, clock) EXCEPT ![i] = record'[i]]
      BY DEF Creates
    <3>3. record'[j] = Reap(record, clock)[j]
      BY <1>1, <2>2, <3>1, <3>2
    <3>4. QED
      BY <1>1, <1>2, <3>3, ReapFades
  <2>3. QED
    BY <2>1, <2>2
<1>5. CASE RelayResult
  BY <1>1, <1>2, <1>5, ResultSteps DEF Fades
<1>6. CASE RelayDigest
  <2> PICK w \in digesting :
             /\ record' = record \/ record' = [record EXCEPT ![w.job] = WithResult(w)]
             /\ clock' = clock
    BY <1>6, DigestSteps
  <2>1. CASE record'[j] = record[j]
    BY <1>2, <2>1 DEF Fades
  <2>2. CASE w.job = j /\ record'[j] = WithResult(w)
    <3>1. w \in Digesting /\ w.snapshot.kept
      BY <2>2 DEF UsesInv, TypeOK, RelayTypeOK
    <3>2. SameUse(w.snapshot, record'[j])
      BY <2>2, <3>1, WithResultSays
    <3>3. InTime(w)
      BY <3>2 DEF InTime, SameUse
    <3>4. SameUse(w.snapshot, record[j])
      BY <2>2, <3>3 DEF UsesInv
    <3>5. QED
      BY <3>2, <3>3, <3>4 DEF SameUse, InTime
  <2>3. QED
    BY <1>1, <2>1, <2>2
<1>7. QED
  BY <1>3, <1>4, <1>5, <1>6, RecordSteps

\* Every step keeps the socket of a fresh job's record.
LEMMA PlacesStep ==
  ASSUME TypeOK, FreshInv, ResultsInv, UsesInv(Fresh), SocketInv, PlacesInv, [Next]_vars
  PROVE  PlacesInv'
<1> SUFFICES ASSUME NEW j \in Fresh, NEW c \in AdmittedSockets',
                    record'[j].kept, clock' < record'[j].retainedUntil,
                    conn'[c].generation = record'[j].generation
             PROVE  Placed(j, c)'
  BY DEF PlacesInv, Fresh
<1>1. c \in Conns /\ j \in Jobs
  BY DEF AdmittedSockets, GetWebSockets, Conns, Fresh
<1>2. CASE /\ Creates(j) /\ source[j] = "none"
           /\ UNCHANGED <<conn, jobs, executions>>
  <2>1. j \notin handed /\ executions[j] = 0
    BY <1>2 DEF FreshInv
  <2>2. ~jobs'[j].known
    BY <1>1, <1>2, <2>1 DEF ResultsInv
  <2>3. \A d \in Conns : j \notin toRuntime[d].jobs
    BY <2>1 DEF FreshInv
  <2>4. CASE toRuntime' = toRuntime
    BY <2>2, <2>3, <2>4 DEF Placed
  <2>5. ASSUME NEW b \in Conns, IsOpen(b), conn[b].authenticated,
               record'[j].generation = conn[b].generation,
               toRuntime' = Frames(b, [toRuntime[b] EXCEPT !.jobs = @ \cup {j}])
        PROVE  Placed(j, c)'
    <3>1. b \in AdmittedSockets /\ c \in AdmittedSockets /\ conn[c].generation = conn[b].generation
      BY <1>2, <2>5 DEF AdmittedSockets, GetWebSockets, IsOpen
    <3>2. b = c
      BY <3>1 DEF SocketInv
    <3>3. \A d \in Conns \ {b} : toRuntime'[d] = toRuntime[d]
      BY <2>5 DEF Frames, TypeOK, RelayTypeOK
    <3>4. QED
      BY <2>2, <2>3, <3>2, <3>3 DEF Placed
  <2>6. QED
    BY <1>2, <2>4, <2>5 DEF Creates
<1>3. CASE /\ record[j].kept /\ clock < record[j].retainedUntil
           /\ record[j].generation = record'[j].generation
  <2>1. Settled(j)
    BY <1>1, <1>3, JobSteps
  <2>2. CASE Keeps(c)
    <3>1. Placed(j, c)
      BY <1>3, <2>2 DEF Keeps, PlacesInv
    <3>2. QED
      BY <2>1, <3>1 DEF Placed, Settled
  <2>3. CASE ~Keeps(c)
    <3>1. Admits(c)
      BY <1>1, <2>3, SocketSteps DEF Admits
    <3>2. record[j].generation \in HeldGenerations /\ record[j].generation \in Nat
      BY <1>1, <1>3, HeldBySockets
    <3>3. QED
      BY <1>3, <3>1, <3>2 DEF Admits
  <2>4. QED
    BY <2>2, <2>3
<1>4. QED
  BY <1>2, <1>3, RecordBefore

\* A job is known from the socket that has the generation of its record.
LEMMA Places == Spec => []PlacesInv
<1>1. Init => PlacesInv
  BY DEF Init, RelayInit, PlacesInv, NoRecord, Fresh
<1>2. TypeOK /\ FreshInv /\ ResultsInv /\ UsesInv(Fresh) /\ SocketInv /\ PlacesInv /\ [Next]_vars
        => PlacesInv'
  BY PlacesStep
<1>3. QED
  BY <1>1, <1>2, Types, FreshJobs, Results, FreshUses, Sockets, PTL DEF Spec

\* No generation is given out again while a record of a fresh job has it: the
\* socket that is admitted with it is the one the Runtime got the job on, although
\* unloading and restarts take the reserved generation out of memory.
THEOREM GenerationsAreNotReused == Spec => []GenerationNotReused
<1>1. PlacesInv => GenerationNotReused
  BY DEF PlacesInv, Placed, GenerationNotReused, AdmittedSockets
<1>2. QED
  BY <1>1, Places, PTL

-----------------------------------------------------------------------------
(* A result that waits is of the connection its record was matched with. *)

\* The admitted socket that has the generation of a waiting result is the one
\* that the result came over.
OwnersInv ==
  \A w \in digesting, c \in AdmittedSockets :
    InTime(w) /\ conn[c].generation = w.snapshot.generation => c = w.conn

\* Every step keeps the connection of a waiting result.
LEMMA OwnersStep ==
  ASSUME TypeOK, UsesInv(Jobs), SocketInv, OwnersInv, [Next]_vars
  PROVE  OwnersInv'
<1> SUFFICES ASSUME NEW w \in digesting', NEW c \in AdmittedSockets', InTime(w)',
                    conn'[c].generation = w.snapshot.generation
             PROVE  c = w.conn
  BY DEF OwnersInv
<1>1. c \in Conns
  BY DEF AdmittedSockets, GetWebSockets, Conns
<1>2. CASE RelayResult
  <2> PICK b \in Conns : \E r \in toRelay[b].results :
           /\ (digesting' = digesting /\ conn' \in {conn, ClosedByRelay(conn, {b})}) \/ Waits(b, r)
           /\ UNCHANGED <<clock, record>>
    BY <1>2, ResultSteps
  <2> PICK r \in toRelay[b].results :
           /\ (digesting' = digesting /\ conn' \in {conn, ClosedByRelay(conn, {b})}) \/ Waits(b, r)
           /\ UNCHANGED <<clock, record>>
    OBVIOUS
  <2>1. Keeps(c)
    <3>1. CASE conn' = conn
      BY <3>1 DEF Keeps, AdmittedSockets, GetWebSockets
    <3>2. CASE conn' = ClosedByRelay(conn, {b})
      BY <1>1, <3>2, ClosedKeeps DEF SocketInv
    <3>3. QED
      BY <3>1, <3>2 DEF Waits
  <2>2. CASE w \in digesting
    BY <1>1, <2>1, <2>2 DEF Keeps, OwnersInv, InTime
  <2>3. CASE Waits(b, r) /\ w \notin digesting
    <3>1. w.conn = b /\ w.snapshot.generation = conn[b].generation
      BY <2>3 DEF Waits
    <3>2. b \in AdmittedSockets
      BY <2>3 DEF Waits, AdmittedSockets, GetWebSockets, IsOpen
    <3>3. QED
      BY <1>1, <2>1, <3>1, <3>2 DEF Keeps, SocketInv
  <2>4. QED
    BY <2>2, <2>3
<1>3. CASE digesting' \subseteq digesting /\ clock' \in {clock, clock + 1}
  <2>1. w \in Digesting /\ w.snapshot.retainedUntil \in Nat /\ clock \in Nat /\ w.job \in Jobs
        /\ record[w.job] \in StoredJobRecord
    BY <1>3 DEF TypeOK, RelayTypeOK, Digesting, StoredJobRecord, Times
  <2>2. InTime(w)
    BY <1>3, <2>1 DEF InTime
  <2>3. record[w.job].kept /\ SameUse(w.snapshot, record[w.job])
    BY <1>3, <2>1, <2>2 DEF UsesInv
  <2>4. /\ w.snapshot.generation \in HeldGenerations /\ w.snapshot.generation \in Nat
    BY <2>1, <2>2, <2>3, HeldBySockets DEF SameUse, InTime
  <2>5. CASE Keeps(c)
    BY <1>3, <2>2, <2>5 DEF Keeps, OwnersInv
  <2>6. CASE ~Keeps(c)
    <3>1. Admits(c)
      BY <1>1, <2>6, SocketSteps DEF Admits
    <3>2. QED
      BY <2>4, <3>1 DEF Admits
  <2>7. QED
    BY <2>5, <2>6
<1>4. QED
  <2>1. RelayDigest => digesting' \subseteq digesting /\ clock' = clock
    BY DigestSteps
  <2>2. QED
    BY <1>2, <1>3, <2>1, RecordSteps

\* A result waits for the record of the connection it came over.
LEMMA Owners == Spec /\ []TimelyDigests => []OwnersInv
<1>1. Init => OwnersInv
  BY DEF Init, RelayInit, OwnersInv
<1>2. TypeOK /\ UsesInv(Jobs) /\ SocketInv /\ OwnersInv /\ [Next]_vars => OwnersInv'
  BY OwnersStep
<1>3. QED
  BY <1>1, <1>2, Types, AllUses, Sockets, PTL DEF Spec

-----------------------------------------------------------------------------
(* One connection carries at most one result of a job. *)

\* The Relay has a result of the job from this connection, on its way or waiting.
Owes(c, j) ==
  \/ \E r \in toRelay[c].results : r[1] = j
  \/ \E w \in digesting : w.conn = c /\ w.job = j

SentOnceInv ==
  /\ \A j \in Jobs : jobs[j].result # 0 => jobs[j].known
  /\ \A c \in Conns : \A r, s \in toRelay[c].results : r[1] = s[1] => r = s
  /\ \A c \in Conns : \A r \in toRelay[c].results : \A w \in digesting :
       w.conn = c => w.job # r[1]
  /\ \A v, w \in digesting : v.conn = w.conn /\ v.job = w.job => v = w
  /\ \A c \in Conns, j \in Jobs : Owes(c, j) =>
       /\ conn[c].relay # "none"
       /\ socket = c => jobs[j].known /\ jobs[j].resultSentOn = c

\* Nothing is sent, and a current socket is new or its jobs are as they were.
LEMMA SentStays ==
  ASSUME SentOnceInv, Unadmitted, digesting' \subseteq digesting,
         \A c \in Conns : toRelay'[c].results \subseteq toRelay[c].results,
         \A j \in Jobs : jobs'[j].result # 0 => jobs'[j].known,
         \A c \in Conns : socket' = c =>
           \/ conn[c].relay = "none"
           \/ /\ socket = c
              /\ \A j \in Jobs : jobs[j].known
                                   => jobs'[j].known /\ jobs'[j].resultSentOn = jobs[j].resultSentOn
  PROVE  SentOnceInv'
<1>1. \A c \in Conns, j \in Jobs : Owes(c, j)' => Owes(c, j)
  BY DEF Owes
<1>2. \A c \in Conns, j \in Jobs : Owes(c, j)' =>
        /\ conn'[c].relay # "none"
        /\ socket' = c => jobs'[j].known /\ jobs'[j].resultSentOn = c
  BY <1>1 DEF SentOnceInv, Unadmitted
<1>3. QED
  BY <1>2 DEF SentOnceInv

\* Steps of the Relay and of the callers leave the Runtime as it is.
LEMMA SentStaysRelay ==
  ASSUME SentOnceInv, Unadmitted, digesting' \subseteq digesting,
         \A c \in Conns : toRelay'[c].results \subseteq toRelay[c].results,
         UNCHANGED <<jobs, socket>>
  PROVE  SentOnceInv'
<1>1. \A j \in Jobs : jobs'[j].result # 0 => jobs'[j].known
  BY DEF SentOnceInv
<1>2. QED
  BY <1>1, SentStays

\* Flushing sends the result of a job once on a connection.
LEMMA SentFlushed ==
  ASSUME TypeOK, SentOnceInv, NEW rj \in [Jobs -> RuntimeJob], NEW js \in SUBSET Jobs,
         \A j \in Jobs : /\ rj[j].known = jobs[j].known
                         /\ rj[j].resultSentOn = jobs[j].resultSentOn
                         /\ rj[j].result # 0 => rj[j].known,
         FlushOver(rj, js) \/ (jobs' = rj /\ UNCHANGED toRelay),
         UNCHANGED <<conn, digesting, socket>>
  PROVE  SentOnceInv'
<1>1. ASSUME NEW j \in Jobs
      PROVE  /\ jobs'[j].known = jobs[j].known /\ jobs'[j].result = rj[j].result
             /\ jobs'[j].resultSentOn \in {jobs[j].resultSentOn, socket}
             /\ FlushOver(rj, js) /\ j \in Flushable(rj, js) => jobs'[j].resultSentOn = socket
  <2>1. rj[j] \in RuntimeJob
    OBVIOUS
  <2>2. \/ jobs'[j] = rj[j] /\ ~(FlushOver(rj, js) /\ j \in Flushable(rj, js))
        \/ jobs'[j] = [rj[j] EXCEPT !.resultSentOn = socket]
    BY DEF FlushOver, Flush
  <2>3. QED
    BY <2>1, <2>2 DEF RuntimeJob
<1> DEFINE New(c) == {r \in {<<j, rj[j].result>> : j \in Flushable(rj, js)} :
                        FlushOver(rj, js) /\ socket = c /\ Reaches(c)}
<1>2. ASSUME NEW c \in Conns PROVE toRelay'[c].results \subseteq toRelay[c].results \cup New(c)
  BY DEF FlushOver, Flush, TypeOK, RelayTypeOK
<1>3. ASSUME NEW c \in Conns, NEW r \in New(c)
      PROVE  /\ r[1] \in Flushable(rj, js) /\ r = <<r[1], rj[r[1]].result>>
             /\ FlushOver(rj, js) /\ socket = c /\ Reaches(c)
  BY <1>3
<1>4. \A j \in Flushable(rj, js) : j \in Jobs /\ rj[j].result # 0 /\ jobs[j].resultSentOn # socket
  BY DEF Flushable
<1> HIDE DEF New
<1>5. ASSUME NEW c \in Conns, NEW r \in New(c)
      PROVE  r[1] \in Jobs /\ ~Owes(c, r[1])
  <2>1. r[1] \in Jobs /\ jobs[r[1]].resultSentOn # c /\ socket = c
    BY <1>3, <1>4, <1>5
  <2>2. QED
    BY <2>1 DEF SentOnceInv
<1>6. \A c \in Conns : \A r, s \in toRelay'[c].results : r[1] = s[1] => r = s
  <2> SUFFICES ASSUME NEW c \in Conns, NEW r \in toRelay'[c].results,
                      NEW s \in toRelay'[c].results, r[1] = s[1]
               PROVE  r = s
    OBVIOUS
  <2>1. CASE r \in toRelay[c].results /\ s \in toRelay[c].results
    BY <2>1 DEF SentOnceInv
  <2>2. CASE r \in New(c) /\ s \in New(c)
    BY <1>3, <2>2
  <2>3. CASE r \in New(c) /\ s \in toRelay[c].results
    BY <1>5, <2>3 DEF Owes
  <2>4. CASE s \in New(c) /\ r \in toRelay[c].results
    BY <1>5, <2>4 DEF Owes
  <2>5. QED
    BY <1>2, <2>1, <2>2, <2>3, <2>4
<1>7. \A c \in Conns : \A r \in toRelay'[c].results : \A w \in digesting :
        w.conn = c => w.job # r[1]
  BY <1>2, <1>5 DEF SentOnceInv, Owes
<1>8. ASSUME NEW c \in Conns, NEW j \in Jobs, Owes(c, j)'
      PROVE  /\ conn[c].relay # "none"
             /\ socket = c => jobs'[j].known /\ jobs'[j].resultSentOn = c
  <2>1. CASE Owes(c, j)
    BY <1>1, <2>1 DEF SentOnceInv
  <2>2. CASE ~Owes(c, j)
    <3> PICK r \in New(c) : r[1] = j
      BY <1>2, <1>8, <2>2 DEF Owes
    <3>1. j \in Flushable(rj, js) /\ FlushOver(rj, js) /\ socket = c /\ Reaches(c)
      BY <1>3
    <3>2. jobs'[j].known /\ jobs'[j].resultSentOn = c
      BY <1>1, <1>4, <3>1
    <3>3. QED
      BY <3>1, <3>2 DEF Reaches
  <2>3. QED
    BY <2>1, <2>2
<1>9. \A j \in Jobs : jobs'[j].result # 0 => jobs'[j].known
  BY <1>1
<1>10. QED
  BY <1>6, <1>7, <1>8, <1>9 DEF SentOnceInv

\* The Relay takes the one result of its job off the connection.
LEMMA SentTaken ==
  ASSUME TypeOK, SentOnceInv, Unadmitted, NEW c \in Conns, NEW r \in toRelay[c].results,
         toRelay' = [toRelay EXCEPT ![c].results = @ \ {r}],
         digesting' = digesting \/ Waits(c, r), UNCHANGED <<jobs, socket>>
  PROVE  SentOnceInv'
<1>1. /\ toRelay'[c].results = toRelay[c].results \ {r}
      /\ \A d \in Conns : toRelay'[d].results \subseteq toRelay[d].results
  BY DEF TypeOK, RelayTypeOK
<1>2. CASE digesting' = digesting
  BY <1>1, <1>2, SentStaysRelay
<1>3. CASE Waits(c, r)
  <2> DEFINE new == [conn |-> c, job |-> r[1], digest |-> r[2], snapshot |-> record[r[1]]]
  <2>1. digesting' = digesting \cup {new} /\ new.conn = c /\ new.job = r[1]
    BY <1>3 DEF Waits
  <2> HIDE DEF new
  <2>2. \A d \in Conns, j \in Jobs : Owes(d, j)' => Owes(d, j)
    BY <1>1, <2>1 DEF Owes
  <2>3. \A d \in Conns, j \in Jobs : Owes(d, j)' =>
          /\ conn'[d].relay # "none"
          /\ socket' = d => jobs'[j].known /\ jobs'[j].resultSentOn = d
    BY <2>2 DEF SentOnceInv, Unadmitted
  <2>4. \A v \in digesting : v.conn = c => v.job # r[1]
    BY DEF SentOnceInv
  <2>5. \A v, w \in digesting' : v.conn = w.conn /\ v.job = w.job => v = w
    BY <2>1, <2>4 DEF SentOnceInv
  <2>6. \A d \in Conns : \A s \in toRelay'[d].results : \A w \in digesting' :
          w.conn = d => w.job # s[1]
    <3>1. \A s \in toRelay'[c].results : s[1] # r[1]
      BY <1>1 DEF SentOnceInv
    <3>2. QED
      BY <1>1, <2>1, <3>1 DEF SentOnceInv
  <2>7. QED
    BY <1>1, <2>3, <2>5, <2>6 DEF SentOnceInv
<1>4. QED
  BY <1>2, <1>3

\* Every step keeps it: a socket carries one result of a job.
LEMMA SentOnceStep ==
  ASSUME TypeOK, SocketInv, SentOnceInv, [Next]_vars
  PROVE  SentOnceInv'
<1>1. Unadmitted
  BY SocketSteps
<1>2. jobs \in [Jobs -> RuntimeJob] /\ \A c \in Conns : c # NoConn
  BY DEF TypeOK, RuntimeTypeOK, Conns, NoConn
<1>3. CASE Callers
  BY <1>1, <1>3, SentStaysRelay
     DEF Callers, Dispatch, InternalDispatchRequest, CallerTimeout, ClientSends, ClientJob,
         ClientLeaves, runtimeVars
<1>4. CASE RelayFetch \/ RelayAlarm \/ RelayUnload
  BY <1>1, <1>4, SentStaysRelay
     DEF RelayFetch, Fetch, RelayAlarm, Alarm, RelayUnload, Hibernate, runtimeVars
<1>5. CASE RelayAdmit
  BY <1>1, <1>5, SentStaysRelay DEF RelayAdmit, AdmitRuntime, runtimeVars, TypeOK, RelayTypeOK
<1>6. CASE RelayResult
  BY <1>1, <1>6, ResultSteps, SentTaken DEF runtimeVars
<1>7. CASE RelayDigest
  BY <1>1, <1>7, SentStaysRelay DEF RelayDigest, FinishResult, runtimeVars
<1>8. CASE RelayClose
  BY <1>1, <1>8, SentStaysRelay DEF RelayClose, WebSocketClose, runtimeVars, TypeOK, RelayTypeOK
<1>9. CASE RelayRestart
  BY <1>1, <1>9, SentStaysRelay DEF RelayRestart, Restart, runtimeVars
<1>10. CASE RuntimeConnects
  <2> PICK c \in Conns : Connect(c)
    BY <1>10 DEF RuntimeConnects
  <2>1. /\ socket' = c /\ conn[c].relay = "none"
        /\ UNCHANGED <<jobs, toRelay, digesting>>
    BY DEF Connect
  <2>2. \A j \in Jobs : jobs'[j].result # 0 => jobs'[j].known
    BY <2>1 DEF SentOnceInv
  <2>3. QED
    BY <1>1, <2>1, <2>2, SentStays
<1>11. CASE RuntimeHears
  <2> PICK c \in Conns : OnChallenge(c) \/ OnConnected(c) \/ OnJob(c)
    BY <1>11 DEF RuntimeHears
  <2>1. CASE OnChallenge(c)
    <3>1. \A d \in Conns : toRelay'[d].results \subseteq toRelay[d].results
      BY <2>1 DEF OnChallenge, TypeOK, RelayTypeOK
    <3>2. QED
      BY <1>1, <2>1, <3>1, SentStaysRelay DEF OnChallenge, OnlyRuntime
  <2>2. CASE OnConnected(c)
    <3>1. FlushOver(jobs, Jobs) /\ UNCHANGED <<conn, digesting, socket>>
      BY <2>2 DEF OnConnected, OnlyRuntime
    <3>2. QED
      BY <1>2, <3>1, SentFlushed DEF SentOnceInv
  <2>3. CASE OnJob(c)
    <3> PICK j \in Jobs : Heard(c, j)
      BY <2>3, OnJobHeard
    <3>1. UNCHANGED <<conn, digesting, socket>>
      BY DEF Heard, OnlyRuntime
    <3>2. CASE UNCHANGED <<jobs, toRelay>>
      BY <1>1, <3>1, <3>2, SentStaysRelay
    <3>3. CASE FlushOver(jobs, {j})
      <4>1. {j} \in SUBSET Jobs
        OBVIOUS
      <4>2. QED
        BY <1>2, <3>1, <3>3, <4>1, SentFlushed DEF SentOnceInv
    <3>4. CASE /\ ~jobs[j].known
               /\ jobs' = [jobs EXCEPT ![j] = [NoRuntimeJob EXCEPT !.known = TRUE, !.origin = c,
                                                 !.phase = "delivered", !.executing = TRUE]]
               /\ UNCHANGED toRelay
      <4>1. /\ jobs'[j].result = 0
            /\ \A i \in Jobs \ {j} : jobs'[i] = jobs[i]
        BY <1>2, <3>4 DEF NoRuntimeJob
      <4>2. \A i \in Jobs : jobs'[i].result # 0 => jobs'[i].known
        BY <4>1 DEF SentOnceInv
      <4>3. \A i \in Jobs : jobs[i].known
              => jobs'[i].known /\ jobs'[i].resultSentOn = jobs[i].resultSentOn
        BY <3>4, <4>1
      <4>4. QED
        BY <1>1, <3>1, <3>4, <4>2, <4>3, SentStays
    <3>5. QED
      BY <2>3, <3>2, <3>3, <3>4 DEF Heard
  <2>4. QED
    BY <2>1, <2>2, <2>3
<1>12. CASE RuntimeReturns
  <2> PICK j \in Jobs : ExecuteReturns(j)
    BY <1>12 DEF RuntimeReturns
  <2> DEFINE rj == [jobs EXCEPT ![j].executing = FALSE, ![j].result = executions[j]]
  <2>1. /\ rj \in [Jobs -> RuntimeJob]
        /\ \A k \in Jobs : /\ rj[k].known = jobs[k].known
                           /\ rj[k].resultSentOn = jobs[k].resultSentOn
                           /\ rj[k].result # 0 => rj[k].known
    <3>1. jobs[j] \in RuntimeJob /\ executions[j] \in Nat /\ jobs[j].known
      BY DEF TypeOK, RuntimeTypeOK, ExecuteReturns
    <3>2. [jobs[j] EXCEPT !.executing = FALSE, !.result = executions[j]] \in RuntimeJob
      BY <3>1 DEF RuntimeJob
    <3>3. rj = [jobs EXCEPT ![j] = [jobs[j] EXCEPT !.executing = FALSE, !.result = executions[j]]]
      BY <1>2
    <3> HIDE DEF rj
    <3>4. rj \in [Jobs -> RuntimeJob] /\ \A k \in Jobs \ {j} : rj[k] = jobs[k]
      BY <1>2, <3>2, <3>3
    <3>5. rj[j].known = jobs[j].known /\ rj[j].resultSentOn = jobs[j].resultSentOn
      BY <1>2, <3>1, <3>3 DEF RuntimeJob
    <3>6. QED
      BY <3>1, <3>4, <3>5 DEF SentOnceInv
  <2>2. FlushOver(rj, {j}) \/ (jobs' = rj /\ UNCHANGED toRelay)
    BY DEF ExecuteReturns
  <2>3. UNCHANGED <<conn, digesting, socket>> /\ {j} \in SUBSET Jobs
    BY DEF ExecuteReturns, OnlyRuntime
  <2> HIDE DEF rj
  <2>4. QED
    BY <2>1, <2>2, <2>3, SentFlushed
<1>13. CASE RuntimeExpires \/ RuntimeLoses
  <2>1. \A j \in Jobs : /\ jobs'[j].known = jobs[j].known /\ jobs'[j].result = jobs[j].result
                        /\ jobs'[j].resultSentOn = jobs[j].resultSentOn
    BY <1>13
       DEF RuntimeExpires, ExpiryTimer, RuntimeLoses, OnClose, TypeOK, RuntimeTypeOK, RuntimeJob
  <2>2. UNCHANGED <<toRelay, digesting>> /\ socket' \in {socket, NoConn}
    BY <1>13 DEF RuntimeExpires, ExpiryTimer, RuntimeLoses, OnClose, OnlyRuntime
  <2>3. \A j \in Jobs : jobs'[j].result # 0 => jobs'[j].known
    BY <2>1 DEF SentOnceInv
  <2>4. QED
    BY <1>1, <1>2, <2>1, <2>2, <2>3, SentStays
<1>14. CASE RuntimeRestarts
  <2>1. /\ UNCHANGED <<toRelay, digesting>> /\ socket' = NoConn
        /\ \A j \in Jobs : jobs'[j].result # 0 => jobs'[j].known
    BY <1>14 DEF RuntimeRestarts, RuntimeRestart, OnlyRuntime, NoRuntimeJob
  <2>2. QED
    BY <1>1, <1>2, <2>1, SentStays
<1>15. CASE Time \/ UNCHANGED vars
  BY <1>1, <1>15, SentStaysRelay DEF Time, Tick, vars, relayVars, runtimeVars
<1>16. QED
  BY <1>3, <1>4, <1>5, <1>6, <1>7, <1>8, <1>9, <1>10, <1>11, <1>12, <1>13, <1>14, <1>15 DEF Next

\* A connection carries one result of a job, from the Runtime into the record.
LEMMA SentOnce == Spec => []SentOnceInv
<1>1. Init => SentOnceInv
  BY DEF Init, RelayInit, RuntimeInit, SentOnceInv, Owes, NoRuntimeJob
<1>2. TypeOK /\ SocketInv /\ SentOnceInv /\ [Next]_vars => SentOnceInv'
  BY SentOnceStep
<1>3. QED
  BY <1>1, <1>2, Types, Sockets, PTL DEF Spec

-----------------------------------------------------------------------------
(* What is recorded stays recorded. *)

\* The one result that waits for a job of a client is to be saved over the record
\* it was matched with, which at most aged since.
ClientsInv ==
  \A w \in digesting : w.job \in SocketClients =>
    /\ Ages(w.snapshot, record[w.job])
    /\ \A v \in digesting : v.job = w.job => v = w

\* Ageing twice is ageing.
LEMMA AgesAgain ==
  ASSUME NEW r, NEW s, NEW t, Ages(r, s), Ages(s, t)
  PROVE  Ages(r, t)
<1>1. SameUse(r, t)
  BY DEF Ages, SameUse
<1>2. \/ t.state = r.state
      \/ Unsent(r.state.phase) /\ t.state.phase \in {"unavailable", "expired"}
      \/ InTransit(r.state.phase) /\ t.state.phase = "possibly-delivered"
  BY DEF Ages, Unsent, InTransit
<1>3. QED
  BY <1>1, <1>2 DEF Ages

\* Every step keeps the waiting result of a client's job.
LEMMA ClientsStep ==
  ASSUME TypeOK, TimelyDigests, UsesInv(Jobs), SocketInv, OwnersInv, SentOnceInv, ClientsInv,
         [Next]_vars
  PROVE  ClientsInv'
<1> DEFINE Waiting(w) == w \in digesting /\ w.job \in SocketClients
<1>1. ASSUME NEW w, Waiting(w)
      PROVE  /\ w.job \in Jobs /\ record[w.job] \in StoredJobRecord
             /\ InTime(w) /\ record[w.job].kept /\ SameUse(w.snapshot, record[w.job])
             /\ record[w.job].retainedUntil > clock /\ ~(clock >= record[w.job].retainedUntil)
  <2>1. /\ w.job \in Jobs /\ record[w.job] \in StoredJobRecord /\ clock \in Nat
        /\ record[w.job].retainedUntil \in Nat
    BY <1>1 DEF TypeOK, RelayTypeOK, Digesting, StoredJobRecord, Times
  <2>2. InTime(w)
    BY <1>1 DEF TimelyDigests, InTime
  <2>3. record[w.job].kept /\ SameUse(w.snapshot, record[w.job])
    BY <1>1, <2>1, <2>2 DEF UsesInv
  <2>4. QED
    BY <2>1, <2>2, <2>3 DEF InTime, SameUse
<1>2. ASSUME NEW w, Waiting(w), Fades(record[w.job], record'[w.job])
      PROVE  Ages(w.snapshot, record'[w.job])
  BY <1>1, <1>2, AgesAgain DEF Fades, ClientsInv
<1>3. ASSUME digesting' \subseteq digesting,
             \A w \in digesting' : w.job \in SocketClients => Fades(record[w.job], record'[w.job])
      PROVE  ClientsInv'
  BY <1>2, <1>3 DEF ClientsInv
<1>4. CASE AllFade /\ digesting' \subseteq digesting
  BY <1>1, <1>3, <1>4 DEF AllFade
<1>5. CASE \E j \in Jobs : Creates(j) /\ UNCHANGED digesting
  <2> PICK j \in Jobs : Creates(j) /\ UNCHANGED digesting
    BY <1>5
  <2>1. /\ record \in [Jobs -> StoredJobRecord]
        /\ Reap(record, clock) \in [Jobs -> StoredJobRecord]
    BY ReapType DEF TypeOK, RelayTypeOK
  <2>2. record' = [Reap(record, clock) EXCEPT ![j] = record'[j]] /\ ~record[j].kept
    BY DEF Creates
  <2>3. \A i \in Jobs \ {j} : record'[i] = Reap(record, clock)[i]
    BY <2>1, <2>2
  <2>4. \A i \in Jobs \ {j} : Fades(record[i], record'[i])
    BY <2>1, <2>3, ReapFades
  <2>5. \A w \in digesting : w.job \in SocketClients => w.job \in Jobs \ {j}
    BY <1>1, <2>2
  <2>6. QED
    BY <1>3, <2>4, <2>5
<1>6. CASE RelayResult
  <2> PICK c \in Conns : \E r \in toRelay[c].results :
           (digesting' = digesting \/ Waits(c, r)) /\ record' = record
    BY <1>6, ResultSteps
  <2> PICK r \in toRelay[c].results :
           (digesting' = digesting \/ Waits(c, r)) /\ record' = record
    OBVIOUS
  <2>1. CASE digesting' = digesting
    BY <2>1 DEF ClientsInv
  <2>2. CASE Waits(c, r)
    <3> DEFINE new == [conn |-> c, job |-> r[1], digest |-> r[2], snapshot |-> record[r[1]]]
    <3>1. /\ digesting' = digesting \cup {new} /\ new.job = r[1] /\ new.snapshot = record[r[1]]
          /\ record[r[1]].kept /\ record[r[1]].generation = conn[c].generation
          /\ c \in AdmittedSockets
      BY <2>2 DEF Waits, AdmittedSockets, GetWebSockets, IsOpen
    <3> HIDE DEF new
    <3>2. Ages(new.snapshot, record'[new.job])
      BY <3>1 DEF Ages, SameUse
    <3>3. ASSUME NEW v, Waiting(v) PROVE v.job # r[1]
      <4> SUFFICES ASSUME v.job = r[1] PROVE FALSE
        OBVIOUS
      <4>1. v.snapshot.generation = conn[c].generation /\ InTime(v)
        BY <1>1, <3>1, <3>3 DEF SameUse
      <4>2. v.conn = c
        BY <3>1, <3>3, <4>1 DEF OwnersInv
      <4>3. QED
        BY <3>3, <4>2 DEF SentOnceInv
    <3>4. \A w \in digesting' : w.job \in SocketClients => Ages(w.snapshot, record'[w.job])
      BY <3>1, <3>2 DEF ClientsInv
    <3>5. \A v, w \in digesting' : w.job \in SocketClients /\ v.job = w.job => v = w
      BY <3>1, <3>3 DEF ClientsInv
    <3>6. QED
      BY <3>4, <3>5 DEF ClientsInv
  <2>3. QED
    BY <2>1, <2>2
<1>7. CASE RelayDigest
  <2> PICK u \in digesting :
             /\ digesting' = digesting \ {u}
             /\ record' = record \/ record' = [record EXCEPT ![u.job] = WithResult(u)]
    BY <1>7, DigestSteps
  <2>1. ASSUME NEW w \in digesting', w.job \in SocketClients
        PROVE  Fades(record[w.job], record'[w.job])
    <3>1. w.job # u.job
      BY <2>1 DEF ClientsInv
    <3>2. record'[w.job] = record[w.job]
      BY <1>1, <2>1, <3>1 DEF TypeOK, RelayTypeOK
    <3>3. QED
      BY <3>2 DEF Fades
  <2>2. QED
    BY <1>3, <2>1
<1>8. QED
  BY <1>4, <1>5, <1>6, <1>7, RecordSteps

\* If digests are in time, a repeated id has one result waiting, for its record.
LEMMA Clients == Spec /\ []TimelyDigests => []ClientsInv
<1>1. Init => ClientsInv
  BY DEF Init, RelayInit, ClientsInv
<1>2. TypeOK /\ TimelyDigests /\ UsesInv(Jobs) /\ SocketInv /\ OwnersInv /\ SentOnceInv
        /\ ClientsInv /\ [Next]_vars => ClientsInv'
  BY ClientsStep
<1>3. QED
  BY <1>1, <1>2, Types, AllUses, Sockets, Owners, SentOnce, PTL DEF Spec

\* What a record says of a delivery, and a terminal digest, are never taken back.
KeepsEvidence(j) ==
  record[j].kept /\ DeliveryEvidence(record[j].state.phase) # "not-delivered"
  => \/ DeliveryEvidence(record'[j].state.phase) # "not-delivered"
     \/ clock >= record[j].retainedUntil

KeepsDigest(j) ==
  record[j].kept /\ IsTerminal(record[j].state) /\ record'[j].kept
  => record'[j].state = record[j].state

\* A record that fades takes nothing back.
LEMMA FadesKeep ==
  ASSUME TypeOK, TypeOK', NEW j \in Jobs, Fades(record[j], record'[j])
  PROVE  KeepsEvidence(j) /\ KeepsDigest(j)
<1>1. record[j] \in StoredJobRecord /\ record'[j] \in StoredJobRecord
  BY DEF TypeOK, RelayTypeOK
<1>2. \/ record'[j] = record[j]
      \/ Ages(record[j], record'[j])
      \/ clock >= record[j].retainedUntil /\ ~record'[j].kept
  BY DEF Fades, NoRecord
<1>3. KeepsEvidence(j)
  <2>1. record[j].kept /\ ~record'[j].kept => clock >= record[j].retainedUntil
    BY <1>2 DEF Ages, SameUse
  <2>2. QED
    BY <1>1, <2>1, FadesSays DEF KeepsEvidence
<1>4. KeepsDigest(j)
  BY <1>2 DEF KeepsDigest, Ages, IsTerminal, Unsent, InTransit
<1>5. QED
  BY <1>3, <1>4

\* Neither does the result of a fresh job that is saved late: there is one digest.
LEMMA FreshDigestKeeps ==
  ASSUME TypeOK, UsesInv(Fresh), FreshResultsInv, NEW w \in digesting, w.job \in Fresh,
         record'[w.job] = WithResult(w)
  PROVE  KeepsEvidence(w.job) /\ KeepsDigest(w.job)
<1>1. w \in Digesting /\ w.snapshot.kept /\ w.job \in Jobs
  BY DEF TypeOK, RelayTypeOK, UsesInv, Fresh
<1>2. /\ record[w.job].state \in RelayDeliveryState /\ w.snapshot.state \in RelayDeliveryState
      /\ w.snapshot.state.phase \in RelayDeliveryPhase
  BY <1>1 DEF TypeOK, RelayTypeOK, Digesting, StoredJobRecord, RelayDeliveryState
<1>3. /\ w.digest = 1 /\ w.snapshot.state.digest <= 1 /\ record[w.job].state.digest <= 1
      /\ DeliveryEvidence(w.snapshot.state.phase) # "not-delivered"
  BY DEF FreshResultsInv
<1>4. w.snapshot.state.phase # "expired"
  BY <1>3 DEF DeliveryEvidence
<1>5. \A s \in RelayDeliveryState : s.phase = "terminal-result" /\ s.digest <= 1
                                      => s = [phase |-> "terminal-result", digest |-> 1]
  BY DEF RelayDeliveryState, NoDigest
<1>6. record'[w.job].state = [phase |-> "terminal-result", digest |-> 1]
  BY <1>1, <1>2, <1>3, <1>4, <1>5, WithResultSays
<1>7. KeepsEvidence(w.job)
  BY <1>6 DEF KeepsEvidence, DeliveryEvidence
<1>8. KeepsDigest(w.job)
  BY <1>2, <1>3, <1>5, <1>6 DEF KeepsDigest, IsTerminal
<1>9. QED
  BY <1>7, <1>8

\* Nor the one result of a repeated id, while it is in time.
LEMMA ClientDigestKeeps ==
  ASSUME TypeOK, ClientsInv, NEW w \in digesting, w.job \in SocketClients,
         record'[w.job] = WithResult(w)
  PROVE  KeepsEvidence(w.job) /\ KeepsDigest(w.job)
<1>1. w \in Digesting /\ Ages(w.snapshot, record[w.job])
  BY DEF TypeOK, RelayTypeOK, ClientsInv
<1>2. w.snapshot.kept
  BY <1>1 DEF Ages, SameUse
<1>3. CASE /\ record'[w.job].state = [phase |-> "terminal-result", digest |-> w.digest]
           /\ w.snapshot.state.phase \notin {"expired", "terminal-result"}
  <2>1. KeepsEvidence(w.job)
    BY <1>3 DEF KeepsEvidence, DeliveryEvidence
  <2>2. record[w.job].state.phase # "terminal-result"
    BY <1>1, <1>3 DEF Ages
  <2>3. QED
    BY <2>1, <2>2 DEF KeepsDigest, IsTerminal
<1>4. CASE /\ record'[w.job].state = w.snapshot.state
           /\ w.snapshot.state.phase \in {"expired", "terminal-result"}
  <2>1. record[w.job].state = w.snapshot.state
    BY <1>1, <1>4 DEF Ages, Unsent, InTransit
  <2>2. QED
    BY <1>4, <2>1 DEF KeepsEvidence, KeepsDigest
<1>5. QED
  BY <1>1, <1>2, <1>3, <1>4, WithResultSays

\* Every step keeps the evidence and the digest of every record.
LEMMA KeepsStep ==
  ASSUME TypeOK, TypeOK', UsesInv(Fresh), FreshResultsInv, [Next]_vars, NEW j \in Jobs,
         j \in Fresh \/ ClientsInv
  PROVE  KeepsEvidence(j) /\ KeepsDigest(j)
<1>1. CASE Fades(record[j], record'[j])
  BY <1>1, FadesKeep
<1>2. CASE \E i \in Jobs : Creates(i)
  <2> PICK i \in Jobs : Creates(i)
    BY <1>2
  <2>1. CASE i = j
    BY <2>1 DEF Creates, KeepsEvidence, KeepsDigest
  <2>2. CASE i # j
    <3>1. /\ record \in [Jobs -> StoredJobRecord]
          /\ Reap(record, clock) \in [Jobs -> StoredJobRecord]
      BY ReapType DEF TypeOK, RelayTypeOK
    <3>2. record' = [Reap(record, clock) EXCEPT ![i] = record'[i]]
      BY DEF Creates
    <3>3. record'[j] = Reap(record, clock)[j]
      BY <2>2, <3>1, <3>2
    <3>4. QED
      BY <1>1, <3>1, <3>3, ReapFades
  <2>3. QED
    BY <2>1, <2>2
<1>3. CASE RelayDigest
  <2> PICK w \in digesting :
             record' = record \/ record' = [record EXCEPT ![w.job] = WithResult(w)]
    BY <1>3, DigestSteps
  <2>1. CASE record'[j] = record[j]
    BY <1>1, <2>1 DEF Fades
  <2>2. CASE w.job = j /\ record'[j] = WithResult(w)
    BY <2>2, FreshDigestKeeps, ClientDigestKeeps DEF Fresh
  <2>3. QED
    BY <2>1, <2>2 DEF TypeOK, RelayTypeOK
<1>4. QED
  <2>1. RelayResult => record' = record
    BY ResultSteps
  <2>2. QED
    BY <1>1, <1>2, <1>3, <2>1, RecordSteps DEF AllFade, Fades

\* For jobs under fresh ids, whatever is late: the records never take back that a
\* job was or may have been delivered, and a recorded digest is final.
THEOREM FreshRecordsAreFinal ==
  Spec => [][\A j \in Fresh : KeepsEvidence(j) /\ KeepsDigest(j)]_vars
<1>1. TypeOK /\ TypeOK' /\ UsesInv(Fresh) /\ FreshResultsInv /\ [Next]_vars
        => \A j \in Fresh : KeepsEvidence(j) /\ KeepsDigest(j)
  BY KeepsStep DEF Fresh
<1>2. QED
  BY <1>1, Types, FreshUses, FreshResults, PTL DEF Spec

\* If the digests of repeated ids are in time, no record that says that its job was
\* or may have been delivered says later that it was not, until it is reaped.
THEOREM EvidenceStays == Spec /\ []TimelyDigests => EvidenceIsNeverRetracted
<1>1. TypeOK /\ TypeOK' /\ UsesInv(Fresh) /\ FreshResultsInv /\ ClientsInv /\ [Next]_vars
        => \A j \in Jobs : KeepsEvidence(j)
  BY KeepsStep
<1>2. QED
  BY <1>1, Types, FreshUses, FreshResults, Clients, PTL
     DEF Spec, EvidenceIsNeverRetracted, KeepsEvidence

\* And a terminal result is immutable, although receiveResult saves what it
\* computed from a record that it read before it waited for the digest.
THEOREM TerminalDigestStays == Spec /\ []TimelyDigests => TerminalDigestIsFinal
<1>1. TypeOK /\ TypeOK' /\ UsesInv(Fresh) /\ FreshResultsInv /\ ClientsInv /\ [Next]_vars
        => \A j \in Jobs : KeepsDigest(j)
  BY KeepsStep
<1>2. QED
  BY <1>1, Types, FreshUses, FreshResults, Clients, PTL
     DEF Spec, TerminalDigestIsFinal, KeepsDigest
=============================================================================
