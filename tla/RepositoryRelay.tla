-------------------------- MODULE RepositoryRelay --------------------------
(***************************************************************************)
(* The Repository Relay: one Durable Object that admits the outbound        *)
(* WebSocket of a Runtime, hands it jobs and carries results back            *)
(* (src/relay/cloudflare-repository-relay.ts).  One Runtime identity.       *)
(*                                                                         *)
(* Handlers are atomic: the platform delivers no other event to the object  *)
(* while one of its storage operations is outstanding.  The one await that  *)
(* is no storage operation, the digest of a result, splits receiveResult    *)
(* into two steps.                                                          *)
(***************************************************************************)
EXTENDS RelayDelivery, FiniteSets

CONSTANTS Jobs,            \* job ids
          SocketClients,   \* jobs a WebSocket client sends, under an id it may send again
          Signed,          \* jobs whose certificate is signed by the Runtime's proved key
          MaxConns,        \* bound: Runtime connections ever opened
          Deadline,        \* deadlineMs of a job
          JobRetention,    \* limits.jobRetentionMs
          ConnectionTTL,   \* limits.connectionTtlMs
          ChallengeTTL,    \* life of a possession challenge
          MaxInFlightJobs, MaxRetainedJobs, MaxConnections,  \* limits
          MaxClock,        \* bound: time
          MaxFaults        \* bound: storage operations that fail

ASSUME SocketClientsAssumption == SocketClients \subseteq Jobs
ASSUME SignedAssumption == Signed \subseteq Jobs
ASSUME LimitsAssumption ==
  /\ {MaxConns, MaxClock, MaxFaults} \subseteq Nat
  /\ {Deadline, JobRetention, ConnectionTTL, ChallengeTTL} \subseteq Nat \ {0}
  /\ {MaxInFlightJobs, MaxRetainedJobs, MaxConnections} \subseteq Nat \ {0}

Conns  == 1 .. MaxConns
NoConn == 0
Times  == Nat
NoAlarm == 0

\* relay is the object's end of the socket: "requested" before the upgrade is
\* handled, "closing" after the object closed it, "gone" after its close event.
Conn == [relay : {"none", "requested", "open", "closing", "gone"},
         authenticated : BOOLEAN, generation : Nat,
         openedAt : Times, expiresAt : Times]

Unattached(relay) == [relay |-> relay, authenticated |-> FALSE, generation |-> 0,
                      openedAt |-> 0, expiresAt |-> 0]

\* A stored job record; kept = FALSE is no record.
StoredJobRecord == [kept : BOOLEAN, state : RelayDeliveryState, generation : Nat,
                    deadlineAt : Times, retainedUntil : Times]
NoRecord == [kept |-> FALSE, state |-> CreateRelayDeliveryState, generation |-> 0,
             deadlineAt |-> 0, retainedUntil |-> 0]

\* What a source may be told: the result of a job, or a control frame.
Answer == {"result", "unavailable", "delivered-ambiguous"}

VARIABLES
  clock,
  record,     \* storage: the job records
  nonces,     \* storage: when the used challenge nonces expire
  alarm,      \* storage: when the alarm is due, or NoAlarm
  conn,       \* the Runtime sockets and their attachments, by connection
  toRuntime,  \* frames under way to the Runtime: the handshake frame, then jobs;
              \* listening while the Runtime holds its end
  toRelay,    \* frames under way from the Runtime: the proof, then results
  reserved,   \* memory: generationReservations of the one identity
  digesting,  \* memory: receiveResult calls that wait for the digest
  source,     \* memory: pendingSources, or the client socket, by job
  told,       \* the answers a source received
  handed,     \* ghost: jobs ever sent to the Runtime
  faults

relayVars == <<record, nonces, alarm, conn, toRuntime, toRelay, reserved,
               digesting, source, told, handed, faults>>

ToRuntime == [listening : BOOLEAN, hello : {"none", "challenge", "connected"}, jobs : SUBSET Jobs]
Silent    == [listening |-> FALSE, hello |-> "none", jobs |-> {}]
Digesting == [conn : Conns, job : Jobs, digest : Nat \ {NoDigest},
              snapshot : StoredJobRecord]

RelayTypeOK ==
  /\ clock \in Times
  /\ record \in [Jobs -> StoredJobRecord]
  /\ nonces \subseteq Times
  /\ alarm \in Times
  /\ conn \in [Conns -> Conn]
  /\ toRuntime \in [Conns -> ToRuntime]
  /\ toRelay \in [Conns -> [proof : BOOLEAN, results : SUBSET (Jobs \X (Nat \ {NoDigest}))]]
  /\ reserved \in Nat
  /\ digesting \subseteq Digesting
  /\ source \in [Jobs -> {"none", "pending", "client", "closed"}]
  /\ told \in [Jobs -> SUBSET Answer]
  /\ handed \subseteq Jobs
  /\ faults \in Nat

RelayInit ==
  /\ clock = 1
  /\ record = [j \in Jobs |-> NoRecord]
  /\ nonces = {}
  /\ alarm = NoAlarm
  /\ conn = [c \in Conns |-> Unattached("none")]
  /\ toRuntime = [c \in Conns |-> Silent]
  /\ toRelay = [c \in Conns |-> [proof |-> FALSE, results |-> {}]]
  /\ reserved = 0
  /\ digesting = {}
  /\ source = [j \in Jobs |-> "none"]
  /\ told = [j \in Jobs |-> {}]
  /\ handed = {}
  /\ faults = 0

StorageFails == faults < MaxFaults /\ faults' = faults + 1
StorageWorks == faults' = faults

(***************************************************************************)
(* Sockets and generations.                                                 *)
(***************************************************************************)
IsOpen(c) == conn[c].relay = "open"
GetWebSockets == {c \in Conns : conn[c].relay \in {"open", "closing"}}
ActiveConnectionCount == Cardinality({c \in Conns : IsOpen(c)})

\* The open authenticated socket of the highest generation, if only one has it.
IsCurrentRuntime(c) ==
  /\ conn[c].authenticated /\ IsOpen(c)
  /\ \A d \in Conns \ {c} : conn[d].authenticated /\ IsOpen(d)
                              => conn[d].generation < conn[c].generation

\* Mutant: retained records are forgotten when a generation is chosen.
HeldGenerationsSocketsOnly ==
  {reserved} \cup {conn[c].generation : c \in {d \in GetWebSockets : conn[d].authenticated}}

HeldGenerations ==
  {reserved} \cup {conn[c].generation : c \in {d \in GetWebSockets : conn[d].authenticated}}
             \cup {record[j].generation : j \in {i \in Jobs : record[i].kept
                                                   /\ record[i].retainedUntil > clock}}

IsNextRuntimeGeneration(g) ==
  /\ \A h \in HeldGenerations : h < g
  /\ \E h \in HeldGenerations : g = h + 1

(***************************************************************************)
(* The one alarm.  scheduleNextAlarm sets it to the earliest expiry of a    *)
(* listed socket, a record or a nonce; saveRecord sets it to the deadline   *)
(* of the record it saves, whatever it was.                                 *)
(***************************************************************************)
Earliest(a, due) ==
  IF due = {} THEN {a} ELSE {t \in due : \A u \in due : t <= u}

\* Mutant: only deadlines count once a record is stored, not the end of its retention.
DueTimesDeadlines(rec, cn, used) ==
  {cn[c].expiresAt : c \in {d \in Conns : cn[d].relay \in {"open", "closing"}}}
  \cup {t \in {rec[j].deadlineAt : j \in {i \in Jobs : rec[i].kept}} : t > clock}
  \cup used

\* Mutant: sockets are not looked at.
DueTimesNoSockets(rec, cn, used) ==
  (UNION {{rec[j].retainedUntil, rec[j].deadlineAt} : j \in {i \in Jobs : rec[i].kept}}) \cup used

DueTimes(rec, cn, used) ==
  {cn[c].expiresAt : c \in {d \in Conns : cn[d].relay \in {"open", "closing"}}}
  \cup (UNION {{rec[j].retainedUntil, rec[j].deadlineAt} : j \in {i \in Jobs : rec[i].kept}})
  \cup used

(***************************************************************************)
(* reapJobs: records past their retention are deleted, records past their   *)
(* deadline expire.                                                         *)
(***************************************************************************)
Overdue(r, now) ==
  /\ r.kept /\ now < r.retainedUntil /\ r.deadlineAt <= now
  /\ r.state.phase \in {"queued", "delivered", "acknowledged", "unavailable"}

WithEvent(r, type) ==
  [r EXCEPT !.state = ApplyRelayDeliveryEvent(r.state, type, NoDigest)]

Reap(rec, now) ==
  [j \in Jobs |-> IF rec[j].kept /\ now >= rec[j].retainedUntil THEN NoRecord
                  ELSE IF Overdue(rec[j], now) THEN WithEvent(rec[j], "expire")
                  ELSE rec[j]]

\* The alarm after the saves of Reap: the deadline of the record saved last.
AlarmAfterReap(rec, now, a) ==
  LET saved == {rec[j].deadlineAt : j \in {i \in Jobs : Overdue(rec[i], now)}}
  IN  IF saved = {} THEN {a} ELSE saved

(***************************************************************************)
(* Answers.  A pending dispatch takes one frame and is closed by it; a      *)
(* client socket takes every frame; a closed source takes none.             *)
(***************************************************************************)
Listens(src, j) == src[j] \in {"pending", "client"}

Send(src, j, answer) ==
  /\ told' = IF Listens(src, j) THEN [told EXCEPT ![j] = @ \cup {answer}] ELSE told
  /\ source' = IF src[j] = "pending" THEN [src EXCEPT ![j] = "closed"] ELSE src

NoAnswer(src) == told' = told /\ source' = src

(***************************************************************************)
(* receiveJob, for the source src[j].                                       *)
(***************************************************************************)
Retained(rec) == {j \in Jobs : rec[j].kept /\ rec[j].retainedUntil > clock}
InFlight(rec) ==
  {j \in Retained(rec) : rec[j].state.phase \notin
                           {"terminal-result", "expired", "cancelled", "unavailable"}}

\* Mutant: the limits are off by one.
AtLimitLate(rec) == \/ Cardinality(Retained(rec)) > MaxRetainedJobs
                    \/ Cardinality(InFlight(rec)) > MaxInFlightJobs

AtLimit(rec) == \/ Cardinality(Retained(rec)) >= MaxRetainedJobs
                \/ Cardinality(InFlight(rec)) >= MaxInFlightJobs

NewRecord(type, generation) ==
  [kept |-> TRUE, generation |-> generation,
   state |-> ApplyRelayDeliveryEvent(CreateRelayDeliveryState, type, NoDigest),
   deadlineAt |-> clock + Deadline, retainedUntil |-> clock + Deadline + JobRetention]

SaveRecord(rec, j, r) ==
  /\ record' = [rec EXCEPT ![j] = r]
  /\ alarm' = r.deadlineAt

\* A control frame says that nothing was delivered; the record says so too, if
\* storage works.
AnswerUnavailable(rec, j, src, generation) ==
  /\ \/ StorageWorks /\ SaveRecord(rec, j, NewRecord("disconnect", generation))
     \/ StorageFails /\ record' = rec /\ alarm' \in AlarmAfterReap(record, clock, alarm)
  /\ Send(src, j, "unavailable")
  /\ UNCHANGED <<toRuntime, handed>>

\* Frames for an end that the Runtime has left are lost.
Frames(c, f) == IF toRuntime[c].listening THEN [toRuntime EXCEPT ![c] = f] ELSE toRuntime

\* Mutant: a save that fails after the send is reported as non-delivery.
HandOverCallsItUnavailable(rec, j, src, c) ==
  LET delivered == NewRecord("deliver", conn[c].generation)
  IN  /\ toRuntime' = Frames(c, [toRuntime[c] EXCEPT !.jobs = @ \cup {j}])
      /\ handed' = handed \cup {j}
      /\ \/ StorageWorks /\ SaveRecord(rec, j, delivered) /\ NoAnswer(src)
         \/ /\ StorageFails
            /\ SaveRecord(rec, j, WithEvent(delivered, "disconnect"))
            /\ Send(src, j, "unavailable")

\* The job is sent, then recorded as delivered.  If it cannot be recorded, the
\* second attempt records ambiguity, and the source is told of it either way.
HandOver(rec, j, src, c) ==
  LET delivered == NewRecord("deliver", conn[c].generation)
  IN  /\ toRuntime' = Frames(c, [toRuntime[c] EXCEPT !.jobs = @ \cup {j}])
      /\ handed' = handed \cup {j}
      /\ \/ StorageWorks /\ SaveRecord(rec, j, delivered) /\ NoAnswer(src)
         \/ /\ StorageFails
            /\ SaveRecord(rec, j, WithEvent(delivered, "disconnect"))
            /\ Send(src, j, "delivered-ambiguous")
         \/ /\ faults + 1 < MaxFaults /\ faults' = faults + 2
            /\ record' = rec /\ alarm' \in AlarmAfterReap(record, clock, alarm)
            /\ Send(src, j, "delivered-ambiguous")

Targets(j) == {c \in Conns : IsCurrentRuntime(c) /\ j \in Signed}

ReceiveJob(j, src) ==
  LET rec == Reap(record, clock)
  IN  \/ /\ record[j].kept
         /\ NoAnswer(src)
         /\ UNCHANGED <<record, alarm, toRuntime, handed, faults>>
      \/ /\ ~record[j].kept /\ AtLimit(rec)
         /\ record' = rec /\ alarm' \in AlarmAfterReap(record, clock, alarm)
         /\ Send(src, j, "unavailable")
         /\ UNCHANGED <<toRuntime, handed, faults>>
      \/ /\ ~record[j].kept /\ ~AtLimit(rec)
         /\ \/ Targets(j) = {} /\ AnswerUnavailable(rec, j, src, 0)
            \/ \E c \in Targets(j) : \/ HandOver(rec, j, src, c)
                                     \/ AnswerUnavailable(rec, j, src, conn[c].generation)

\* internalDispatchRequest: the caller's request becomes a pending source.
InternalDispatchRequest(j) ==
  /\ source[j] = "none"
  /\ ReceiveJob(j, [source EXCEPT ![j] = "pending"])
  /\ UNCHANGED <<clock, nonces, conn, toRelay, reserved, digesting>>

\* webSocketMessage of a client: a new job, or an id it sent before.
ClientJob(j) ==
  /\ j \in SocketClients /\ source[j] \in {"none", "client"}
  /\ ReceiveJob(j, [source EXCEPT ![j] = "client"])
  /\ UNCHANGED <<clock, nonces, conn, toRelay, reserved, digesting>>

(***************************************************************************)
(* Admission of a Runtime socket.                                           *)
(***************************************************************************)
ClosedByRelay(cn, cs) == [c \in Conns |-> IF c \in cs /\ cn[c].relay = "open"
                                         THEN [cn[c] EXCEPT !.relay = "closing"] ELSE cn[c]]

Expired(c) == clock >= conn[c].expiresAt

\* fetch: the upgrade of a Runtime connection, answered with a challenge.
Fetch(c) ==
  /\ conn[c].relay = "requested"
  /\ \/ /\ ActiveConnectionCount >= MaxConnections
        /\ conn' = [conn EXCEPT ![c] = Unattached("gone")]
        /\ UNCHANGED <<toRuntime, alarm>>
     \/ /\ ActiveConnectionCount < MaxConnections
        /\ conn' = [conn EXCEPT ![c] = [@ EXCEPT !.relay = "open", !.openedAt = clock,
                                                !.expiresAt = clock + ConnectionTTL]]
        /\ toRuntime' = Frames(c, [toRuntime[c] EXCEPT !.hello = "challenge"])
        /\ alarm' \in Earliest(alarm, DueTimes(record, conn', nonces))
  /\ UNCHANGED <<clock, record, nonces, toRelay, reserved, digesting, source, told, handed, faults>>

LiveNonces == {t \in nonces : t > clock}

Admitted(c, g) ==
  LET older == {d \in Conns \ {c} : conn[d].authenticated /\ conn[d].generation < g}
  IN  [ClosedByRelay(conn, older) EXCEPT ![c].authenticated = TRUE, ![c].generation = g]

Hello(c) == [toRuntime[c] EXCEPT !.hello = "connected"]

\* admitRuntime: the proof is checked, a generation chosen and the nonce kept
\* before the socket counts as authenticated and replaces the older ones.
AdmitRuntime(c) ==
  /\ IsOpen(c) /\ ~conn[c].authenticated /\ toRelay[c].proof
  /\ toRelay' = [toRelay EXCEPT ![c].proof = FALSE]
  /\ \/ /\ Expired(c) \/ clock >= conn[c].openedAt + ChallengeTTL
        /\ conn' = ClosedByRelay(conn, {c})
        /\ UNCHANGED <<nonces, alarm, toRuntime, reserved, faults>>
     \/ /\ ~Expired(c) /\ clock < conn[c].openedAt + ChallengeTTL
        /\ \E g \in 1 .. MaxConns :
             /\ IsNextRuntimeGeneration(g)
             /\ reserved' = g
             /\ \/ /\ StorageFails
                   /\ conn' = ClosedByRelay(conn, {c})
                   /\ UNCHANGED <<nonces, alarm, toRuntime>>
                \/ /\ StorageWorks
                   /\ nonces' = LiveNonces \cup {conn[c].openedAt + ChallengeTTL}
                   /\ alarm' \in Earliest(alarm, DueTimes(record, conn, nonces'))
                   /\ conn' = Admitted(c, g)
                   /\ toRuntime' = Frames(c, Hello(c))
  /\ UNCHANGED <<clock, record, digesting, source, told, handed>>

(***************************************************************************)
(* Results.  receiveResult reads the record, waits for the digest and then  *)
(* saves what follows from the record it read.                              *)
(***************************************************************************)
MatchesRecord(c, j) == record[j].kept /\ record[j].generation = conn[c].generation

ReceiveResult(c) ==
  \E r \in toRelay[c].results :
    /\ IsOpen(c) /\ conn[c].authenticated
    /\ toRelay' = [toRelay EXCEPT ![c].results = @ \ {r}]
    /\ \/ /\ Expired(c) \/ ~IsCurrentRuntime(c)
          /\ conn' = ClosedByRelay(conn, {c})
          /\ UNCHANGED digesting
       \/ /\ ~Expired(c) /\ IsCurrentRuntime(c) /\ ~MatchesRecord(c, r[1])
          /\ UNCHANGED <<conn, digesting>>
       \/ /\ ~Expired(c) /\ IsCurrentRuntime(c) /\ MatchesRecord(c, r[1])
          /\ digesting' = digesting \cup {[conn |-> c, job |-> r[1], digest |-> r[2],
                                           snapshot |-> record[r[1]]]}
          /\ UNCHANGED conn
    /\ UNCHANGED <<clock, record, nonces, alarm, toRuntime, reserved, source, told, handed, faults>>

\* The result is forwarded only when the record it was reduced from had none.
FinishResult ==
  \E w \in digesting :
    /\ digesting' = digesting \ {w}
    /\ \/ /\ StorageFails /\ UNCHANGED <<record, alarm, told, source>>
       \/ /\ StorageWorks
          /\ SaveRecord(record, w.job, [w.snapshot EXCEPT
               !.state = ApplyRelayDeliveryEvent(w.snapshot.state, "result", w.digest)])
          /\ IF Applies(w.snapshot.state, "result")
               THEN Send(source, w.job, "result") ELSE NoAnswer(source)
    /\ UNCHANGED <<clock, nonces, conn, toRuntime, toRelay, reserved, handed>>

(***************************************************************************)
(* Closed sockets, the alarm, and the life of the object.                   *)
(***************************************************************************)
SentOver(c) == {j \in Jobs : conn[c].authenticated /\ record[j].kept
                                /\ record[j].generation = conn[c].generation}

DisconnectJobs(js) ==
  [j \in Jobs |-> IF j \in js THEN WithEvent(record[j], "disconnect") ELSE record[j]]

AlarmAfterSaves(js, a) == IF js = {} THEN {a} ELSE {record[j].deadlineAt : j \in js}

\* webSocketClose and webSocketError, at any time; frames under way are lost.
WebSocketClose(c) ==
  /\ conn[c].relay \in {"open", "closing"}
  /\ conn' = [conn EXCEPT ![c] = Unattached("gone")]
  /\ toRelay' = [toRelay EXCEPT ![c] = [proof |-> FALSE, results |-> {}]]
  /\ \/ /\ StorageWorks
        /\ record' = DisconnectJobs(SentOver(c))
        /\ alarm' \in AlarmAfterSaves(SentOver(c), alarm)
     \/ /\ StorageFails /\ SentOver(c) # {}
        /\ UNCHANGED <<record, alarm>>
  /\ UNCHANGED <<clock, nonces, toRuntime, reserved, digesting, source, told, handed>>

\* alarm: expired sockets are closed, nonces and jobs reaped, and the alarm set
\* again to the earliest time that is left, a time already past included.
Alarm ==
  LET expired == {c \in GetWebSockets : Expired(c)}
      closed  == UNION {SentOver(c) : c \in expired}
      rec     == DisconnectJobs(closed)
  IN  /\ alarm # NoAlarm /\ alarm <= clock
      /\ conn' = ClosedByRelay(conn, expired)
      /\ record' = Reap(rec, clock)
      /\ nonces' = LiveNonces
      /\ \E a \in AlarmAfterSaves(closed, NoAlarm) :
          \E b \in AlarmAfterReap(rec, clock, a) :
            alarm' \in Earliest(b, DueTimes(record', conn', nonces'))
      /\ UNCHANGED <<clock, toRuntime, toRelay, reserved, digesting, source, told, handed, faults>>

\* The object is unloaded while nothing waits in it; sockets and storage stay.
Hibernate ==
  /\ digesting = {} /\ \A j \in Jobs : source[j] # "pending"
  /\ reserved # 0 /\ reserved' = 0
  /\ UNCHANGED <<clock, record, nonces, alarm, conn, toRuntime, toRelay, digesting, source,
                 told, handed, faults>>

\* The object restarts: memory and sockets are lost, a waiting dispatch fails,
\* and the caller's executor reports the failed request as unavailable.
Restart ==
  /\ reserved' = 0 /\ digesting' = {}
  /\ conn' = [c \in Conns |-> IF conn[c].relay \in {"open", "closing"}
                              THEN Unattached("gone") ELSE conn[c]]
  /\ toRelay' = [c \in Conns |-> [proof |-> FALSE, results |-> {}]]
  /\ source' = [j \in Jobs |-> IF Listens(source, j) THEN "closed" ELSE source[j]]
  /\ told' = [j \in Jobs |-> IF source[j] = "pending" THEN told[j] \cup {"unavailable"} ELSE told[j]]
  /\ UNCHANGED <<clock, record, nonces, alarm, toRuntime, handed, faults>>

Tick ==
  /\ clock < MaxClock
  /\ clock' = clock + 1
  /\ UNCHANGED relayVars
=============================================================================
