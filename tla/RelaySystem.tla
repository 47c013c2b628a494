---------------------------- MODULE RelaySystem ----------------------------
(***************************************************************************)
(* The hosted relay end to end: callers (src/mcp/relay-session-executor.ts  *)
(* and the dispatch of src/hosted-worker.ts), the Repository Relay and the  *)
(* local Runtime.                                                           *)
(***************************************************************************)
EXTENDS LocalRuntime

CONSTANT RelayRestarts  \* the Durable Object may restart while dispatches wait

ASSUME RelayRestartsAssumption == RelayRestarts \in BOOLEAN

vars == <<clock, relayVars, runtimeVars>>

Init == RelayInit /\ RuntimeInit

\* A caller dispatches under an id of its own; the executor's timer aborts the
\* dispatch, and what is then reported is ambiguity.
Dispatch(j) ==
  /\ j \notin SocketClients
  /\ InternalDispatchRequest(j)
  /\ UNCHANGED runtimeVars

\* Mutant: after its timeout the caller sends the job again under the same id.
CallerTimeoutRetries(j) ==
  /\ source[j] = "pending"
  /\ source' = [source EXCEPT ![j] = "none"]
  /\ told' = [told EXCEPT ![j] = @ \cup {"delivered-ambiguous"}]
  /\ UNCHANGED <<clock, record, nonces, alarm, conn, toRuntime, toRelay, reserved, digesting,
                 handed, faults, runtimeVars>>

CallerTimeout(j) ==
  /\ source[j] = "pending"
  /\ source' = [source EXCEPT ![j] = "closed"]
  /\ told' = [told EXCEPT ![j] = @ \cup {"delivered-ambiguous"}]
  /\ UNCHANGED <<clock, record, nonces, alarm, conn, toRuntime, toRelay, reserved, digesting,
                 handed, faults, runtimeVars>>

ClientSends(j) == ClientJob(j) /\ UNCHANGED runtimeVars

ClientLeaves(j) ==
  /\ source[j] = "client"
  /\ source' = [source EXCEPT ![j] = "closed"]
  /\ UNCHANGED <<clock, record, nonces, alarm, conn, toRuntime, toRelay, reserved, digesting,
                 told, handed, faults, runtimeVars>>

Callers ==
  \E j \in Jobs : Dispatch(j) \/ CallerTimeout(j) \/ ClientSends(j) \/ ClientLeaves(j)

RelayFetch   == \E c \in Conns : Fetch(c) /\ UNCHANGED runtimeVars
RelayAdmit   == \E c \in Conns : AdmitRuntime(c) /\ UNCHANGED runtimeVars
RelayResult  == \E c \in Conns : ReceiveResult(c) /\ UNCHANGED runtimeVars
RelayDigest  == FinishResult /\ UNCHANGED runtimeVars
RelayClose   == \E c \in Conns : WebSocketClose(c) /\ UNCHANGED runtimeVars
RelayAlarm   == Alarm /\ UNCHANGED runtimeVars
RelayUnload  == Hibernate /\ UNCHANGED runtimeVars
RelayRestart == RelayRestarts /\ Restart /\ UNCHANGED runtimeVars

RuntimeConnects == \E c \in Conns : Connect(c)
RuntimeHears    == \E c \in Conns : OnChallenge(c) \/ OnConnected(c) \/ OnJob(c)
RuntimeReturns  == \E j \in Jobs : ExecuteReturns(j)
RuntimeExpires  == \E j \in Jobs : ExpiryTimer(j)
RuntimeLoses    == OnClose
RuntimeRestarts == RuntimeRestart

Time == Tick /\ UNCHANGED runtimeVars

Next == \/ Callers
        \/ RelayFetch \/ RelayAdmit \/ RelayResult \/ RelayDigest \/ RelayClose
        \/ RelayAlarm \/ RelayUnload \/ RelayRestart
        \/ RuntimeConnects \/ RuntimeHears \/ RuntimeReturns \/ RuntimeExpires
        \/ RuntimeLoses \/ RuntimeRestarts
        \/ Time

Spec == Init /\ [][Next]_vars

TypeOK == RelayTypeOK /\ RuntimeTypeOK

(***************************************************************************)
(* Safety.                                                                  *)
(***************************************************************************)
Fresh == Jobs \ SocketClients

\* The system implements the delivery promise for jobs under fresh ids: at most one
\* execution across reconnects, restarts of the Runtime and lost records, a result
\* only of an execution, and "unavailable" only of what was never sent to a Runtime
\* (receiveJob, "Never report it as retryable").  An id that a client sends again
\* after its record was reaped may be executed again.
Promise == INSTANCE DeliveryPromise WITH
             Jobs       <- Fresh,
             handed     <- handed \cap Fresh,
             executions <- [j \in Fresh |-> executions[j]],
             told       <- [j \in Fresh |-> told[j]]
KeepsPromise == Promise!Spec

\* A socket that is authenticated with the generation of the retained record of a
\* fresh job is the socket the Runtime got the job on, after any unloading of the
\* object's memory (nextRuntimeGeneration).
GenerationNotReused ==
  \A j \in Fresh, c \in Conns :
    (/\ record[j].kept /\ clock < record[j].retainedUntil
     /\ jobs[j].known
     /\ c \in GetWebSockets /\ conn[c].authenticated
     /\ conn[c].generation = record[j].generation)
    => c = jobs[j].origin

\* The assumption under which records that are saved late cannot overwrite those of
\* the next use of a repeated id: its digest takes less time than its record is kept.
TimelyDigests ==
  \A w \in digesting : w.job \in SocketClients => clock < w.snapshot.retainedUntil

\* What is recorded of a delivery is never taken back: a record that says that
\* the job was or may have been delivered keeps saying so until it is reaped.
EvidenceIsNeverRetracted ==
  [][\A j \in Jobs :
       record[j].kept /\ DeliveryEvidence(record[j].state.phase) # "not-delivered"
       => \/ DeliveryEvidence(record'[j].state.phase) # "not-delivered"
          \/ clock >= record[j].retainedUntil]_vars

\* A digest, once recorded, stays: a terminal result is immutable, although
\* receiveResult saves what it computed from a record read before an await.
TerminalDigestIsFinal ==
  [][\A j \in Jobs :
       record[j].kept /\ IsTerminal(record[j].state) /\ record'[j].kept
       => record'[j].state = record[j].state]_vars

\* The records that are retained, and those among them that are in flight, stay
\* within the limits, although a late result may write a reaped record again.
RetainedIsBounded ==
  /\ Cardinality(Retained(record)) <= MaxRetainedJobs
  /\ Cardinality(InFlight(record)) <= MaxInFlightJobs

\* A job under a fresh id is executed at most once: over any number of
\* reconnects, restarts of the Runtime and of the relay, failed saves and
\* records reaped ("reconnect never executes the same job twice",
\* local-runtime.test.ts).
FreshJobsRunOnce == \A j \in Fresh : executions[j] <= 1

\* The inductive invariant behind it: a fresh job that was not handed over is
\* nowhere, and one that was is under way on one connection or was executed.
FreshInv ==
  \A j \in Fresh :
    /\ source[j] = "none" => j \notin handed
    /\ j \notin handed => executions[j] = 0
    /\ \A c \in Conns : j \in toRuntime[c].jobs =>
         /\ j \in handed /\ executions[j] = 0
         /\ \A d \in Conns \ {c} : j \notin toRuntime[d].jobs
    /\ executions[j] <= 1

(***************************************************************************)
(* Liveness: time passes, the platform fires a due alarm.                   *)
(***************************************************************************)
LiveSpec == Spec /\ WF_vars(Time) /\ WF_vars(RelayAlarm)

\* The bound of time: an alarm past it never comes.
AfterTheEnd == alarm > MaxClock

\* Every record is deleted once its retention is over, though every save moves the
\* one alarm and a late result may write the record again (scheduleNextAlarm).
RecordsAreReaped ==
  \A j \in Jobs : (record[j].kept /\ record[j].retainedUntil <= MaxClock)
                   ~> (~record[j].kept \/ []AfterTheEnd)

\* A Runtime socket past its lifetime is closed by the relay itself, though every
\* save moves the one alarm (saveRecord): the alarm still comes, however late.
SocketsExpire ==
  \A c \in Conns : (IsOpen(c) /\ conn[c].expiresAt <= MaxClock)
                    ~> (~IsOpen(c) \/ []AfterTheEnd)

(***************************************************************************)
(* What comments, documents and tests say and the code does not do.         *)
(***************************************************************************)
\* "Keep the computed result retryable until the relay lifecycle supplies
\* terminal evidence" (flushJobResult): on an admitted connection every kept
\* result has been sent.
HeldResultsAreSent ==
  possessionProved => \A j \in Jobs : jobs[j].result # 0 => jobs[j].resultSentOn = socket

\* "Stable connection identity permits delivery correlation across reconnects"
\* (LocalRelayRuntimeOptions): a result that arrives over the current connection
\* for a job the relay still retains is taken.
ReconnectedResultIsTaken ==
  [][\A c \in Conns : \A r \in toRelay[c].results :
       /\ r \notin toRelay'[c].results /\ conn'[c].relay = "open"
       /\ record[r[1]].kept /\ clock < record[r[1]].retainedUntil
       => \E w \in digesting' : w.job = r[1]]_vars

\* The in-flight limit of the Runtime is for jobs in flight: a job is dropped
\* only while that many are executing or have a result to send.
DropsOnlyWhenBusy ==
  [][ignored' # ignored =>
       Cardinality({j \in Jobs : jobs[j].known /\ (jobs[j].executing
                                   \/ jobs[j].resultSentOn # socket)}) >= MaxRuntimeJobs]_vars

\* Cleanup is "deterministic and bounded": an alarm that ran is not due again at
\* once.
AlarmMovesOn == [][RelayAlarm => alarm' = NoAlarm \/ alarm' > clock]_vars

\* Cleanup of expired attachments is "deterministic and bounded": when the
\* lifetime of a socket has passed, the alarm that closes it is due.
ExpiredSocketIsDue ==
  \A c \in GetWebSockets : Expired(c) => alarm # NoAlarm /\ alarm <= clock

\* "A send followed by disconnect, timeout, or storage uncertainty remains
\* possibly-delivered": a caller that is told unavailable was not executed.
UnavailableMeansNotExecuted ==
  \A j \in Fresh : "unavailable" \in told[j] => executions[j] = 0
=============================================================================
