---------------------------- MODULE LocalRuntime ----------------------------
(***************************************************************************)
(* The Runtime at the other end of the Relay's socket: it connects out,     *)
(* proves possession of its key, executes each job it does not know yet and *)
(* keeps every result to send it again (src/relay/local-runtime.ts).        *)
(***************************************************************************)
EXTENDS RepositoryRelay

CONSTANTS MaxRuntimeJobs,  \* MAX_RELAY_IN_FLIGHT_JOBS
          MaxRestarts      \* bound: restarts of the Runtime process

ASSUME RuntimeAssumption == MaxRuntimeJobs \in Nat \ {0} /\ MaxRestarts \in Nat

\* A RuntimeJob; result is the execution that produced the kept payload, or 0.
RuntimeJob == [known : BOOLEAN, phase : RelayDeliveryPhase, origin : 0 .. MaxConns,
               executing : BOOLEAN, result : Nat, resultSentOn : 0 .. MaxConns]
NoRuntimeJob == [known |-> FALSE, phase |-> "queued", origin |-> NoConn,
                 executing |-> FALSE, result |-> 0, resultSentOn |-> NoConn]

VARIABLES
  socket,           \* the current connection, or NoConn
  admissionPending, \* the proof was sent on it
  possessionProved,
  jobs,             \* the RuntimeJobs, by id
  executions,       \* ghost: times the executor was called for a job
  ignored,          \* ghost: jobs dropped by the in-flight check, and how many
                    \* executions were then running or unsent
  restarts

runtimeVars == <<socket, admissionPending, possessionProved, jobs, executions, ignored, restarts>>

RuntimeTypeOK ==
  /\ socket \in 0 .. MaxConns
  /\ admissionPending \in BOOLEAN /\ possessionProved \in BOOLEAN
  /\ jobs \in [Jobs -> RuntimeJob]
  /\ executions \in [Jobs -> Nat]
  /\ ignored \subseteq Jobs
  /\ restarts \in Nat

RuntimeInit ==
  /\ socket = NoConn /\ admissionPending = FALSE /\ possessionProved = FALSE
  /\ jobs = [j \in Jobs |-> NoRuntimeJob]
  /\ executions = [j \in Jobs |-> 0]
  /\ ignored = {}
  /\ restarts = 0

LocalEvent(job, type) == ApplyRelayDeliveryEvent([phase |-> job.phase, digest |-> NoDigest],
                                                 type, NoDigest).phase

\* connect, at the start and when the reconnect timer fires.
Connect(c) ==
  /\ socket = NoConn
  /\ conn[c].relay = "none" /\ \A d \in Conns : d < c => conn[d].relay # "none"
  /\ socket' = c /\ admissionPending' = FALSE /\ possessionProved' = FALSE
  /\ conn' = [conn EXCEPT ![c].relay = "requested"]
  /\ toRuntime' = [toRuntime EXCEPT ![c].listening = TRUE]
  /\ UNCHANGED <<jobs, executions, ignored, restarts>>
  /\ UNCHANGED <<clock, record, nonces, alarm, toRelay, reserved, digesting, source,
                 told, handed, faults>>

(***************************************************************************)
(* flushJobResult: the results among rj of the jobs js that were not sent   *)
(* on the current socket are queued there.                                  *)
(***************************************************************************)
Flushable(rj, js) == {j \in js : rj[j].result # 0 /\ rj[j].resultSentOn # socket}

Flush(rj, js) ==
  /\ jobs' = [j \in Jobs |-> IF j \in Flushable(rj, js)
                             THEN [rj[j] EXCEPT !.resultSentOn = socket] ELSE rj[j]]
  /\ toRelay' = [toRelay EXCEPT ![socket].results =
                   @ \cup {<<j, rj[j].result>> : j \in Flushable(rj, js)}]

\* The relay's end takes no more frames once it saw the socket close.
Reaches(c) == conn[c].relay \in {"open", "closing"}

FlushOver(rj, js) ==
  IF Reaches(socket) THEN Flush(rj, js)
  ELSE /\ jobs' = [j \in Jobs |-> IF j \in Flushable(rj, js)
                                  THEN [rj[j] EXCEPT !.resultSentOn = socket] ELSE rj[j]]
       /\ UNCHANGED toRelay

OnlyRuntime == UNCHANGED <<clock, record, nonces, alarm, conn, reserved, digesting, source,
                           told, handed, faults>>

\* onMessage: the possession challenge is answered with a proof.
OnChallenge(c) ==
  /\ socket = c /\ toRuntime[c].hello = "challenge"
  /\ toRuntime' = [toRuntime EXCEPT ![c].hello = "none"]
  /\ toRelay' = IF Reaches(c) THEN [toRelay EXCEPT ![c].proof = TRUE] ELSE toRelay
  /\ admissionPending' = TRUE
  /\ UNCHANGED <<socket, possessionProved, jobs, executions, ignored, restarts>>
  /\ OnlyRuntime

\* onMessage: admission is acknowledged, and every kept result is sent.
OnConnected(c) ==
  /\ socket = c /\ toRuntime[c].hello = "connected" /\ admissionPending
  /\ toRuntime' = [toRuntime EXCEPT ![c].hello = "none"]
  /\ admissionPending' = FALSE /\ possessionProved' = TRUE
  /\ FlushOver(jobs, Jobs)
  /\ UNCHANGED <<socket, executions, ignored, restarts>>
  /\ OnlyRuntime

Accepts(j) == ~jobs[j].known

\* Nothing in this class applies a "result" event: no phase is ever terminal-result.
InFlightJobs == {j \in Jobs : jobs[j].known /\ jobs[j].phase # "terminal-result"}

\* receiveJob: a known job only has its result flushed; a new one is executed,
\* unless the in-flight limit is reached, which nobody is told.
OnJob(c) ==
  \E j \in toRuntime[c].jobs :
    /\ socket = c /\ toRuntime[c].hello = "none"
    /\ toRuntime' = [toRuntime EXCEPT ![c].jobs = @ \ {j}]
    /\ \/ /\ ~possessionProved
          /\ UNCHANGED <<jobs, toRelay, executions, ignored>>
       \/ /\ possessionProved /\ ~Accepts(j)
          /\ FlushOver(jobs, {j})
          /\ UNCHANGED <<executions, ignored>>
       \/ /\ possessionProved /\ Accepts(j) /\ Cardinality(InFlightJobs) >= MaxRuntimeJobs
          /\ ignored' = ignored \cup {j}
          /\ UNCHANGED <<jobs, toRelay, executions>>
       \/ /\ possessionProved /\ Accepts(j) /\ Cardinality(InFlightJobs) < MaxRuntimeJobs
          /\ jobs' = [jobs EXCEPT ![j] = [NoRuntimeJob EXCEPT !.known = TRUE, !.origin = c,
                                            !.phase = "delivered", !.executing = TRUE]]
          /\ executions' = [executions EXCEPT ![j] = @ + 1]
          /\ UNCHANGED <<toRelay, ignored>>
    /\ UNCHANGED <<socket, admissionPending, possessionProved, restarts>>
    /\ OnlyRuntime

\* execute returns: the result is kept, and sent if the socket the job came
\* over is still the current one.
ExecuteReturns(j) ==
  LET rj == [jobs EXCEPT ![j].executing = FALSE, ![j].result = executions[j]]
  IN  /\ jobs[j].known /\ jobs[j].executing
      /\ IF jobs[j].origin = socket /\ possessionProved
           THEN FlushOver(rj, {j})
           ELSE jobs' = rj /\ UNCHANGED toRelay
      /\ UNCHANGED <<toRuntime, socket, admissionPending, possessionProved, executions, ignored,
                     restarts>>
      /\ OnlyRuntime

\* The expiry timer of a job.
ExpiryTimer(j) ==
  /\ jobs[j].known /\ LocalEvent(jobs[j], "expire") # jobs[j].phase
  /\ jobs' = [jobs EXCEPT ![j].phase = LocalEvent(jobs[j], "expire")]
  /\ UNCHANGED <<toRuntime, toRelay, socket, admissionPending, possessionProved, executions,
                 ignored, restarts>>
  /\ OnlyRuntime

\* onClose, at any time; frames that were under way to the Runtime are lost.
OnClose ==
  /\ socket # NoConn
  /\ toRuntime' = [toRuntime EXCEPT ![socket] = Silent]
  /\ socket' = NoConn /\ possessionProved' = FALSE /\ admissionPending' = FALSE
  /\ jobs' = [j \in Jobs |-> IF jobs[j].known
                             THEN [jobs[j] EXCEPT !.phase = LocalEvent(jobs[j], "disconnect")]
                             ELSE jobs[j]]
  /\ UNCHANGED <<toRelay, executions, ignored, restarts>>
  /\ OnlyRuntime

\* shutdown or a crash, and a new process: the jobs and their results are gone.
RuntimeRestart ==
  /\ restarts < MaxRestarts /\ restarts' = restarts + 1
  /\ toRuntime' = IF socket = NoConn THEN toRuntime
                  ELSE [toRuntime EXCEPT ![socket] = Silent]
  /\ socket' = NoConn /\ possessionProved' = FALSE /\ admissionPending' = FALSE
  /\ jobs' = [j \in Jobs |-> NoRuntimeJob]
  /\ UNCHANGED <<toRelay, executions, ignored>>
  /\ OnlyRuntime
=============================================================================
