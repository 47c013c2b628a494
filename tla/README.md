# Inari: a verification project for the Change control plane and its neighbours

Inari publishes and governs *Changes*: one root Issue, one canonical branch and
one canonical pull request on GitHub, moved through a lifecycle by a trusted
executor. Agents work on a leaf branch of a Change under an Implementation
contract; jobs reach a local Runtime through a hosted relay; a Setup Application
prepares the machines. This directory holds TLA+ modules that model these parts,
TLC configurations that check them on small instances, and proofs for TLAPS.
File names below are relative to `src/` of the repository root, so `change.ts`
is the TypeScript file `src/src/change.ts` and `docs/` is `src/docs/`.

There are four models. They share no variables and are composed of the parts
that interact:

1. **Changes**: executions of issue, ready, abort and merge over one repository;
2. **Relay**: callers, the Durable Object, the Runtime, and what they promise together;
3. **Setup**: frontends that perform actions over one journal;
4. **Tasks**: conditional advances of a leaf branch, and the termination of tasks.

## 1. Inventory

`PROJECT.json` lists every component with its files and the reason why it is
not, or only partly, modelled.

| Component | State it keeps | Operations | Status |
|---|---|---|---|
| Change lifecycle machine (`change/machine/lifecycle-machine.ts`) | none (pure table) | issue, ready, merge, abort on a state | modelled |
| Change Core (`change.ts`) | none (pure) | project evidence, plan, classify failures, admit, verify | partly |
| Issuance, ready and abort machines (`change/machine/*-execution-machine.ts`) | last evidence, plan, effect index, attempts | the XState transitions | modelled |
| Trusted execution adapter, effect adapter, evidence reader, semantic merge | none between calls | reads in several calls, six effects, the merge procedure | partly |
| Relay delivery reducer (`relay/delivery-state.ts`) | phase of a job | ten events | modelled |
| Repository Relay (`relay/cloudflare-repository-relay.ts`) | job records, generations, nonces, one alarm | admit, job, result, alarm, close | partly |
| Local relay Runtime (`relay/local-runtime.ts`) | jobs and results in memory | connect, execute, flush, expire | partly |
| Relay callers (`mcp/relay-session-executor.ts`, `hosted-worker.ts`) | a pending dispatch | dispatch, time out | partly |
| Setup Application (`application/setup/`, `composition/setup-*.ts`) | journal of attempts | observe, offer, confirm, apply, record | partly |
| Branch advance (`agent-authority/branch-advance.ts`) | none | admit scope, build commit, conditional update, verify | partly |
| Task termination (`github/task-termination-record.ts`, `executor/task-termination.ts`) | records on a metadata branch | append one record per task | modelled |
| Admission (`admission/authorization.ts`) | none | two evidence reads, scope and termination check | partly |
| Actions remote execution, credential brokers, local control plane, authority lifecycles, Session certificates | see section 7 | | not modelled |
| Contracts, artifacts, templates, projections, CLI, MCP, endpoints, release tooling | none, or presentation | | not modelled |

How they interact. A caller (CLI, Actions workflow, Session App) calls
`TrustedChangeExecutionAdapter.execute`; executions share nothing but GitHub,
which has no lock and no transaction. A Session's request travels as an
`ExecutionIntent` to Admission, which asks the Executor for evidence twice and
then has it executed; branch advance and termination meet in the repository
only. The relay carries such intents from a hosted worker to a machine: worker to
Durable Object by a fetch, Durable Object to Runtime by a WebSocket. Setup works
before all of this, over a file shared by frontend processes.

What is hard: interleaving of executions, processes and people; evidence put
together from calls at different moments; an effect that happened although its
answer says failure, or that happens later; a process that dies between an
effect and its record; one alarm for many deadlines; bounded files and tables
at their limits. The `hazards` of `PROJECT.json` give each at its line, with
the properties that would catch it.

## 2. The modules

```
GitHubRepo <- ChangeCore <- ChangeExecution <- MCChange                     TLC
                          ChangeExecution <- ChangeProofs <- RequestProofs
                                                          <- ReportProofs   TLAPS
RelayDelivery <- RepositoryRelay <- LocalRuntime <- RelaySystem <- MCRelay  TLC
                       DeliveryPromise (INSTANCE) --^
                       RelaySystem <- RelayProofs <- RelayEvidenceProofs
                                                  <- RelaySocketProofs        TLAPS
SetupJournal <- SetupApplication <- MCSetup                                 TLC
                                 <- SetupProofs                             TLAPS
TaskRepo <- BranchAdvance   <- TaskSystem <- MCTask                         TLC
         <- TaskTermination <-            <- TaskProofs                     TLAPS
```

In every model an action is everything between two awaits of the TypeScript,
which runs without interruption. Variables that are history are commented as
such; no guard reads them.

### Changes

**GitHubRepo** is the outside world: root Issue, canonical branch, commits and
the pull requests from that branch, with a precondition (`Accepts`) and an
effect (`Apply`) per mutation request. It is written from how the adapters use
GitHub. Three facts matter: an open pull request's head follows the branch;
deleting the branch closes open pull requests; a pull request cannot be opened
on a branch equal to its base.

**ChangeCore** holds the pure operators of `change.ts` and the lifecycle table:
`Status` and `State` of an evidence record, the plans, the abort classification,
the verification of a plan against a reread, the rules for safe compensation. A
commit is reduced to who made it and whether it holds the provenance record,
human work and a conforming diff.

**ChangeExecution** has the shared state.

| Variable | Code |
|---|---|
| `gh` | GitHub |
| `ex[e].st`, `.step` | state of the XState machine (or place in `executeMerge`), and which await inside it |
| `ex[e].ev` | `context.input`/`projection` of the latest read |
| `ex[e].plan`, `.idx`, `.mode` | `context.plan`, `context.effectIndex`, the branch taken after an effect or merge call |
| `ex[e].made` | `createdCommitSha` of the provenance effect's evidence |
| `ex[e].govSeen` | governance of the initial read, kept for the drift check |
| `ex[e].result` | outcome: `evidence.outcome`, or the error code that is thrown |
| `late` | requests that timed out at the client and are still under way |
| `truth`, `applied`, `known`, `calm` | history |

Reads are `ReadBranches`, `ReadPullRequests` and the last call of the read, after
which the machine's own action (`IssuePlanning`, `AbortRecoveryPlanning`, ...)
projects, validates and goes on. Each mutation has five fates (`Send`):
acknowledged, refused by GitHub, refused for another reason, applied with the
answer lost, or timed out and then perhaps applied later (`LateArrival`). `Crash`
ends an execution anywhere. Ten kinds of human step change the repository;
`HumanMay` selects them per run.

Parameters for a choice in the environment: `EmptyListReport` (the production
reader reports an empty list as `"absent"`,
`github/change-state-projector.ts:284-285`; Change Core also accepts an
`"available"` empty list, which only the run `Compensation` uses, because
compensation cannot be reached otherwise), `MergeMethodReported` (whether a later
read of a merged pull request reports the merge method), `After` (which executions
a caller waits for), `LateRequests`.

### Relay

**RelayDelivery** is the reducer of one job. **RepositoryRelay** is the Durable
Object: the WebSockets with their attachments, the stored job records, the one
alarm, nonces, and what is lost when the object is unloaded. Handlers are atomic
because the platform delivers no event while a storage operation is outstanding;
the one await that is no storage operation, the digest of a result (line 1477),
splits `receiveResult` in two (`Digesting`). **LocalRuntime** is the other end of
the socket, **RelaySystem** adds the callers. **DeliveryPromise** is the abstract
specification: a job is executed at most once and only after it was handed over, a
result is told only of an execution, and `unavailable` only of a job that was not
handed over. `KeepsPromise == Promise!Spec` is the refinement; its three abstract
variables (`handed`, `executions`, `told`) are the history variables of the
detailed model, of the same names, restricted to `Fresh`, the jobs under an id
of their own (`hosted-worker.ts` draws a random one per dispatch). A socket client
(`SocketClients`) may send its id again; once the record is reaped, the Relay
cannot know it, and the job is executed again.

### Setup

**SetupJournal** is the journal as data: which entries are evidence
(`Protected`), retention, and when the projection offers an action over an
unfinished attempt (`Offered`). **SetupApplication** has frontend processes with
one `perform` each, over the journal and owners: `Observe` and `Stamp`, `Offer`,
`Request`, `Confirm`, `Enroll` and `Apply`, `Return`, `Complete`, each with its
failures, and `Crash`. Times are ages: `Tick` makes evidence and attempts older.

### Tasks

**TaskRepo** is the slice of a repository one task sees: base revision, contracts,
leaf branch with trees, metadata branch with the termination records.
**BranchAdvance** is a call of `branch.advance`: Admission reads Issue and base,
then both again for exactly that authorization, then the base and the metadata
branch for the record; the Executor reads the ref, proves a replay or builds the
commit, updates the ref on condition of the expected head, and rereads.
Several calls may carry one signed request: nothing consumes it, so these are its
retries. **TaskTermination** is a finalization: snapshot, commit, base
check, conditional update, second snapshot, never a retry. **TaskSystem** puts
both together.

| Variable | Code |
|---|---|
| `call[c].pc` | the await `authorizeExecutionIntent` or `executeBranchAdvanceEffects` is at |
| `call[c].auth` | the authorization record of the preliminary read |
| `call[c].at`, `.answer`, `.outcome` | `ref`/`reread`, how the update answered, `BranchAdvanceSemanticResult.outcome` |
| `signed[r]` | `expectedHead` of a signed request |
| `fin[f].before` | `before.head` of the first snapshot, or that the branch was absent |
| `book[f]` | the records in the tree of the commit a finalization made |
| `late` | ref updates that timed out and are still under way |
| `call[c].seen`, `.doomed`, `.calm`, `.landed` | history |

A commit is named after the call, finalization or push that makes it, so two calls
never make the same commit object. (Two creations of the same tree in the same
second could.) Reading an immutable Git object races with nothing and belongs to
the read before it.

## 3. Runs

Runs that pass:

| Run | Instance | Shows |
|---|---|---|
| `IssueAbort` | issue and abort at once, 1 fault, 2 human steps of seven kinds, late requests, 4 commits, 2 pull requests | `ReportWasTrue`: although a read mixes several moments, what is reported was true at one of them; `AbortDeletesWhatItSaw`; `UndisturbedAbortCleansUp`: an abort that starts when nothing else is under way cleans up what is left, or refuses for one of three named reasons |
| `TwoIssues` | two issues and an abort at once, 1 fault | `NoSecondPublication`, and `PublicationInv`, the invariant of its proof |
| `Compensation` | issue and abort at once, 2 faults, 1 human step, 2 generations of governance, empty lists `available` | `CompensationDeletesItsOwn`, `ProvenBranchIsCompensated`, `ReportWasTrue` |
| `ReadyMerge` | after an issue, ready and merge at once, 1 fault, 2 human steps (push, close, merge) | `ReadyHeadConforms`, `MergesAdmittedHead`, `MergeFailureMeansNotMerged`, and `RequestInv`, the invariant of their proofs |
| `Liveness` | issue, ready, merge, abort in sequence, 1 fault, 1 human step | `EveryExecutionEnds` |
| `RelayPromise` | a fresh job and one that a socket client may send again, limits of one, 2 connections, a storage fault, unloading, records reaped, retention 1, clock to 3, `TimelyDigests` | `KeepsPromise` (the refinement), `GenerationNotReused`, `EvidenceIsNeverRetracted`, `TerminalDigestIsFinal` |
| `RelayCleanup` | two jobs, limits of one, restarts of the object while a dispatch waits, a Runtime restart, retention 1, clock to 4 | `FreshInv`: a job under a fresh id is handed over and executed at most once; `RetainedIsBounded`; `RecordsAreReaped` and `SocketsExpire` under fairness |
| `SetupRecovery` | 2 processes, 1 kind, 2 generations, 3 entries, a lease of 2, 1 crash, 1 fault, an enrollment | `CallsAreConfirmed`, `EffectsAreRemembered`, `RecordedAttemptsBlock` |
| `TaskWork` | any 2 of 3 calls (two with one request) and 3 finalizations (two of one task), 2 disturbances out of pushes, rewinds or restorations, base moves, edits and faults; deletions without limit | `SucceededWasOnBranch`, `AppliedAtMostOnce`, `RetryResolves`, `LandsWithinScope`, `TerminatedAdmitsNothing`, `SuccessIsRecorded`, `RecordsAreFinal` |

Each model has one type invariant, checked in the first run of the model. Every
property of a passing run has a mutant in `PROJECT.json`: a plausible bug of a
mapped definition that breaks it in that run.

Runs whose one property is violated; the findings quote the claim:

1. `CompensationProduction`: compensation requires both lists to be `available`,
   and the production reader reports an empty list as `absent`. After branch and
   provenance, a refused pull request always ends in `recovery-required` with
   the branch left behind.
2. `RetargetedMerge`: the base is checked before the merge, the merge call is
   conditional on the head alone.
3. `SetupMaskedAttempt`: of several unfinished attempts of one kind the
   projection looks at the one the journal names first, so an abandoned attempt
   of an older generation hides the one under way, and a duplicate is offered.

Bounds, all of them constants. `MaxFaults` counts failed reads and writes, lost
or refused requests, timeouts and (except in the relay and in Setup, which count
restarts and crashes separately) crashes. At a bound the action is disabled,
except for the creation of a pull request beyond `MaxPRs`, which GitHub then
refuses, an outcome the executor must handle anyway. Why they are enough:

- *Changes*: `MaxCommits` leaves room for the base, one provenance commit per
  issuance and the human pushes; two human steps and two pull requests in
  `IssueAbort` reach the combinations of branch and pull request that
  `docs/CHANGE_CONTROL_PLANE.md` section 6 lists; in `TwoIssues` abort and the
  second issuance already disturb the first.
- *Relay*: one more connection than the job was sent on makes generations
  matter; a deadline and a retention of one tick can each pass before the clock
  ends, so records are reaped and ids used again; limits of one are reached by the
  second job. `TimelyDigests` is a constraint of `RelayPromise` (section 6).
- *Setup*: one attempt fills three entries, so the next one makes retention
  drop; two generations are enough for one to hide the other. An earlier instance with two
  kinds and one generation passed all properties too. `NotTangled` is a constraint because nothing
  is claimed after two attempts of one kind overlap (below).
- *Tasks*: a hazard there needs two operations, such as a retry, a rival, or a
  finalization against a call, and at most two disturbances between them, such
  as a lost answer and a push. `MaxBegun` and `MaxDisturbances` bound the sums.

Runs set `CHECK_DEADLOCK FALSE` where the system has rightly stopped when every
execution is done and the bounds are used up. Symmetries permute executions,
processes or operations of one kind that no property names; the runs that use
them check safety only.

Fairness. `Fairness` of the Changes is weak fairness of `ExecStep(e)`: an
execution that has started goes on, because its next step is the continuation of
an await that settles (transports time out; a failed call is a step too).
Nothing is assumed of `Begin`, `Crash`, humans, late requests or faults.
`LiveSpec` of the relay is weak fairness of `Time` and of `RelayAlarm`, the
platform's promise to fire a due alarm; `AfterTheEnd` in the two liveness properties excuses an
alarm that is set past the bound of the clock. Setup and Tasks assume none: a
frontend or a caller may stop for ever.

## 4. Proofs

For all values of the constants, from the assumptions named in the modules.

**ChangeProofs** (`TypeCorrect`, `PublicationInvariant`, `PublishedOnce`).
`NoSecondPublication` says: if an execution has opened a pull request, every
canonical pull request that existed when it started has left the canonical base.
An execution opens its pull request many steps after it decided to, perhaps
through a late request; `PublicationInv` carries the decision to that moment.
`KnownExist`: the pull requests known at the start exist and are numbered.
`ReadIsCurrent`: what an issuance has read shows each of them, off the canonical
base only if it is really off it. `CreationIsFresh`: hence a create plan means
that all of them have left. `PublishedByPlan`: every pull request of an
execution comes from a create plan. `NoPlanYet`, `ProvenanceHasParent` and `EffectInRange`
serve the type invariant, so the two are proved together.

**RequestProofs** extends it (`RequestInvariant`, `AbortsDeleteWhatTheySaw`,
`MergesHitAdmittedHead`, `ReadyHeadsConform`, `MergeFailureIsFinal`). `RequestInv`
says that what an execution decided stays with it and with its requests.
`StatesFitOperation`: an execution is in a state of its own machine.
`SentAsPlanned` and `AppliedAsSent`: each request, arrived or late, carries the
generation or head its sender's evidence showed. `EvidenceExists`: what was read
is still in the repository, for commits and pull requests never vanish.
`MergePlansAreInari`: an admitted merge plan is of a pull request Inari
opened. `MergesAreAccountedFor`: a merge that happened, or may still, belongs to
an execution that does not report a failure. `ConformingExist` and
`ReadyHeadConforms` close it. Lemmas say what a step keeps (`Kept`), what it
moves (`Moves`) and what it may ask of GitHub (`Requests`); `RequestInvKept`
puts them together. `MergeFailureIsFinal` assumes that nobody retargets a pull
request (`"retargetPR" \notin HumanMay`); with retargeting the reread fails
after the fact, which is finding 2.

**ReportProofs** extends both, in four parts.
*What a read adds up to* (`HeadsInvariant`, `ReportInvariant`, `ReportsWereTrue`).
The evidence of one read is the branch of one moment and the pull requests of a
later one. It can only say what was never true if a pull request changed in between
without leaving a trace. `HeadsInv` rules that out: an open pull request has the head of
the branch, and a provenance commit that is still on its way (`late`) was never the
head of anything, so the branch never returns to a head it left, and a pull request
that is merged, or closed at another head, does not move any more (`Frozen`).
`ReportInv` then says what each call of a read under way has established: with
no branch, the pull requests of that moment are frozen (`BranchRead`); after the pull
requests, the claim was true at one of the calls, or the evidence is one no
success is reported from, or it shows a merge, which is final (`Grounded`).
*Undisturbed aborts* (`AloneInvariant`, `UndisturbedAbortsCleanUp`). `AloneInv` says
for an abort that is alone, at each of its awaits, what it still has to do
(`Cleans`) and that its reread will prove it, from any state that others left.
*Compensation* (`ShapedInvariant`, `OwnInvariant`, `CompensationsDeleteTheirOwn`). Before the
only issuance has made its record no commit holds one (`Recordless`), people do not make
records, so the commit it reports as created is its own, and a compensation asks to
delete exactly that one. This assumes `OneIssue`, at most one issuance: a second
one that finds the record takes the other's commit, or a push on top of it, for
its own (`github/change-effect-adapter.ts:511`).
*What production does after a failure* (`ProductionNeverCompensates`), for the reader
that production has (`EmptyListReport = "absent"`): an issuance whose pull request was
not created always ends in `recovery-required` or crashes, with its branch left behind,
and no issuance ever asks GitHub to delete a branch. This is finding 1 for every
instance. A failure is safe only if the read lists a branch and a pull request, and at the
same time no pull request (`NothingIsSafe`); `LeavingInv` says that an
issuance is therefore never in a state of compensation, and that one whose effect
failed rereads and ends, and `ShapedInvariant` that a rereading one has a create plan.
So `CompensationDeletesItsOwn` and `ProvenBranchIsCompensated` are about the
compensation as it is written, for a reader that reports empty lists as `available`.

**RelayProofs** (`Types`, `FreshJobs`, `FreshJobsExecuteOnce`,
`SystemKeepsPromise`). `FreshInv` says where a fresh job can be: not handed over,
or under way on one connection and not executed, or executed once.
`SystemKeepsPromise` is the refinement, under `UsedAsHosted`: no dispatch loses its
object (without it, `UnavailableMeansNotExecuted` fails, section 5). It maps each
step to a step or a stutter of `DeliveryPromise`, with `ResultsInv` (a kept result is
of an execution). `FreshJobsRunOnce` itself is in no run; `FreshInv`, which
implies it, is.

**RelayEvidenceProofs** (`RecordsStayWithinLimits`). First, what a step can do to
a stored record at all (`RecordSteps`): keep it, age it by the reducer, begin a new
use of the id after its retention, or save what a result's digest was computed
from. `UsesInv` then relates each suspended digest (`digesting`) to the stored record: it was read
from this use of the id, or, for a fresh id, from the only one. So a late
save writes a record again that is retained or in flight already
(`BoundedInv`), and the limits, tested when a job is admitted, hold for ever.
`FreshResults`: a job under a fresh id has one execution, hence one result, and all
digests under way for it are the same.

**RelaySocketProofs** (`GenerationsAreNotReused`, `FreshRecordsAreFinal`,
`EvidenceStays`, `TerminalDigestStays`). `SocketInv`: generations of admitted sockets
and of retained records stay below the next one that will be given out, which is recomputed
from them when the object was unloaded; `PlacesInv` follows a fresh job from its
record to the frame, the Runtime and back. For repeated ids, `OwnersInv` and
`SentOnceInv` say that one connection carries at most one result of a job, as the
Runtime marks a result as sent on its socket, and `ClientsInv` that a waiting digest
is the only one of its record, which has at most aged (unavailable, expired or
possibly delivered) since it was read: the save adds to it and takes nothing back.
`GenerationsAreNotReused` and `FreshRecordsAreFinal` need no assumption. The other
two, and `RecordsStayWithinLimits`, assume `[]TimelyDigests` (section 6).

**SetupProofs** (`Recovery`, `SetupTypes`, `CallsConfirmed`,
`EffectsRemembered`, `AttemptsBlock`). `RecoveryInv`: how far a process is says
what it did (`CallsAreOrdered`), and, unless attempts have overlapped
(`tangled`), at most one attempt of a kind is under way (`Exclusive`), its entry is
in the journal (`AttemptsAreTold`), and every doubt is owned by it or told by
the latest entry of its operation (`DoubtsAreOwned`, `DoubtsAreTold`). The core is that
retention never drops the latest open entry of an operation, for any limit.

**TaskProofs** (nine theorems, one for each property of `TaskWork` and
`TaskInvariant`). `FinalInv`: a commit that may still be published (its
finalization is under way, or its update is late) was built on a book that
was on the branch, and records only a task that had no record there
(`PreparedWell`); a conditional update can then only add. `BranchInv`: every
commit of a call is its request applied to its expected head (`CommitsWell`); a
head that a call's commit replaced never returns unless somebody rewinds or restores
(`NeverBack`), which makes the conditional update succeed once per request;
and each call is where its reads allow (`CallWell`: what it prepared, what it
saw, what it is owed when nobody disturbed it, and that a call of a terminated task
stays in Admission).

Only model-checked: liveness (`EveryExecutionEnds`, `RecordsAreReaped`,
`SocketsExpire`), which with `ENABLED` is out of the prover's reach, and
`ProvenBranchIsCompensated`, whose premise the production reader never meets. Every other
property of a passing run is the conclusion of a theorem; the ones that assume
more than the constants' assumptions are named above.

## 5. Claims the code does not keep

Met while modelling. Three are findings with a run (section 3). The definitions
named here stay in the modules, and each was seen violated with TLC; they are in no run.

- `MergedSurvivesBranchCleanup` (ChangeExecution): deleting the branch after a
  merge turns the projection into `partial` / `RECOVERY_REQUIRED` (`change.ts:2718`),
  though `docs/CHANGE_CONTROL_PLANE.md:271-272` calls the cleanup "separate from
  the semantic identity of the completed Change".
- `BranchOnlyMeansNoPullRequest` (ChangeExecution): the list call filters on base
  (`github/repository-evidence-reader.ts:316`), so a retargeted open pull request
  is invisible and branch-only cleanup is planned, against the comment at
  `change.ts:2377-2379`.
- `DropsOnlyWhenBusy` (RelaySystem): `inFlight` of the Runtime counts jobs whose
  phase is not terminal-result (`relay/local-runtime.ts:442`), and no event of the
  class is a result, so after `MAX_RELAY_IN_FLIGHT_JOBS` jobs every further one is
  dropped without an answer (`docs/HOSTED_RELAY_DEPLOYMENT.md:167-168`).
- `HeldResultsAreSent`, `ReconnectedResultIsTaken` (RelaySystem): a result
  computed while the Runtime reconnected is kept but not sent on the new
  connection (`relay/local-runtime.ts:491`), and sent later it is refused,
  because the record names the old generation
  (`relay/cloudflare-repository-relay.ts:1474`), against `relay/local-runtime.ts:75`
  and `:511-512`.
- `AlarmMovesOn`, `ExpiredSocketIsDue` (RelaySystem): with a retained record past
  its deadline the alarm fires at once again and again (`:1630`), and saving a
  record moves the one alarm past the end of a socket (`:1692`), against
  `docs/HOSTED_RELAY_DEPLOYMENT.md:168-169`. Both end: see `RecordsAreReaped`
  and `SocketsExpire`.
- `UnavailableMeansNotExecuted` (RelaySystem): any failure of the dispatch is
  reported as unavailable (`mcp/relay-session-executor.ts:353`), the loss of the
  object after it sent the job included, against
  `docs/HOSTED_RELAY_DEPLOYMENT.md:134-135`.
- `CancelledIsRemembered` (SetupApplication): an attempt cancelled after it was
  confirmed is evidence only while its confirmed entry is kept, and that entry is
  not protected (`composition/setup-journal-store.ts:116-119`, claim at `:11-14`).
- `TerminatedTaskRests` (TaskSystem): the record is read in Admission only, so a
  call admitted before the termination lands after it, against
  `docs/IMPLEMENTATION_CONTRACT.md:85` ("every existing Session for that task fails
  closed").

Found by reading, in the models' steps but without a property: an observation of
Setup is stamped at its end (`composition/setup-observation.ts:865`), so what it read
earlier counts as fresh; two frontends that both decide before either records
overlap (`application/setup/actions.ts:352`); the journal's compare-and-replace
compares and renames without a lock (`local-control/config.ts:888-923`), which the
model takes as one step; entries of old generations are protected for ever, so a full
journal can refuse every further attempt (`composition/setup-journal-store.ts:136-141`).
A termination record reads as invalid once the base has moved
(`github/task-termination-record.ts:83`): repeating a finalization is then denied.

## 6. Limits of the models

*Changes.* Nothing can project `ACCEPTED` (no reader sets `accepted`). Statuses
`ambiguous`, `wrong-base` and `unavailable` are left out: the first two need
candidates the production reader does not return, an unavailable source fails the
read (`ReadFailure`). Governed bodies are valid except for the generation of
governance. `isMerged` also accepts a closed pull request with a merge commit; an
accepted merge call did merge, so `merged` is enough. Mergeability and policy are
any Boolean. A merge answer is well formed or lost: a 200 whose body cannot be read
is category `provider` (`github/app-semantic-pr-mutation.ts:146-151`), which the merge
authority does not take for ambiguous (`semantic-pr-mutation.ts:842-849`). After such
an answer the reread still finds a merge made as requested, but one it cannot confirm
is reported as `failed` (`:1487-1495`); `MergeFailureMeansNotMerged` says nothing of
that answer. Two issuances that overlap, with an abort between them, can each
open a pull request; the projection is then a duplicate and every operation refuses it.
`CompensationDeletesItsOwn` is checked and proved with one issuance; one that adopts the
provenance record of another reports that head as its own. Nobody recreates the
branch at a commit it left ("Restore branch"), so a pull request that was closed at an old head
stays closed; `ReportWasTrue` rests on that.

*Relay.* One Runtime identity. The hosted worker uses a random job id and source
connection per dispatch, so the overload of one source never occurs. A client's close
at any time stands for rate limits and malformed frames. Frames of different jobs are
unordered. The ceiling of generations is left out; a failed put stores nothing.
Control messages of a Runtime, which no peer sends, presence and telemetry are left
out. `DeliveryPromise` is stated for fresh ids only: an id that is sent again after
its record was reaped is executed again. `TimelyDigests` says that `receiveResult`
computes the digest of a repeated id before the retention of the record it read
is over (`jobRetentionMs`, a minute by default, against the SHA-256 of a bounded frame).
Without it the late save overwrites the record of the next use of the id:
with one client job, two connections and a Runtime restart TLC then
violates `TerminalDigestIsFinal`. Fresh ids need no such assumption.

*Setup.* One step of the projection per kind; prerequisites, inputs and handoffs
are left out. The limit on entries stands for the limit on bytes too. `failed` also
stands for stale and action-required, and is assumed to mean that the owner applied
nothing. One enrollment input per action. An append (read, retain, replace) is
one step.

*Tasks.* Nobody deletes or rewrites the metadata branch by hand. On the leaf branch
people push, delete, force it back by one commit, or bring a deleted branch back at
any commit it has been at (`Rewound`); after the last two a request may take effect
again, which `AppliedAtMostOnce` excepts. The scope is
fixed; an authorization is the number of the edit and the base it names. Denials for
Session, Change state, capability, rework and protected paths are `AdmissionDenies`.
Provenance verification of a result cannot fail. File modes, submodules and directories are left out: a tree
maps paths to contents.

## 7. Not modelled

- *Actions remote execution*: the run it starts is an execution of
  ChangeExecution; its caller may give up while the workflow goes on
  (`github/actions-change-execution-adapter.ts:1302`).
- *Credential brokers* (`github/app-user-credential-broker.ts`): token refresh on
  disk. A concurrent refresh that loses, or a failed save, clears the stored
  credential (`#loadCredential`), after which the user has to authorize again.
- *Local control plane*: process supervision and files of one machine.
- *Sessions, capabilities, Delegators, Runtime Authorities*: signature chains and
  signed documents; what the models use of them is that a denial ends a call.
- *Enrolment services, authority migration*: sequential, private to one machine.
- *Contracts, templates, artifacts, reconciliation, relations*: text and single
  effects with a reread, the same shape as one effect of ChangeExecution.
- *Projections, CLI, MCP, endpoints, release tooling*: read-only or presentation.

They hold most of the repository's lines, which is why the mapped share is
small: the models cover the parts that change shared state under concurrency.
What would come next, in this order: the dispatch and correlation of Actions
composed with ChangeExecution; branch advance in place of the human push there;
an abstract specification of what a Change promises; the rotation of authorities.
