-------------------------- MODULE SetupApplication --------------------------
(***************************************************************************)
(* The Setup Application: frontends (the CLI, the browser host) perform     *)
(* setup actions over one journal and one set of owners.                    *)
(* src/application/setup/actions.ts, with the store of                      *)
(* src/composition/setup-journal-store.ts, the observation of               *)
(* src/composition/setup-observation.ts and the owner port of               *)
(* src/composition/setup-adapters.ts.                                       *)
(*                                                                          *)
(* A process stands for one frontend process with one perform call: its     *)
(* inFlight set refuses a second call for the same operation.  A perform    *)
(* observes (two steps: what it reads, and when the observation is stamped),*)
(* reads the journal and decides, then records requested, confirmed and     *)
(* completed around the owner's call.  Anything may happen between two      *)
(* steps: another process, a crash, time, a change of the configuration.    *)
(***************************************************************************)
EXTENDS SetupJournal, FiniteSets

CONSTANTS
  Processes,
  MaxEvidence,     \* maxEvidenceAgeMs, in ticks
  Enrolling,       \* kinds that enroll a secret before the owner's action
  MaxCrashes,      \* bound: crashes of a process
  MaxFaults        \* bound: journal faults and cancellations

ASSUME SomeOperation == Kinds # {} /\ Generations # {}
ASSUME EvidenceAssumption == MaxEvidence \in Nat /\ MaxEvidence < Lease
ASSUME EnrollingAssumption == Enrolling \subseteq Kinds
ASSUME BoundsAssumption == MaxCrashes \in Nat /\ MaxFaults \in Nat

VARIABLES
  journal,      \* the entries of the file, oldest first
  generation,   \* the configuration generation
  complete,     \* per kind: the step it belongs to is complete
  proc,         \* per process: its perform call
  doubt,        \* history: operations with an effect no later attempt has decided on
  tangled,      \* history: two attempts of one kind have been under way at once
  crashes, faults

vars == <<journal, generation, complete, proc, doubt, tangled, crashes, faults>>

\* A process at "deciding" has an age for its observation; from "confirming"
\* on the age is that of its latest journal entry.
Steps == {"idle", "observing", "deciding", "requesting", "confirming", "calling", "effecting", "completing"}
Under == {"confirming", "calling", "effecting", "completing"}

Process == [pc : Steps, op : Operations, age : 0..Lease,
            applied : BOOLEAN, enrolled : BOOLEAN, outcome : Outcomes \cup {NoOutcome}]

Idle == [pc |-> "idle", op |-> CHOOSE op \in Operations : TRUE, age |-> 0,
         applied |-> FALSE, enrolled |-> FALSE, outcome |-> NoOutcome]

TypeOK ==
  /\ journal \in Seq(JournalEntry) /\ Len(journal) <= MaxEntries
  /\ generation \in Generations
  /\ complete \in [Kinds -> BOOLEAN]
  /\ proc \in [Processes -> Process]
  /\ doubt \in [Operations -> {"none", "open", "cancelled"}]
  /\ tangled \in BOOLEAN
  /\ crashes \in 0..MaxCrashes
  /\ faults \in 0..MaxFaults

Init ==
  /\ journal = <<>>
  /\ generation \in Generations
  /\ complete = [k \in Kinds |-> FALSE]
  /\ proc = [p \in Processes |-> Idle]
  /\ doubt = [op \in Operations |-> "none"]
  /\ tangled = FALSE
  /\ crashes = 0
  /\ faults = 0

At(p, step) == proc[p].pc = step
UnderWay(p, kind) == proc[p].pc \in Under /\ Kind(proc[p].op) = kind
Contended(p) == \E q \in Processes \ {p} : UnderWay(q, Kind(proc[p].op))
Goto(p, step) == proc' = [proc EXCEPT ![p].pc = step]
Finish(p) == proc' = [proc EXCEPT ![p] = Idle]

Fault == faults < MaxFaults /\ faults' = faults + 1

-----------------------------------------------------------------------------
(* Observation and decision.                                                *)

\* perform: the observation reads the generation and the state of the step.
Observe(p, k) ==
  /\ At(p, "idle") /\ ~complete[k]
  /\ proc' = [proc EXCEPT ![p].pc = "observing", ![p].op = <<k, generation>>]
  /\ UNCHANGED <<journal, generation, complete, doubt, tangled, crashes, faults>>

\* The observation is stamped with the time it ends.
Stamp(p) ==
  /\ At(p, "observing")
  /\ proc' = [proc EXCEPT ![p].pc = "deciding", ![p].age = 0]
  /\ UNCHANGED <<journal, generation, complete, doubt, tangled, crashes, faults>>

\* The journal is read and the projected state offers the action.
Offer(p) ==
  /\ At(p, "deciding")
  /\ proc[p].age <= MaxEvidence
  /\ Offered(journal, proc[p].op, proc[p].age)
  /\ Goto(p, "requesting")
  /\ UNCHANGED <<journal, generation, complete, doubt, tangled, crashes, faults>>

\* The action is not offered, the journal is unreadable or the caller has cancelled.
Refuse(p) ==
  /\ At(p, "deciding")
  /\ \/ ~(proc[p].age <= MaxEvidence /\ Offered(journal, proc[p].op, proc[p].age)) /\ UNCHANGED faults
     \/ Fault
  /\ Finish(p)
  /\ UNCHANGED <<journal, generation, complete, doubt, tangled, crashes>>

-----------------------------------------------------------------------------
(* Journalling.                                                             *)

EntryOf(p, phase) == [op |-> proc[p].op, phase |-> phase, outcome |-> proc[p].outcome, age |-> 0]
WithEntry(p, phase) == Append(journal, EntryOf(p, phase))

\* The file is replaced.
Stored(p, phase) == ~Full(WithEntry(p, phase)) /\ journal' = Retain(WithEntry(p, phase))

\* The append fails and writes nothing: only evidence is left, or storage failed.
Rejected(p, phase) ==
  /\ UNCHANGED journal
  /\ \/ Full(WithEntry(p, phase)) /\ UNCHANGED faults
     \/ Fault

Recorded(p, step) == proc' = [proc EXCEPT ![p].pc = step, ![p].age = 0]

End(p, outcome) == proc' = [proc EXCEPT ![p].pc = "completing", ![p].outcome = outcome]

\* The attempt is journalled; what was in doubt has been decided by its
\* evidence.  A file that was replaced but could not be verified fails too.
Request(p) ==
  /\ At(p, "requesting")
  /\ \/ /\ Stored(p, "requested")
        /\ tangled' = (tangled \/ Contended(p))
        /\ \/ UNCHANGED faults /\ Recorded(p, "confirming") /\ doubt' = [doubt EXCEPT ![proc[p].op] = "none"]
           \/ Fault /\ Finish(p) /\ UNCHANGED doubt
     \/ Rejected(p, "requested") /\ Finish(p) /\ UNCHANGED <<tangled, doubt>>
  /\ UNCHANGED <<generation, complete, crashes>>

\* Mutant: a confirmation that cannot be journalled does not stop the call.
ConfirmRegardless(p) ==
  /\ At(p, "confirming")
  /\ Recorded(p, "calling")
  /\ (Stored(p, "confirmed") /\ UNCHANGED faults) \/ Rejected(p, "confirmed")
  /\ UNCHANGED <<generation, complete, doubt, tangled, crashes>>

\* The second entry precedes the call; if it fails the attempt ends as failed.
Confirm(p) ==
  /\ At(p, "confirming")
  /\ \/ Stored(p, "confirmed") /\ UNCHANGED faults /\ Recorded(p, "calling")
     \/ Stored(p, "confirmed") /\ Fault /\ End(p, "failed")
     \/ Rejected(p, "confirmed") /\ End(p, "failed")
  /\ UNCHANGED <<generation, complete, doubt, tangled, crashes>>

\* The caller has cancelled: no effect was started.
CancelBefore(p) ==
  /\ At(p, "confirming") /\ Fault /\ End(p, "cancelled")
  /\ UNCHANGED <<journal, generation, complete, doubt, tangled, crashes>>

\* The outcome is journalled, or lost: the caller gets it either way.
Complete(p) ==
  /\ At(p, "completing") /\ Finish(p)
  /\ \/ /\ Stored(p, "completed") /\ (UNCHANGED faults \/ Fault)
        /\ doubt' = [doubt EXCEPT ![proc[p].op] =
             IF @ = "open" /\ proc[p].outcome = "cancelled" THEN "cancelled" ELSE @]
     \/ Rejected(p, "completed") /\ UNCHANGED doubt
  /\ UNCHANGED <<generation, complete, tangled, crashes>>

-----------------------------------------------------------------------------
(* The owners.                                                              *)

\* An owner applies (part of) its effect, under the process' operation.
Applies(p) == doubt' = [doubt EXCEPT ![proc[p].op] = "open"]

\* A secret is enrolled before the owner's action.  An answer that is not
\* observed may have applied it.
Enroll(p) ==
  /\ At(p, "calling") /\ Kind(proc[p].op) \in Enrolling /\ ~proc[p].enrolled
  /\ \/ Applies(p) /\ proc' = [proc EXCEPT ![p].enrolled = TRUE, ![p].applied = TRUE] /\ UNCHANGED faults
     \/ UNCHANGED doubt /\ End(p, "failed") /\ UNCHANGED faults
     \/ \E outcome \in {"unknown", "cancelled"} :
          /\ IF outcome = "cancelled" THEN Fault ELSE UNCHANGED faults
          /\ \/ Applies(p) /\ proc' = [proc EXCEPT ![p].pc = "completing", ![p].outcome = outcome, ![p].applied = TRUE]
             \/ UNCHANGED doubt /\ End(p, outcome)
  /\ UNCHANGED <<journal, generation, complete, tangled, crashes>>

\* The owner reads the generation again before any effect.
OwnerChecks(p) ==
  /\ At(p, "calling") /\ (Kind(proc[p].op) \in Enrolling => proc[p].enrolled)
  /\ IF proc[p].op[2] = generation THEN Goto(p, "effecting")
     ELSE End(p, IF proc[p].enrolled THEN "unknown" ELSE "failed")
  /\ UNCHANGED <<journal, generation, complete, doubt, tangled, crashes, faults>>

\* The effect is applied.
Apply(p) ==
  /\ At(p, "effecting") /\ ~complete[Kind(proc[p].op)]
  /\ Applies(p)
  /\ complete' = [complete EXCEPT ![Kind(proc[p].op)] = TRUE]
  /\ proc' = [proc EXCEPT ![p].applied = TRUE]
  /\ UNCHANGED <<journal, generation, tangled, crashes, faults>>

\* The owner answers, or its answer is not observed.  After an enrollment only
\* a success is taken at its word.
Return(p) ==
  /\ At(p, "effecting")
  /\ \/ complete[Kind(proc[p].op)] /\ End(p, "succeeded") /\ UNCHANGED faults
     \/ ~proc[p].applied /\ End(p, "failed") /\ UNCHANGED faults
     \/ End(p, "unknown") /\ UNCHANGED faults
     \/ End(p, "cancelled") /\ Fault
  /\ UNCHANGED <<journal, generation, complete, doubt, tangled, crashes>>

-----------------------------------------------------------------------------
(* The environment.                                                         *)

\* A process stops; what it recorded and what the owners did remains.
Crash(p) ==
  /\ ~At(p, "idle") /\ crashes < MaxCrashes
  /\ crashes' = crashes + 1
  /\ Finish(p)
  /\ UNCHANGED <<journal, generation, complete, doubt, tangled, faults>>

\* The configuration changes, by an effect of setup or by hand.
Reconfigure(g) ==
  /\ generation # g /\ generation' = g
  /\ UNCHANGED <<journal, complete, proc, doubt, tangled, crashes, faults>>

\* What was complete no longer is: a Runtime stops, a trust is withdrawn.
Drift(k) ==
  /\ complete[k] /\ complete' = [complete EXCEPT ![k] = FALSE]
  /\ UNCHANGED <<journal, generation, proc, doubt, tangled, crashes, faults>>

Older(age) == IF age < Lease THEN age + 1 ELSE age

Tick ==
  /\ journal' = [i \in DOMAIN journal |-> [journal[i] EXCEPT !.age = Older(@)]]
  /\ proc' = [p \in Processes |->
       IF proc[p].pc \in Under \cup {"deciding"} THEN [proc[p] EXCEPT !.age = Older(@)] ELSE proc[p]]
  /\ UNCHANGED <<generation, complete, doubt, tangled, crashes, faults>>

Next ==
  \/ Tick
  \/ \E g \in Generations : Reconfigure(g)
  \/ \E k \in Kinds : Drift(k)
  \/ \E p \in Processes, k \in Kinds : Observe(p, k)
  \/ \E p \in Processes : Stamp(p)
  \/ \E p \in Processes : Offer(p)
  \/ \E p \in Processes : Refuse(p)
  \/ \E p \in Processes : Request(p)
  \/ \E p \in Processes : Confirm(p)
  \/ \E p \in Processes : CancelBefore(p)
  \/ \E p \in Processes : Enroll(p)
  \/ \E p \in Processes : OwnerChecks(p)
  \/ \E p \in Processes : Apply(p)
  \/ \E p \in Processes : Return(p)
  \/ \E p \in Processes : Complete(p)
  \/ \E p \in Processes : Crash(p)

Spec == Init /\ [][Next]_vars

-----------------------------------------------------------------------------
(* Properties.                                                              *)

\* p is offered its action by this step.
Decides(p) == At(p, "deciding") /\ proc'[p].pc = "requesting"

\* An unfinished attempt at another operation of the kind of op, which nobody
\* finishes any more: its lease has run out.
Abandoned(i, op) ==
  /\ Kind(journal[i].op) = Kind(op) /\ journal[i].op # op
  /\ IsLatest(journal, i) /\ journal[i].phase # "completed" /\ journal[i].age >= Lease

\* An attempt is offered only while no other process is under way with an
\* attempt of that kind which it recorded less than a lease ago (state.ts: "An
\* unfinished attempt of this kind blocks a concurrent duplicate until it
\* finishes or its lease expires"), unless an abandoned attempt of another
\* generation hides it.  Two attempts that both decided before the other was
\* recorded overlap (tangled); nothing is claimed after that.
RecordedAttemptsBlock ==
  [][\A p \in Processes : Decides(p) =>
       \/ tangled
       \/ \A q \in Processes \ {p} : UnderWay(q, Kind(proc[p].op)) =>
            proc[q].age >= Lease \/ \E i \in DOMAIN journal : Abandoned(i, proc[q].op)]_vars

\* The same for attempts at one operation, whatever other generations left
\* behind.  The code does not keep it: of several unfinished attempts of one
\* kind the projection looks at the one the journal names first, and an
\* abandoned one of an older generation hides the one that is under way.
DuplicatesAreBlocked ==
  [][\A p \in Processes : Decides(p) =>
       \/ tangled
       \/ \A q \in Processes \ {p} :
            UnderWay(q, Kind(proc[p].op)) /\ proc[q].op = proc[p].op => proc[q].age >= Lease]_vars

\* Whatever an attempt may have applied, the journal remembers it until a later
\* attempt has decided on evidence: an outcome recorded as settled means that
\* nothing was applied, and retention never drops the evidence, however many
\* other attempts, faults and crashes fill the file.  A cancelled outcome is
\* the exception (see CancelledIsRemembered).
EffectsAreRemembered ==
  tangled \/ \A op \in Operations : doubt[op] = "open" => Remembers(journal, op)

\* The same for an attempt that was cancelled after it was confirmed.  The store
\* claims it and does not keep it: the confirmed entry that makes a cancelled
\* outcome evidence is itself not protected and is dropped first.
CancelledIsRemembered ==
  tangled \/ \A op \in Operations : doubt[op] = "cancelled" => Remembers(journal, op)

LatestPhase(op, phase) == \E i \in DOMAIN journal :
  journal[i].op = op /\ IsLatest(journal, i) /\ journal[i].phase = phase

\* While an owner is called, what the journal says last of the operation is that
\* it was confirmed: no retention, failed append or other process comes between
\* (actions.ts: "The attempt could not be journaled; no effect was started").
CallsAreConfirmed ==
  tangled \/ \A p \in Processes :
    proc[p].pc \in {"calling", "effecting"} => LatestPhase(proc[p].op, "confirmed")

-----------------------------------------------------------------------------
(* The inductive invariant of SetupProofs.                                  *)

\* How far a perform call is says what it has done.
CallsAreOrdered ==
  \A p \in Processes :
    /\ proc[p].pc = "completing" <=> proc[p].outcome # NoOutcome
    /\ proc[p].applied => proc[p].pc \in {"calling", "effecting", "completing"}
    /\ proc[p].pc = "calling" /\ proc[p].applied => proc[p].enrolled

\* At most one attempt of a kind is under way.
Exclusive ==
  \A p, q \in Processes :
    p # q /\ proc[p].pc \in Under => ~UnderWay(q, Kind(proc[p].op))

\* Entry i tells of the attempt p has under way.
Tells(p, i) ==
  /\ journal[i].op = proc[p].op /\ IsLatest(journal, i)
  /\ journal[i].phase # "completed" /\ journal[i].age <= proc[p].age
  /\ proc[p].pc \in {"calling", "effecting"} => journal[i].phase = "confirmed"

AttemptsAreTold ==
  \A p \in Processes : proc[p].pc \in Under => \E i \in DOMAIN journal : Tells(p, i)

\* An operation is in doubt by what the process under way with it did.
DoubtsAreOwned ==
  \A p \in Processes : proc[p].pc \in Under /\ doubt[proc[p].op] = "open" =>
    \/ proc[p].applied /\ proc[p].outcome # "failed"
    \/ proc[p].outcome = "unknown"

\* The entry leaves it open whether there was an effect, whatever else is kept.
Open(e) == e.phase # "completed" \/ e.outcome \in {"unknown", "succeeded"}

DoubtsAreTold ==
  \A op \in Operations : doubt[op] = "open" =>
    \E i \in DOMAIN journal : journal[i].op = op /\ IsLatest(journal, i) /\ Open(journal[i])

RecoveryInv ==
  /\ TypeOK /\ CallsAreOrdered
  /\ tangled \/ (Exclusive /\ AttemptsAreTold /\ DoubtsAreOwned /\ DoubtsAreTold)
====
