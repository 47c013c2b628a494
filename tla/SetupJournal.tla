---------------------------- MODULE SetupJournal ----------------------------
(***************************************************************************)
(* The persisted Setup journal as data: what one file of entries says about *)
(* an operation, and which entries the store drops when the file is full.   *)
(* src/composition/setup-journal-store.ts keeps the file,                   *)
(* src/application/setup/state.ts reads it.                                 *)
(*                                                                          *)
(* The entry limit stands for both limits of the store (entries and bytes). *)
(* An entry carries its age in ticks instead of its time; an age counts up  *)
(* to the lease, since no comparison looks further back.                    *)
(***************************************************************************)
EXTENDS Naturals, Sequences, SequencesExt

CONSTANTS
  Kinds,        \* action kinds
  Generations,  \* configuration generations
  MaxEntries,   \* MAX_SETUP_JOURNAL_ENTRIES
  Lease         \* inFlightLeaseMs, in ticks

ASSUME LimitsAssumption == MaxEntries \in Nat \ {0} /\ Lease \in Nat \ {0}

\* An operation identity: the action kind bound to a generation.
Operations == Kinds \X Generations
Kind(op) == op[1]

Phases   == {"requested", "confirmed", "completed"}
NoOutcome == "none"
\* "failed" also stands for stale and action-required: the owner did nothing.
Outcomes == {"succeeded", "failed", "cancelled", "unknown"}

JournalEntry == [op : Operations, phase : Phases, outcome : Outcomes \cup {NoOutcome}, age : 0..Lease]

IsLatest(es, i) == \A j \in DOMAIN es : j > i => es[j].op # es[i].op

\* j belongs to the attempt that entry i ends: no terminal entry lies between.
InAttempt(es, j, i) ==
  /\ j <= i /\ es[j].op = es[i].op
  /\ \A m \in j..(i - 1) : es[m].op = es[i].op => es[m].phase # "completed"

ConfirmedBefore(es, i) == \E j \in 1..(i - 1) : es[j].op = es[i].op /\ es[j].phase = "confirmed"

\* Mutant: an unobserved outcome is as settled as a failure.
UnknownUnprotected(es) ==
  {j \in DOMAIN es : \E i \in DOMAIN es : IsLatest(es, i) /\ es[i].phase # "completed" /\ InAttempt(es, j, i)}

\* The entries that carry recovery evidence.
Protected(es) ==
  {j \in DOMAIN es : \E i \in DOMAIN es :
     /\ IsLatest(es, i)
     /\ \/ es[i].phase # "completed" /\ InAttempt(es, j, i)
        \/ /\ es[i].phase = "completed" /\ j = i
           /\ \/ es[i].outcome \in {"unknown", "succeeded"}
              \/ es[i].outcome = "cancelled" /\ ConfirmedBefore(es, i)}

\* Nothing but evidence is left to drop: the append is refused.
Full(es) == Len(es) > MaxEntries /\ Protected(es) = DOMAIN es

\* Mutant: the limit admits one entry too many.
RetainOneMore(es) ==
  LET free       == DOMAIN es \ Protected(es)
      superseded == {i \in free : ~IsLatest(es, i)}
  IN  IF Len(es) <= MaxEntries + 1 THEN es
      ELSE RemoveAt(es, Min(IF superseded # {} THEN superseded ELSE free))

\* Superseded entries go first, then settled outcomes, the oldest first.
Retain(es) ==
  LET free       == DOMAIN es \ Protected(es)
      superseded == {i \in free : ~IsLatest(es, i)}
  IN  IF Len(es) <= MaxEntries THEN es
      ELSE RemoveAt(es, Min(IF superseded # {} THEN superseded ELSE free))

-----------------------------------------------------------------------------

FirstOf(es, op) == Min({j \in DOMAIN es : es[j].op = op})

\* The unfinished attempt of the kind that the projection looks at, if any:
\* of several operations of one kind, the one the journal names first.
UnfinishedOfKind(es, op) ==
  LET open == {i \in DOMAIN es : Kind(es[i].op) = Kind(op) /\ IsLatest(es, i) /\ es[i].phase # "completed"}
  IN  {i \in open : \A j \in open : FirstOf(es, es[i].op) <= FirstOf(es, es[j].op)}

\* The latest outcome i leaves open whether its effect was applied.
EffectUncertain(es, i) ==
  \/ es[i].outcome \in {"unknown", "succeeded"}
  \/ /\ es[i].outcome = "cancelled"
     /\ \E j \in 1..(i - 1) : es[j].phase = "confirmed" /\ InAttempt(es, j, i)

\* Mutant: an unfinished attempt is reconciled as soon as newer evidence is there.
OfferedWithoutLease(es, op, observed) ==
  \A i \in UnfinishedOfKind(es, op) : observed < es[i].age

\* evaluateStep for an incomplete step: whether the action is offered to a
\* process whose observation is as old as observed.
Offered(es, op, observed) ==
  LET open == UnfinishedOfKind(es, op)
  IN  /\ \A i \in open : es[i].age >= Lease /\ observed < es[i].age
      /\ open # {} \/ \A i \in DOMAIN es :
           es[i].op = op /\ IsLatest(es, i) /\ EffectUncertain(es, i) => observed < es[i].age

\* The journal still tells that the last attempt at op may have had an effect.
Remembers(es, op) ==
  \E i \in DOMAIN es :
    es[i].op = op /\ IsLatest(es, i) /\ (es[i].phase # "completed" \/ EffectUncertain(es, i))
=============================================================================
