----------------------------- MODULE SetupProofs -----------------------------
(***************************************************************************)
(* Proofs about SetupApplication for every number of processes, kinds,      *)
(* generations, entries, crashes and faults: the variables keep their       *)
(* types, and the journal remembers what an attempt may have applied until  *)
(* a later attempt has decided on evidence.                                 *)
(***************************************************************************)
EXTENDS SetupApplication, TLAPS, SequenceTheorems, WellFoundedInduction

-----------------------------------------------------------------------------
(* Least elements and removal. *)

\* A set of natural numbers that is not empty has a least member.
LEMMA LeastOfNats ==
  ASSUME NEW S, S \subseteq Nat, S # {}
  PROVE  \E x \in S : \A y \in S : x <= y
<1> DEFINE R == OpToRel(<, Nat)
<1>1. IsWellFoundedOn(R, Nat)
  BY NatLessThanWellFounded
<1> HIDE DEF R
<1>2. \E x \in S : \A y \in S : ~ (<<y, x>> \in R)
  BY <1>1, WFMin
<1>3. \A x, y \in Nat : y < x => <<y, x>> \in R
  BY DEF R, OpToRel
<1>4. PICK x \in S : \A y \in S : ~ (<<y, x>> \in R)
  BY <1>2
<1>5. ASSUME NEW y \in S PROVE x <= y
  <2>1. x \in Nat /\ y \in Nat
    OBVIOUS
  <2>2. ~ (y < x)
    BY <2>1, <1>3, <1>4, Zenon
  <2>3. QED
    BY <2>1, <2>2
<1>6. QED
  BY <1>5

\* The least member is a member.
LEMMA MinIsMember ==
  ASSUME NEW S, S \subseteq Nat, S # {}
  PROVE  Min(S) \in S
BY LeastOfNats DEF Min

\* What is left when one element of a sequence is taken out.
LEMMA RemoveAtElements ==
  ASSUME NEW T, NEW s \in Seq(T), NEW d \in 1..Len(s)
  PROVE  /\ RemoveAt(s, d) \in Seq(T)
         /\ Len(RemoveAt(s, d)) = Len(s) - 1
         /\ \A k \in 1..(Len(s) - 1) : RemoveAt(s, d)[k] = IF k < d THEN s[k] ELSE s[k + 1]
<1> DEFINE a == SubSeq(s, 1, d - 1)
           b == SubSeq(s, d + 1, Len(s))
<1>1. Len(s) \in Nat /\ d \in Nat /\ 1 <= d /\ d <= Len(s)
  OBVIOUS
<1>2. a \in Seq(T) /\ Len(a) = d - 1 /\ \A k \in 1..(d - 1) : a[k] = s[k]
  BY <1>1
<1>3. b \in Seq(T) /\ Len(b) = Len(s) - d /\ \A k \in 1..(Len(s) - d) : b[k] = s[d + k]
  BY <1>1
<1> HIDE DEF a, b
<1>4. /\ a \o b \in Seq(T)
      /\ Len(a \o b) = Len(s) - 1
      /\ \A k \in 1..(Len(s) - 1) : (a \o b)[k] = IF k <= d - 1 THEN a[k] ELSE b[k - (d - 1)]
  <2>1. /\ a \o b \in Seq(T) /\ Len(a \o b) = Len(a) + Len(b)
        /\ \A k \in 1..(Len(a) + Len(b)) : (a \o b)[k] = IF k <= Len(a) THEN a[k] ELSE b[k - Len(a)]
    BY <1>2, <1>3, ConcatProperties
  <2>2. Len(a) + Len(b) = Len(s) - 1
    BY <1>1, <1>2, <1>3
  <2>3. QED
    BY <1>2, <2>1, <2>2
<1>5. ASSUME NEW k \in 1..(Len(s) - 1)
      PROVE  (a \o b)[k] = IF k < d THEN s[k] ELSE s[k + 1]
  <2>1. CASE k < d
    BY <1>1, <1>2, <1>4, <2>1
  <2>2. CASE ~(k < d)
    <3>1. k - (d - 1) \in 1..(Len(s) - d) /\ d + (k - (d - 1)) = k + 1
      BY <1>1, <2>2
    <3>2. (a \o b)[k] = b[k - (d - 1)]
      BY <1>1, <1>4, <2>2
    <3>3. QED
      BY <1>3, <2>2, <3>1, <3>2
  <2>3. QED
    BY <2>1, <2>2
<1>6. QED
  BY <1>4, <1>5 DEF RemoveAt, a, b

-----------------------------------------------------------------------------
(* The journal. *)

\* An entry that leaves an effect open is protected while it is the latest.
LEMMA OpenIsProtected ==
  ASSUME NEW es \in Seq(JournalEntry), NEW i \in DOMAIN es, IsLatest(es, i), Open(es[i])
  PROVE  i \in Protected(es)
<1>1. i \in Nat /\ DOMAIN es = 1..Len(es) /\ Len(es) \in Nat
  OBVIOUS
<1>2. InAttempt(es, i, i)
  BY <1>1 DEF InAttempt
<1>3. CASE es[i].phase # "completed"
  BY <1>2, <1>3 DEF Protected
<1>4. CASE es[i].phase = "completed" /\ es[i].outcome \in {"unknown", "succeeded"}
  BY <1>4 DEF Protected
<1>5. QED
  BY <1>3, <1>4 DEF Open

\* What an append leaves: the types, the limit, every open latest entry of
\* another operation and, if it is open, the new entry.
LEMMA RetainKeepsOpen ==
  ASSUME NEW es \in Seq(JournalEntry), es # <<>>, Len(es) <= MaxEntries + 1, ~Full(es)
  PROVE  /\ Retain(es) \in Seq(JournalEntry)
         /\ Len(Retain(es)) <= MaxEntries
         /\ \A i \in DOMAIN es : IsLatest(es, i) /\ Open(es[i]) =>
              \E k \in DOMAIN Retain(es) : Retain(es)[k] = es[i] /\ IsLatest(Retain(es), k)
<1>1. CASE Len(es) <= MaxEntries
  BY <1>1 DEF Retain
<1>2. CASE ~(Len(es) <= MaxEntries)
  <2> DEFINE free == DOMAIN es \ Protected(es)
             superseded == {i \in free : ~IsLatest(es, i)}
             d == Min(IF superseded # {} THEN superseded ELSE free)
             r == RemoveAt(es, d)
  <2>0. /\ MaxEntries \in Nat /\ Len(es) \in Nat /\ DOMAIN es = 1..Len(es)
        /\ Len(es) = MaxEntries + 1
    BY <1>2, LimitsAssumption
  <2>1. Retain(es) = r
    BY <1>2 DEF Retain
  <2>2. free # {} /\ free \subseteq Nat
    BY <1>2, <2>0 DEF Full, Protected
  <2>3. d \in free
    <3>1. CASE superseded # {}
      BY <2>2, <3>1, MinIsMember
    <3>2. CASE superseded = {}
      BY <2>2, <3>2, MinIsMember
    <3>3. QED
      BY <3>1, <3>2
  <2> HIDE DEF d, r
  <2>4. d \in 1..Len(es) /\ d \notin Protected(es)
    BY <2>0, <2>3
  <2>5. /\ r \in Seq(JournalEntry)
        /\ Len(r) = Len(es) - 1
        /\ \A k \in 1..(Len(es) - 1) : r[k] = IF k < d THEN es[k] ELSE es[k + 1]
    BY <2>4, RemoveAtElements DEF r
  <2>6. ASSUME NEW i \in DOMAIN es, IsLatest(es, i), Open(es[i])
        PROVE  \E k \in DOMAIN r : r[k] = es[i] /\ IsLatest(r, k)
    <3> DEFINE k == IF i < d THEN i ELSE i - 1
    <3>1. i # d
      BY <2>4, <2>6, OpenIsProtected
    <3>2. k \in 1..(Len(es) - 1) /\ DOMAIN r = 1..(Len(es) - 1)
      BY <2>0, <2>4, <2>5, <3>1
    <3>3. r[k] = es[i]
      BY <2>0, <2>4, <2>5, <3>1, <3>2
    <3>4. ASSUME NEW m \in DOMAIN r, m > k PROVE r[m].op # r[k].op
      <4>1. CASE m < d
        BY <2>0, <2>4, <2>5, <2>6, <3>1, <3>2, <3>3, <3>4, <4>1 DEF IsLatest
      <4>2. CASE ~(m < d)
        <5>1. m + 1 \in DOMAIN es /\ m + 1 > i
          BY <2>0, <2>4, <3>1, <3>2, <3>4, <4>2
        <5>2. r[m] = es[m + 1]
          BY <2>0, <2>4, <2>5, <3>2, <4>2
        <5>3. es[m + 1].op # es[i].op
          BY <2>6, <5>1 DEF IsLatest
        <5>4. QED
          BY <3>3, <5>2, <5>3
      <4>3. QED
        BY <4>1, <4>2
    <3>5. QED
      BY <3>2, <3>3, <3>4 DEF IsLatest
  <2>7. QED
    BY <2>0, <2>1, <2>5, <2>6
<1>3. QED
  BY <1>1, <1>2

\* What a successful append leaves of the other operations, and of its own.
LEMMA StoredKeepsOpen ==
  ASSUME TypeOK, NEW p \in Processes, NEW phase \in Phases, Stored(p, phase)
  PROVE  /\ journal' \in Seq(JournalEntry) /\ Len(journal') <= MaxEntries
         /\ \A i \in DOMAIN journal :
              journal[i].op # proc[p].op /\ IsLatest(journal, i) /\ Open(journal[i]) =>
                \E k \in DOMAIN journal' : journal'[k] = journal[i] /\ IsLatest(journal', k)
         /\ Open(EntryOf(p, phase)) =>
              \E k \in DOMAIN journal' : journal'[k] = EntryOf(p, phase) /\ IsLatest(journal', k)
<1> DEFINE e  == EntryOf(p, phase)
           es == WithEntry(p, phase)
           n  == Len(journal)
<1>1. journal \in Seq(JournalEntry) /\ n \in Nat /\ n <= MaxEntries /\ DOMAIN journal = 1..n
  BY DEF TypeOK
<1>2. e \in JournalEntry /\ e.op = proc[p].op
  BY LimitsAssumption DEF TypeOK, EntryOf, JournalEntry, Process
<1>3. /\ es \in Seq(JournalEntry) /\ es # <<>>
      /\ Len(es) = n + 1 /\ DOMAIN es = 1..(n + 1)
      /\ \A i \in 1..n : es[i] = journal[i]
      /\ es[n + 1] = e
  <2>1. es = Append(journal, e)
    BY DEF WithEntry
  <2>2. QED
    BY <1>1, <1>2, <2>1, AppendProperties
<1>4. journal' = Retain(es) /\ ~Full(es)
  BY DEF Stored
<1> HIDE DEF e, es, n
<1>5. /\ Retain(es) \in Seq(JournalEntry)
      /\ Len(Retain(es)) <= MaxEntries
      /\ \A i \in DOMAIN es : IsLatest(es, i) /\ Open(es[i]) =>
           \E k \in DOMAIN Retain(es) : Retain(es)[k] = es[i] /\ IsLatest(Retain(es), k)
  <2>1. Len(es) <= MaxEntries + 1
    BY <1>1, <1>3, LimitsAssumption
  <2>2. QED
    BY <1>3, <1>4, <2>1, RetainKeepsOpen
<1>6. ASSUME NEW i \in DOMAIN journal,
             journal[i].op # proc[p].op, IsLatest(journal, i), Open(journal[i])
      PROVE  \E k \in DOMAIN journal' : journal'[k] = journal[i] /\ IsLatest(journal', k)
  <2>1. i \in DOMAIN es /\ es[i] = journal[i]
    BY <1>1, <1>3
  <2>2. IsLatest(es, i)
    <3>1. ASSUME NEW m \in DOMAIN es, m > i PROVE es[m].op # es[i].op
      <4>1. CASE m = n + 1
        BY <1>2, <1>3, <1>6, <2>1, <4>1
      <4>2. CASE m # n + 1
        <5>1. m \in DOMAIN journal
          BY <1>1, <1>3, <4>2
        <5>2. QED
          BY <1>1, <1>3, <1>6, <2>1, <3>1, <5>1 DEF IsLatest
      <4>3. QED
        BY <4>1, <4>2
    <3>2. QED
      BY <3>1 DEF IsLatest
  <2>3. QED
    BY <1>4, <1>5, <1>6, <2>1, <2>2
<1>7. ASSUME Open(e)
      PROVE  \E k \in DOMAIN journal' : journal'[k] = e /\ IsLatest(journal', k)
  <2>1. n + 1 \in DOMAIN es /\ IsLatest(es, n + 1)
    BY <1>1, <1>3 DEF IsLatest
  <2>2. QED
    BY <1>3, <1>4, <1>5, <1>7, <2>1
<1>8. QED
  BY <1>4, <1>5, <1>6, <1>7 DEF e

-----------------------------------------------------------------------------
(* Three kinds of steps of a process. *)

\* What the new state x of a process has to say for itself.
Ordered(x) ==
  /\ x.pc = "completing" <=> x.outcome # NoOutcome
  /\ x.applied => x.pc \in {"calling", "effecting", "completing"}
  /\ x.pc = "calling" /\ x.applied => x.enrolled

Owned(x, doubts) ==
  x.pc \in Under /\ doubts[x.op] = "open" =>
    \/ x.applied /\ x.outcome # "failed"
    \/ x.outcome = "unknown"

OthersTyped ==
  /\ generation \in Generations /\ complete \in [Kinds -> BOOLEAN]
  /\ crashes \in 0..MaxCrashes /\ faults \in 0..MaxFaults

\* Only the process changes, and an attempt stays the attempt it is.
LEMMA LocalStep ==
  ASSUME RecoveryInv, OthersTyped', NEW p \in Processes, NEW x \in Process,
         proc' = [proc EXCEPT ![p] = x],
         UNCHANGED <<journal, doubt, tangled>>,
         Ordered(x), tangled \/ Owned(x, doubt),
         x.pc \in Under =>
           /\ proc[p].pc \in Under /\ x.op = proc[p].op /\ x.age = proc[p].age
           /\ x.pc \in {"calling", "effecting"} => proc[p].pc \in {"calling", "effecting"}
  PROVE  RecoveryInv'
<1>1. /\ proc \in [Processes -> Process] /\ proc' \in [Processes -> Process]
      /\ proc'[p] = x /\ \A q \in Processes \ {p} : proc'[q] = proc[q]
  BY DEF RecoveryInv, TypeOK
<1>2. TypeOK'
  BY <1>1 DEF RecoveryInv, TypeOK, OthersTyped
<1>3. CallsAreOrdered'
  BY <1>1 DEF RecoveryInv, CallsAreOrdered, Ordered
<1>4. ASSUME ~tangled PROVE Exclusive' /\ AttemptsAreTold' /\ DoubtsAreOwned' /\ DoubtsAreTold'
  <2>1. Exclusive'
    BY <1>1, <1>4 DEF RecoveryInv, Exclusive, UnderWay
  <2>2. AttemptsAreTold'
    <3>1. ASSUME NEW q \in Processes, proc'[q].pc \in Under
          PROVE  \E i \in DOMAIN journal' : Tells(q, i)'
      <4>1. CASE q = p
        <5>1. PICK i \in DOMAIN journal : Tells(p, i)
          BY <1>1, <1>4, <3>1, <4>1 DEF RecoveryInv, AttemptsAreTold
        <5>2. Tells(p, i)'
          BY <1>1, <3>1, <4>1, <5>1 DEF Tells, IsLatest
        <5>3. QED
          BY <4>1, <5>2
      <4>2. CASE q # p
        <5>1. proc'[q] = proc[q]
          BY <1>1, <4>2
        <5>2. PICK i \in DOMAIN journal : Tells(q, i)
          BY <1>4, <3>1, <5>1 DEF RecoveryInv, AttemptsAreTold
        <5>3. Tells(q, i)'
          BY <5>1, <5>2 DEF Tells, IsLatest
        <5>4. QED
          BY <5>3
      <4>3. QED
        BY <4>1, <4>2
    <3>2. QED
      BY <3>1 DEF AttemptsAreTold
  <2>3. DoubtsAreOwned'
    BY <1>1, <1>4 DEF RecoveryInv, DoubtsAreOwned, Owned
  <2>4. DoubtsAreTold'
    BY <1>4 DEF RecoveryInv, DoubtsAreTold, IsLatest
  <2>5. QED
    BY <2>1, <2>2, <2>3, <2>4
<1>5. QED
  BY <1>2, <1>3, <1>4 DEF RecoveryInv

\* An owner applies something while it is called: the entry is there.
LEMMA EffectStep ==
  ASSUME RecoveryInv, OthersTyped', NEW p \in Processes, NEW x \in Process,
         proc[p].pc \in {"calling", "effecting"},
         proc' = [proc EXCEPT ![p] = x],
         UNCHANGED <<journal, tangled>>, Applies(p),
         Ordered(x), tangled \/ Owned(x, doubt'),
         x.pc \in Under, x.op = proc[p].op, x.age = proc[p].age
  PROVE  RecoveryInv'
<1>1. /\ proc \in [Processes -> Process] /\ proc' \in [Processes -> Process]
      /\ proc'[p] = x /\ \A q \in Processes \ {p} : proc'[q] = proc[q]
  BY DEF RecoveryInv, TypeOK
<1>2. /\ proc[p].op \in Operations /\ proc[p].pc \in Under
      /\ doubt \in [Operations -> {"none", "open", "cancelled"}]
      /\ doubt' = [doubt EXCEPT ![proc[p].op] = "open"]
  BY DEF RecoveryInv, TypeOK, Process, Applies, Under
<1>3. TypeOK'
  BY <1>1, <1>2 DEF RecoveryInv, TypeOK, OthersTyped
<1>4. CallsAreOrdered'
  BY <1>1 DEF RecoveryInv, CallsAreOrdered, Ordered
<1>5. ASSUME ~tangled PROVE Exclusive' /\ AttemptsAreTold' /\ DoubtsAreOwned' /\ DoubtsAreTold'
  <2>1. Exclusive'
    BY <1>1, <1>2, <1>5 DEF RecoveryInv, Exclusive, UnderWay
  <2>2. AttemptsAreTold'
    <3>1. ASSUME NEW q \in Processes, proc'[q].pc \in Under
          PROVE  \E i \in DOMAIN journal' : Tells(q, i)'
      <4>1. proc[q].pc \in Under
        BY <1>1, <1>2, <3>1
      <4>2. PICK i \in DOMAIN journal : Tells(q, i)
        BY <1>5, <4>1 DEF RecoveryInv, AttemptsAreTold
      <4>3. Tells(q, i)'
        BY <1>1, <4>2 DEF Tells, IsLatest
      <4>4. QED
        BY <4>3
    <3>2. QED
      BY <3>1 DEF AttemptsAreTold
  <2>3. DoubtsAreOwned'
    <3>1. ASSUME NEW q \in Processes, q # p, proc'[q].pc \in Under
          PROVE  proc'[q].op # proc[p].op
      BY <1>1, <1>2, <1>5, <3>1 DEF RecoveryInv, Exclusive, UnderWay
    <3>2. QED
      BY <1>1, <1>2, <1>5, <3>1 DEF RecoveryInv, TypeOK, Process, DoubtsAreOwned, Owned
  <2>4. DoubtsAreTold'
    <3>1. ASSUME NEW op \in Operations, doubt'[op] = "open"
          PROVE  \E i \in DOMAIN journal : journal[i].op = op /\ IsLatest(journal, i) /\ Open(journal[i])
      <4>1. CASE op = proc[p].op
        BY <1>2, <1>5, <4>1 DEF RecoveryInv, AttemptsAreTold, Tells, Open
      <4>2. CASE op # proc[p].op
        BY <1>2, <1>5, <3>1, <4>2 DEF RecoveryInv, DoubtsAreTold
      <4>3. QED
        BY <4>1, <4>2
    <3>2. QED
      BY <3>1 DEF DoubtsAreTold, IsLatest
  <2>5. QED
    BY <2>1, <2>2, <2>3, <2>4
<1>6. QED
  BY <1>3, <1>4, <1>5 DEF RecoveryInv

\* An entry is journalled.  Only the operation of the entry changes its latest
\* entry, and no other attempt at it is under way.
LEMMA StoreStep ==
  ASSUME RecoveryInv, OthersTyped', NEW p \in Processes, NEW x \in Process, NEW phase \in Phases,
         proc' = [proc EXCEPT ![p] = x], Stored(p, phase),
         doubt' \in [Operations -> {"none", "open", "cancelled"}],
         \A op \in Operations \ {proc[p].op} : doubt'[op] = doubt[op],
         tangled' \in BOOLEAN, tangled' \/ (~tangled /\ ~Contended(p)),
         Ordered(x), tangled' \/ Owned(x, doubt'),
         tangled' \/ (doubt'[proc[p].op] = "open" => Open(EntryOf(p, phase))),
         x.pc \in Under =>
           /\ x.op = proc[p].op /\ phase # "completed"
           /\ x.pc \in {"calling", "effecting"} => phase = "confirmed"
  PROVE  RecoveryInv'
<1>1. /\ proc \in [Processes -> Process] /\ proc' \in [Processes -> Process]
      /\ proc'[p] = x /\ \A q \in Processes \ {p} : proc'[q] = proc[q]
  BY DEF RecoveryInv, TypeOK
<1>2. /\ journal' \in Seq(JournalEntry) /\ Len(journal') <= MaxEntries
      /\ \A i \in DOMAIN journal :
           journal[i].op # proc[p].op /\ IsLatest(journal, i) /\ Open(journal[i]) =>
             \E k \in DOMAIN journal' : journal'[k] = journal[i] /\ IsLatest(journal', k)
      /\ Open(EntryOf(p, phase)) =>
           \E k \in DOMAIN journal' : journal'[k] = EntryOf(p, phase) /\ IsLatest(journal', k)
  BY StoredKeepsOpen DEF RecoveryInv
<1>3. TypeOK'
  BY <1>1, <1>2 DEF RecoveryInv, TypeOK, OthersTyped
<1>4. CallsAreOrdered'
  BY <1>1 DEF RecoveryInv, CallsAreOrdered, Ordered
<1>5. ASSUME ~tangled' PROVE Exclusive' /\ AttemptsAreTold' /\ DoubtsAreOwned' /\ DoubtsAreTold'
  <2>0. /\ Exclusive /\ AttemptsAreTold /\ DoubtsAreOwned /\ DoubtsAreTold
        /\ \A q \in Processes \ {p} : ~UnderWay(q, Kind(proc[p].op))
    BY <1>5 DEF RecoveryInv, Contended
  <2>1. Exclusive'
    BY <1>1, <2>0 DEF Exclusive, UnderWay
  <2>2. AttemptsAreTold'
    <3>1. ASSUME NEW q \in Processes, proc'[q].pc \in Under
          PROVE  \E i \in DOMAIN journal' : Tells(q, i)'
      <4>1. CASE q = p
        <5>1. PICK k \in DOMAIN journal' : journal'[k] = EntryOf(p, phase) /\ IsLatest(journal', k)
          BY <1>1, <1>2, <3>1, <4>1 DEF EntryOf, Open
        <5>2. Tells(p, k)'
          <6>1. /\ journal'[k].op = proc[p].op /\ journal'[k].phase = phase /\ journal'[k].age = 0
            BY <5>1 DEF EntryOf
          <6>2. 0 <= x.age
            BY LimitsAssumption DEF Process
          <6>3. QED
            BY <1>1, <3>1, <4>1, <5>1, <6>1, <6>2 DEF Tells
        <5>3. QED
          BY <4>1, <5>2
      <4>2. CASE q # p
        <5>1. proc'[q] = proc[q] /\ proc[q].op # proc[p].op
          BY <1>1, <2>0, <3>1, <4>2 DEF UnderWay
        <5>2. PICK i \in DOMAIN journal : Tells(q, i)
          BY <2>0, <3>1, <5>1 DEF AttemptsAreTold
        <5>3. PICK k \in DOMAIN journal' : journal'[k] = journal[i] /\ IsLatest(journal', k)
          BY <1>2, <5>1, <5>2 DEF Tells, Open
        <5>4. Tells(q, k)'
          BY <5>1, <5>2, <5>3 DEF Tells
        <5>5. QED
          BY <5>4
      <4>3. QED
        BY <4>1, <4>2
    <3>2. QED
      BY <3>1 DEF AttemptsAreTold
  <2>3. DoubtsAreOwned'
    <3>1. ASSUME NEW q \in Processes, q # p, proc'[q].pc \in Under
          PROVE  proc'[q].op \in Operations \ {proc[p].op}
      BY <1>1, <2>0, <3>1 DEF UnderWay, Process
    <3>2. QED
      BY <1>1, <1>5, <2>0, <3>1 DEF DoubtsAreOwned, Owned
  <2>4. DoubtsAreTold'
    <3>1. ASSUME NEW op \in Operations, doubt'[op] = "open"
          PROVE  \E k \in DOMAIN journal' :
                   journal'[k].op = op /\ IsLatest(journal', k) /\ Open(journal'[k])
      <4>1. CASE op = proc[p].op
        BY <1>2, <1>5, <3>1, <4>1 DEF EntryOf
      <4>2. CASE op # proc[p].op
        <5>1. PICK i \in DOMAIN journal : journal[i].op = op /\ IsLatest(journal, i) /\ Open(journal[i])
          BY <2>0, <3>1, <4>2 DEF DoubtsAreTold
        <5>2. QED
          BY <1>2, <4>2, <5>1
      <4>3. QED
        BY <4>1, <4>2
    <3>2. QED
      BY <3>1 DEF DoubtsAreTold
  <2>5. QED
    BY <2>1, <2>2, <2>3, <2>4
<1>6. QED
  BY <1>3, <1>4, <1>5 DEF RecoveryInv

\* Time passes for the journal and for the processes alike.
LEMMA TickStep ==
  ASSUME RecoveryInv, Tick
  PROVE  RecoveryInv'
<1>1. Lease \in Nat /\ \A age \in 0..Lease : Older(age) \in 0..Lease
  BY LimitsAssumption DEF Older
<1>2. /\ journal' \in Seq(JournalEntry) /\ Len(journal') = Len(journal)
      /\ DOMAIN journal' = DOMAIN journal
      /\ \A i \in DOMAIN journal : journal'[i] = [journal[i] EXCEPT !.age = Older(@)]
  <2>1. journal \in Seq(JournalEntry) /\ Len(journal) \in Nat /\ DOMAIN journal = 1..Len(journal)
    BY DEF RecoveryInv, TypeOK
  <2>2. ASSUME NEW i \in 1..Len(journal)
        PROVE  [journal[i] EXCEPT !.age = Older(@)] \in JournalEntry
    <3>1. journal[i] \in JournalEntry
      BY <2>1
    <3>2. Older(journal[i].age) \in 0..Lease
      BY <1>1, <3>1 DEF JournalEntry
    <3>3. QED
      BY <3>1, <3>2 DEF JournalEntry
  <2>3. journal' = [i \in 1..Len(journal) |-> [journal[i] EXCEPT !.age = Older(@)]]
    BY <2>1 DEF Tick
  <2>4. QED
    BY <2>1, <2>2, <2>3
<1>3. \A i \in DOMAIN journal :
        /\ journal[i] \in JournalEntry
        /\ journal'[i].op = journal[i].op /\ journal'[i].phase = journal[i].phase
        /\ journal'[i].outcome = journal[i].outcome /\ journal'[i].age = Older(journal[i].age)
  <2>1. \A i \in DOMAIN journal : journal[i] \in JournalEntry
    BY DEF RecoveryInv, TypeOK
  <2>2. QED
    BY <1>2, <2>1 DEF JournalEntry
<1>4. ASSUME NEW q \in Processes
      PROVE  /\ proc[q] \in Process /\ proc'[q] \in Process
             /\ proc'[q].pc = proc[q].pc /\ proc'[q].op = proc[q].op
             /\ proc'[q].applied = proc[q].applied /\ proc'[q].enrolled = proc[q].enrolled
             /\ proc'[q].outcome = proc[q].outcome
             /\ proc[q].pc \in Under => proc'[q].age = Older(proc[q].age)
  BY <1>1 DEF RecoveryInv, TypeOK, Process, Tick
<1>5. TypeOK'
  <2>1. proc' \in [Processes -> Process]
    BY <1>4 DEF Tick
  <2>2. QED
    BY <1>2, <2>1 DEF RecoveryInv, TypeOK, Tick
<1>6. CallsAreOrdered'
  BY <1>4 DEF RecoveryInv, CallsAreOrdered
<1>7. \A i \in DOMAIN journal : IsLatest(journal, i) => IsLatest(journal', i)
  BY <1>2, <1>3 DEF IsLatest
<1>8. ASSUME ~tangled PROVE Exclusive' /\ AttemptsAreTold' /\ DoubtsAreOwned' /\ DoubtsAreTold'
  <2>1. Exclusive'
    BY <1>4, <1>8 DEF RecoveryInv, Exclusive, UnderWay
  <2>2. ASSUME NEW q \in Processes, proc'[q].pc \in Under
        PROVE  \E i \in DOMAIN journal' : Tells(q, i)'
    <3>1. PICK i \in DOMAIN journal : Tells(q, i)
      BY <1>4, <1>8, <2>2 DEF RecoveryInv, AttemptsAreTold
    <3>2. journal'[i].age <= proc'[q].age
      BY <1>1, <1>3, <1>4, <2>2, <3>1 DEF Tells, Older, JournalEntry, Process
    <3>3. Tells(q, i)'
      BY <1>3, <1>4, <1>7, <3>1, <3>2 DEF Tells
    <3>4. QED
      BY <1>2, <3>3
  <2>3. DoubtsAreOwned'
    BY <1>4, <1>8 DEF RecoveryInv, DoubtsAreOwned, Tick
  <2>4. DoubtsAreTold'
    <3>1. ASSUME NEW op \in Operations, doubt'[op] = "open"
          PROVE  \E i \in DOMAIN journal' :
                   journal'[i].op = op /\ IsLatest(journal', i) /\ Open(journal'[i])
      <4>1. PICK i \in DOMAIN journal : journal[i].op = op /\ IsLatest(journal, i) /\ Open(journal[i])
        BY <1>8, <3>1 DEF RecoveryInv, DoubtsAreTold, Tick
      <4>2. QED
        BY <1>2, <1>3, <1>7, <4>1 DEF Open
    <3>2. QED
      BY <3>1 DEF DoubtsAreTold
  <2>5. QED
    BY <2>1, <2>2, <2>3, <2>4 DEF AttemptsAreTold
<1>9. QED
  BY <1>5, <1>6, <1>8 DEF RecoveryInv, Tick

\* The environment touches neither the journal nor a process.
LEMMA EnvironmentStep ==
  ASSUME RecoveryInv, OthersTyped', UNCHANGED <<journal, proc, doubt, tangled>>
  PROVE  RecoveryInv'
<1>1. TypeOK'
  BY DEF RecoveryInv, TypeOK, OthersTyped
<1>2. QED
  BY <1>1 DEF RecoveryInv, CallsAreOrdered, Exclusive, UnderWay, AttemptsAreTold, Tells, IsLatest,
              DoubtsAreOwned, DoubtsAreTold, Open

-----------------------------------------------------------------------------
(* Every action is one of these steps. *)

\* What a process keeps when it goes to another step.
LEMMA MoveTo ==
  ASSUME NEW y \in Process, NEW s \in Steps, NEW x, x = [y EXCEPT !.pc = s]
  PROVE  /\ x \in Process /\ x.pc = s /\ x.op = y.op /\ x.age = y.age
         /\ x.applied = y.applied /\ x.enrolled = y.enrolled /\ x.outcome = y.outcome
BY DEF Process

\* An idle process is typed and owns no doubt.
LEMMA IdleIsFine ==
  /\ Idle \in Process /\ Idle.pc = "idle" /\ Ordered(Idle) /\ Idle.pc \notin Under
  /\ \A doubts : Owned(Idle, doubts)
<1>1. \E op : op \in Operations
  <2>1. PICK k \in Kinds : TRUE
    BY SomeOperation
  <2>2. PICK g \in Generations : TRUE
    BY SomeOperation
  <2>3. <<k, g>> \in Operations
    BY <2>1, <2>2 DEF Operations
  <2>4. QED
    BY <2>3
<1>2. Idle.op \in Operations
  BY <1>1 DEF Idle
<1>3. QED
  BY <1>2, LimitsAssumption DEF Idle, Process, Steps, Outcomes, NoOutcome, Ordered, Owned, Under

\* A perform call ends without an entry.
LEMMA FinishStep ==
  ASSUME RecoveryInv, OthersTyped', NEW p \in Processes, Finish(p), UNCHANGED <<journal, doubt, tangled>>
  PROVE  RecoveryInv'
BY IdleIsFine, LocalStep DEF Finish

\* The steps up to the offer keep the invariant.
LEMMA ObservationSteps ==
  ASSUME RecoveryInv, NEW p \in Processes, NEW k \in Kinds,
         Observe(p, k) \/ Stamp(p) \/ Offer(p) \/ Refuse(p)
  PROVE  RecoveryInv'
<1> USE LimitsAssumption
<1>0. proc[p] \in Process /\ proc \in [Processes -> Process] /\ Ordered(proc[p])
  BY DEF RecoveryInv, TypeOK, CallsAreOrdered, Ordered
<1>1. CASE Observe(p, k)
  <2> DEFINE x == [proc[p] EXCEPT !.pc = "observing", !.op = <<k, generation>>]
  <2>0. <<k, generation>> \in Operations /\ proc[p].pc = "idle"
    BY <1>1 DEF RecoveryInv, TypeOK, Operations, Observe, At
  <2>1. x \in Process /\ Ordered(x) /\ x.pc \notin Under
    <3>1. x \in Process /\ x.pc = "observing"
      BY <1>0, <2>0 DEF Process, Steps
    <3>2. x.applied = proc[p].applied /\ x.outcome = proc[p].outcome
      BY <1>0 DEF Process
    <3>3. QED
      BY <1>0, <2>0, <3>1, <3>2 DEF Ordered, Under
  <2>2. proc' = [proc EXCEPT ![p] = x] /\ OthersTyped' /\ Owned(x, doubt)
    BY <1>0, <1>1, <2>1 DEF RecoveryInv, TypeOK, Observe, OthersTyped, Owned
  <2>3. QED
    BY <1>1, <2>1, <2>2, LocalStep DEF Observe
<1>2. CASE Stamp(p)
  <2> DEFINE x == [proc[p] EXCEPT !.pc = "deciding", !.age = 0]
  <2>0. proc[p].pc = "observing" /\ "deciding" \in Steps
    BY <1>2 DEF Stamp, At, Steps
  <2>1. x \in Process /\ Ordered(x) /\ x.pc \notin Under
    <3>1. 0 \in 0..Lease
      BY LimitsAssumption
    <3>2. x \in Process /\ x.pc = "deciding" /\ x.applied = proc[p].applied /\ x.outcome = proc[p].outcome
      BY <1>0, <2>0, <3>1 DEF Process
    <3>3. QED
      BY <1>0, <2>0, <3>2 DEF Ordered, Under
  <2>2. proc' = [proc EXCEPT ![p] = x] /\ OthersTyped' /\ Owned(x, doubt)
    BY <1>0, <1>2, <2>1 DEF RecoveryInv, TypeOK, Stamp, OthersTyped, Owned
  <2>3. QED
    BY <1>2, <2>1, <2>2, LocalStep DEF Stamp
<1>3. CASE Offer(p)
  <2> DEFINE x == [proc[p] EXCEPT !.pc = "requesting"]
  <2>0. proc[p].pc = "deciding" /\ "requesting" \in Steps
    BY <1>3 DEF Offer, At, Steps
  <2>1. x \in Process /\ Ordered(x) /\ x.pc \notin Under
    BY <1>0, <2>0, MoveTo DEF Ordered, Under
  <2>2. proc' = [proc EXCEPT ![p] = x] /\ OthersTyped' /\ Owned(x, doubt)
    BY <1>0, <1>3, <2>1 DEF RecoveryInv, TypeOK, Offer, Goto, OthersTyped, Owned
  <2>3. QED
    BY <1>3, <2>1, <2>2, LocalStep DEF Offer
<1>4. CASE Refuse(p)
  <2>1. OthersTyped'
    BY <1>4, BoundsAssumption DEF RecoveryInv, TypeOK, Refuse, Fault, OthersTyped
  <2>2. QED
    BY <1>4, <2>1, FinishStep DEF Refuse
<1>5. QED
  BY <1>1, <1>2, <1>3, <1>4

\* A fault leaves the count within its bound.
LEMMA FaultTyped ==
  ASSUME RecoveryInv, Fault \/ UNCHANGED faults
  PROVE  faults' \in 0..MaxFaults
BY BoundsAssumption DEF RecoveryInv, TypeOK, Fault

\* An append that is rejected leaves the journal as it is.
LEMMA RejectedStep ==
  ASSUME RecoveryInv, NEW p \in Processes, NEW phase, Rejected(p, phase)
  PROVE  UNCHANGED journal /\ faults' \in 0..MaxFaults
BY FaultTyped DEF Rejected

\* A requested attempt keeps the invariant.
LEMMA RequestStep ==
  ASSUME RecoveryInv, NEW p \in Processes, Request(p)
  PROVE  RecoveryInv'
<1>0. /\ proc[p] \in Process /\ proc \in [Processes -> Process] /\ Ordered(proc[p])
      /\ proc[p].pc = "requesting"
      /\ doubt \in [Operations -> {"none", "open", "cancelled"}] /\ tangled \in BOOLEAN
      /\ UNCHANGED <<generation, complete, crashes>>
  BY DEF RecoveryInv, TypeOK, CallsAreOrdered, Ordered, Request, At
<1>1. OthersTyped'
  <2>1. faults' \in 0..MaxFaults
    BY FaultTyped, RejectedStep DEF Request
  <2>2. QED
    BY <1>0, <2>1 DEF RecoveryInv, TypeOK, OthersTyped
<1>2. CASE Rejected(p, "requested") /\ Finish(p) /\ UNCHANGED <<tangled, doubt>>
  BY <1>1, <1>2, RejectedStep, FinishStep
<1>3. ASSUME Stored(p, "requested"), tangled' = (tangled \/ Contended(p))
      PROVE  /\ tangled' \in BOOLEAN /\ "requested" \in Phases
             /\ tangled' \/ (~tangled /\ ~Contended(p))
             /\ Open(EntryOf(p, "requested"))
  BY <1>0, <1>3 DEF Contended, Open, EntryOf, Phases
<1>4. CASE /\ Stored(p, "requested") /\ tangled' = (tangled \/ Contended(p))
           /\ Recorded(p, "confirming") /\ doubt' = [doubt EXCEPT ![proc[p].op] = "none"]
  <2> DEFINE x == [proc[p] EXCEPT !.pc = "confirming", !.age = 0]
  <2>1. x \in Process /\ Ordered(x) /\ x.op = proc[p].op /\ x.pc = "confirming"
    <3>1. "confirming" \in Steps
      BY DEF Steps
    <3>2. 0 \in 0..Lease
      BY LimitsAssumption
    <3>3. /\ x \in Process /\ x.pc = "confirming" /\ x.op = proc[p].op
          /\ x.applied = proc[p].applied /\ x.outcome = proc[p].outcome
      BY <1>0, <3>1, <3>2 DEF Process
    <3>4. QED
      BY <1>0, <3>3 DEF Ordered
  <2>2. proc' = [proc EXCEPT ![p] = x]
    BY <1>0, <1>4 DEF Recorded
  <2>3. /\ doubt' \in [Operations -> {"none", "open", "cancelled"}]
        /\ \A op \in Operations \ {proc[p].op} : doubt'[op] = doubt[op]
        /\ doubt'[proc[p].op] = "none"
    BY <1>0, <1>4 DEF Process
  <2>4. Owned(x, doubt')
    BY <2>1, <2>3 DEF Owned
  <2> HIDE DEF x
  <2>5. QED
    BY <1>1, <1>3, <1>4, <2>1, <2>2, <2>3, <2>4, StoreStep
<1>5. CASE /\ Stored(p, "requested") /\ tangled' = (tangled \/ Contended(p))
           /\ Finish(p) /\ UNCHANGED doubt
  BY <1>0, <1>1, <1>3, <1>5, IdleIsFine, StoreStep DEF Finish
<1>6. QED
  BY <1>2, <1>4, <1>5 DEF Request

\* What is known of a process before it takes a step.
LEMMA BeforeStep ==
  ASSUME RecoveryInv, NEW p \in Processes
  PROVE  /\ proc[p] \in Process /\ proc \in [Processes -> Process] /\ Ordered(proc[p])
         /\ doubt \in [Operations -> {"none", "open", "cancelled"}] /\ tangled \in BOOLEAN
         /\ proc[p].pc \in Under => tangled \/ (~tangled /\ ~Contended(p) /\ Owned(proc[p], doubt))
<1>1. /\ proc[p] \in Process /\ proc \in [Processes -> Process] /\ Ordered(proc[p])
      /\ doubt \in [Operations -> {"none", "open", "cancelled"}] /\ tangled \in BOOLEAN
  BY DEF RecoveryInv, TypeOK, CallsAreOrdered, Ordered
<1>2. ASSUME proc[p].pc \in Under, ~tangled PROVE ~Contended(p) /\ Owned(proc[p], doubt)
  BY <1>2 DEF RecoveryInv, Exclusive, Contended, DoubtsAreOwned, Owned
<1>3. QED
  BY <1>1, <1>2

\* The call of an attempt ends: a failure is only reported when nothing was applied.
LEMMA EndStep ==
  ASSUME RecoveryInv, OthersTyped', NEW p \in Processes, NEW outcome \in Outcomes,
         proc[p].pc \in {"confirming", "calling", "effecting"},
         End(p, outcome), UNCHANGED <<journal, doubt, tangled>>,
         outcome = "failed" => ~proc[p].applied
  PROVE  RecoveryInv'
<1> DEFINE x == [proc[p] EXCEPT !.pc = "completing", !.outcome = outcome]
<1>1. /\ proc[p] \in Process /\ proc \in [Processes -> Process] /\ Ordered(proc[p])
      /\ tangled \/ Owned(proc[p], doubt)
  BY BeforeStep DEF Under
<1>2. /\ x \in Process /\ x.pc = "completing" /\ x.op = proc[p].op /\ x.age = proc[p].age
      /\ x.applied = proc[p].applied /\ x.outcome = outcome
  BY <1>1 DEF Process, Steps
<1>3. proc' = [proc EXCEPT ![p] = x]
  BY <1>1 DEF End
<1> HIDE DEF x
<1>4. Ordered(x)
  BY <1>2 DEF Ordered, Outcomes, NoOutcome
<1>5. tangled \/ Owned(x, doubt)
  <2>1. proc[p].outcome = NoOutcome /\ proc[p].pc \in Under
    BY <1>1 DEF Ordered, Under
  <2>2. QED
    BY <1>1, <1>2, <2>1 DEF Owned, NoOutcome
<1>6. QED
  BY <1>2, <1>3, <1>4, <1>5, LocalStep DEF Under

\* The decision of the user keeps the invariant.
LEMMA ConfirmStep ==
  ASSUME RecoveryInv, NEW p \in Processes, Confirm(p) \/ CancelBefore(p)
  PROVE  RecoveryInv'
<1>0. proc[p].pc = "confirming" /\ UNCHANGED <<generation, complete, crashes, doubt, tangled>>
  BY DEF Confirm, CancelBefore, At
<1>1. /\ proc[p] \in Process /\ proc \in [Processes -> Process] /\ Ordered(proc[p])
      /\ doubt \in [Operations -> {"none", "open", "cancelled"}] /\ tangled \in BOOLEAN
      /\ tangled \/ (~tangled /\ ~Contended(p) /\ Owned(proc[p], doubt))
      /\ ~proc[p].applied /\ proc[p].outcome = NoOutcome
  BY <1>0, BeforeStep DEF Under, Ordered
<1>2. OthersTyped'
  <2>1. faults' \in 0..MaxFaults
    BY FaultTyped, RejectedStep DEF Confirm, CancelBefore
  <2>2. QED
    BY <1>0, <2>1 DEF RecoveryInv, TypeOK, OthersTyped
<1>3. tangled \/ doubt[proc[p].op] # "open"
  BY <1>0, <1>1 DEF Owned, NoOutcome, Under
<1>4. Open(EntryOf(p, "confirmed")) /\ "confirmed" \in Phases
  BY DEF Open, EntryOf, Phases
<1>5. CASE CancelBefore(p)
  BY <1>0, <1>2, <1>5, EndStep DEF CancelBefore, Outcomes
<1>6. CASE Rejected(p, "confirmed") /\ End(p, "failed")
  BY <1>0, <1>1, <1>2, <1>6, RejectedStep, EndStep DEF Outcomes
<1>7. CASE Stored(p, "confirmed") /\ Recorded(p, "calling")
  <2> DEFINE x == [proc[p] EXCEPT !.pc = "calling", !.age = 0]
  <2>1. /\ x \in Process /\ x.pc = "calling" /\ x.op = proc[p].op
        /\ x.applied = proc[p].applied /\ x.outcome = proc[p].outcome
    <3>1. "calling" \in Steps /\ 0 \in 0..Lease
      BY LimitsAssumption DEF Steps
    <3>2. QED
      BY <1>1, <3>1 DEF Process
  <2>2. proc' = [proc EXCEPT ![p] = x]
    BY <1>1, <1>7 DEF Recorded
  <2> HIDE DEF x
  <2>3. Ordered(x) /\ (tangled \/ Owned(x, doubt))
    BY <1>1, <1>3, <2>1 DEF Ordered, Owned
  <2>4. QED
    BY <1>0, <1>1, <1>2, <1>4, <1>7, <2>1, <2>2, <2>3, StoreStep
<1>8. CASE Stored(p, "confirmed") /\ End(p, "failed")
  <2> DEFINE x == [proc[p] EXCEPT !.pc = "completing", !.outcome = "failed"]
  <2>1. /\ x \in Process /\ x.pc = "completing" /\ x.op = proc[p].op
        /\ x.applied = proc[p].applied /\ x.outcome = "failed"
    BY <1>1 DEF Process, Steps, Outcomes
  <2>2. proc' = [proc EXCEPT ![p] = x]
    BY <1>1, <1>8 DEF End
  <2> HIDE DEF x
  <2>3. Ordered(x) /\ (tangled \/ Owned(x, doubt))
    BY <1>1, <1>3, <2>1 DEF Ordered, Owned, NoOutcome
  <2>4. QED
    BY <1>0, <1>1, <1>2, <1>4, <1>8, <2>1, <2>2, <2>3, StoreStep
<1>9. QED
  BY <1>5, <1>6, <1>7, <1>8 DEF Confirm

\* An owner applies something and the process goes on, or its answer is lost.
LEMMA OwnerStep ==
  ASSUME RecoveryInv, NEW p \in Processes,
         Enroll(p) \/ OwnerChecks(p) \/ Apply(p) \/ Return(p)
  PROVE  RecoveryInv'
<1>0. /\ proc[p].pc \in {"calling", "effecting"} /\ UNCHANGED <<journal, generation, tangled, crashes>>
  BY DEF Enroll, OwnerChecks, Apply, Return, At
<1>1. /\ proc[p] \in Process /\ proc \in [Processes -> Process] /\ Ordered(proc[p])
      /\ tangled \/ Owned(proc[p], doubt)
      /\ proc[p].outcome = NoOutcome /\ proc[p].op \in Operations /\ proc[p].pc \in Under
      /\ doubt \in [Operations -> {"none", "open", "cancelled"}]
  BY <1>0, BeforeStep DEF Under, Ordered, Process
<1>2. OthersTyped'
  <2>1. faults' \in 0..MaxFaults
    BY FaultTyped DEF Enroll, OwnerChecks, Apply, Return
  <2>2. complete' \in [Kinds -> BOOLEAN]
    BY DEF RecoveryInv, TypeOK, Enroll, OwnerChecks, Apply, Return
  <2>3. QED
    BY <1>0, <2>1, <2>2 DEF RecoveryInv, TypeOK, OthersTyped
<1>3. /\ {"succeeded", "failed", "cancelled", "unknown"} = Outcomes
      /\ proc[p].pc \in {"confirming", "calling", "effecting"}
  BY <1>0 DEF Outcomes
<1>4. ASSUME Applies(p)
      PROVE  doubt' = [doubt EXCEPT ![proc[p].op] = "open"]
  BY <1>4 DEF Applies
<1>5. CASE Applies(p) /\ proc' = [proc EXCEPT ![p].enrolled = TRUE, ![p].applied = TRUE] /\ At(p, "calling")
  <2> DEFINE x == [proc[p] EXCEPT !.enrolled = TRUE, !.applied = TRUE]
  <2>1. /\ x \in Process /\ x.pc = "calling" /\ x.op = proc[p].op /\ x.age = proc[p].age
        /\ x.applied /\ x.enrolled /\ x.outcome = NoOutcome
    BY <1>1, <1>5 DEF Process, At
  <2>2. proc' = [proc EXCEPT ![p] = x]
    BY <1>1, <1>5
  <2> HIDE DEF x
  <2>3. Ordered(x) /\ Owned(x, doubt')
    BY <2>1 DEF Ordered, Owned, NoOutcome
  <2>4. QED
    BY <1>0, <1>2, <1>5, <2>1, <2>2, <2>3, EffectStep DEF Under
<1>6. ASSUME NEW outcome \in Outcomes \ {"failed"}, Applies(p),
             proc' = [proc EXCEPT ![p].pc = "completing", ![p].outcome = outcome, ![p].applied = TRUE]
      PROVE  RecoveryInv'
  <2> DEFINE x == [proc[p] EXCEPT !.pc = "completing", !.outcome = outcome, !.applied = TRUE]
  <2>1. /\ x \in Process /\ x.pc = "completing" /\ x.op = proc[p].op /\ x.age = proc[p].age
        /\ x.applied /\ x.outcome = outcome
    BY <1>1 DEF Process, Steps, Outcomes
  <2>2. proc' = [proc EXCEPT ![p] = x]
    BY <1>1, <1>6
  <2> HIDE DEF x
  <2>3. Ordered(x) /\ Owned(x, doubt')
    BY <2>1 DEF Ordered, Owned, NoOutcome, Outcomes
  <2>4. QED
    BY <1>0, <1>2, <1>6, <2>1, <2>2, <2>3, EffectStep DEF Under
<1>7. CASE Enroll(p)
  <2>1. At(p, "calling") /\ ~proc[p].enrolled
    BY <1>7 DEF Enroll
  <2>2. ~proc[p].applied
    BY <1>1, <2>1 DEF Ordered, At
  <2>3. CASE UNCHANGED doubt /\ End(p, "failed")
    BY <1>0, <1>2, <1>3, <2>2, <2>3, EndStep
  <2>4. ASSUME NEW outcome \in {"unknown", "cancelled"}, UNCHANGED doubt, End(p, outcome)
        PROVE  RecoveryInv'
    BY <1>0, <1>2, <1>3, <2>4, EndStep
  <2>5. {"unknown", "cancelled"} \subseteq Outcomes \ {"failed"}
    BY DEF Outcomes
  <2>6. QED
    BY <1>5, <1>6, <1>7, <2>1, <2>3, <2>4, <2>5 DEF Enroll
<1>8. CASE OwnerChecks(p)
  <2>0. UNCHANGED doubt /\ At(p, "calling")
    BY <1>8 DEF OwnerChecks
  <2>1. CASE Goto(p, "effecting")
    <3> DEFINE x == [proc[p] EXCEPT !.pc = "effecting"]
    <3>1. /\ x \in Process /\ x.pc = "effecting" /\ x.op = proc[p].op /\ x.age = proc[p].age
          /\ x.applied = proc[p].applied /\ x.enrolled = proc[p].enrolled /\ x.outcome = NoOutcome
      BY <1>1 DEF Process, Steps
    <3>2. proc' = [proc EXCEPT ![p] = x]
      BY <1>1, <2>1 DEF Goto
    <3> HIDE DEF x
    <3>3. Ordered(x) /\ (tangled \/ Owned(x, doubt))
      BY <1>1, <3>1 DEF Ordered, Owned, NoOutcome
    <3>4. QED
      BY <1>0, <1>1, <1>2, <2>0, <3>1, <3>2, <3>3, LocalStep
  <2>2. CASE End(p, "unknown")
    BY <1>0, <1>2, <1>3, <2>0, <2>2, EndStep
  <2>3. CASE ~proc[p].enrolled /\ End(p, "failed")
    <3>1. ~proc[p].applied
      BY <1>1, <2>0, <2>3 DEF Ordered, At
    <3>2. QED
      BY <1>0, <1>2, <1>3, <2>0, <2>3, <3>1, EndStep
  <2>4. QED
    BY <1>8, <2>1, <2>2, <2>3 DEF OwnerChecks
<1>9. CASE Apply(p)
  <2> DEFINE x == [proc[p] EXCEPT !.applied = TRUE]
  <2>0. proc[p].pc = "effecting" /\ Applies(p)
    BY <1>9 DEF Apply, At
  <2>1. /\ x \in Process /\ x.pc = "effecting" /\ x.op = proc[p].op /\ x.age = proc[p].age
        /\ x.applied /\ x.outcome = NoOutcome
    BY <1>1, <2>0 DEF Process
  <2>2. proc' = [proc EXCEPT ![p] = x]
    BY <1>1, <1>9 DEF Apply
  <2> HIDE DEF x
  <2>3. Ordered(x) /\ Owned(x, doubt')
    BY <2>1 DEF Ordered, Owned, NoOutcome
  <2>4. QED
    BY <1>0, <1>2, <2>0, <2>1, <2>2, <2>3, EffectStep DEF Under
<1>10. CASE Return(p)
  <2>0. UNCHANGED doubt
    BY <1>10 DEF Return
  <2>1. PICK outcome \in Outcomes : End(p, outcome) /\ (outcome = "failed" => ~proc[p].applied)
    BY <1>3, <1>10 DEF Return
  <2>2. QED
    BY <1>0, <1>2, <1>3, <2>0, <2>1, EndStep
<1>11. QED
  BY <1>7, <1>8, <1>9, <1>10

\* The outcome is journalled.  What is still in doubt is not settled by it.
LEMMA CompleteStep ==
  ASSUME RecoveryInv, NEW p \in Processes, Complete(p)
  PROVE  RecoveryInv'
<1>0. /\ proc[p].pc = "completing" /\ UNCHANGED <<generation, complete, tangled, crashes>>
      /\ Finish(p)
  BY DEF Complete, At
<1>1. /\ proc[p] \in Process /\ proc \in [Processes -> Process] /\ Ordered(proc[p])
      /\ doubt \in [Operations -> {"none", "open", "cancelled"}] /\ tangled \in BOOLEAN
      /\ tangled \/ (~tangled /\ ~Contended(p) /\ Owned(proc[p], doubt))
      /\ proc[p].op \in Operations /\ proc[p].pc \in Under
      /\ proc[p].outcome \in Outcomes
  BY <1>0, BeforeStep DEF Under, Ordered, Process
<1>2. OthersTyped'
  <2>1. faults' \in 0..MaxFaults
    BY FaultTyped, RejectedStep DEF Complete
  <2>2. QED
    BY <1>0, <2>1 DEF RecoveryInv, TypeOK, OthersTyped
<1>3. CASE Rejected(p, "completed") /\ UNCHANGED doubt
  BY <1>0, <1>2, <1>3, RejectedStep, FinishStep
<1>4. CASE /\ Stored(p, "completed")
           /\ doubt' = [doubt EXCEPT ![proc[p].op] =
                IF @ = "open" /\ proc[p].outcome = "cancelled" THEN "cancelled" ELSE @]
  <2>1. /\ doubt' \in [Operations -> {"none", "open", "cancelled"}]
        /\ \A op \in Operations \ {proc[p].op} : doubt'[op] = doubt[op]
        /\ doubt'[proc[p].op] = "open" =>
             doubt[proc[p].op] = "open" /\ proc[p].outcome # "cancelled"
    BY <1>1, <1>4
  <2>2. ASSUME ~tangled, doubt'[proc[p].op] = "open" PROVE Open(EntryOf(p, "completed"))
    <3>1. proc[p].outcome \in {"succeeded", "unknown"}
      BY <1>1, <2>1, <2>2 DEF Owned, Outcomes
    <3>2. QED
      BY <3>1 DEF Open, EntryOf
  <2>3. "completed" \in Phases
    BY DEF Phases
  <2>4. QED
    BY <1>0, <1>1, <1>2, <1>4, <2>1, <2>2, <2>3, IdleIsFine, StoreStep DEF Finish
<1>5. QED
  BY <1>3, <1>4 DEF Complete

-----------------------------------------------------------------------------
(* The theorems. *)

\* At first there is no attempt.
LEMMA RecoveryHoldsInitially ==
  Init => RecoveryInv
<1> SUFFICES ASSUME Init PROVE RecoveryInv
  OBVIOUS
<1>1. \A p \in Processes : proc[p] = Idle
  BY DEF Init
<1>2. TypeOK
  <2>1. journal \in Seq(JournalEntry) /\ Len(journal) <= MaxEntries
    BY LimitsAssumption DEF Init
  <2>2. proc \in [Processes -> Process] /\ doubt \in [Operations -> {"none", "open", "cancelled"}]
    BY IdleIsFine DEF Init
  <2>3. 0 \in 0..MaxCrashes /\ 0 \in 0..MaxFaults
    BY BoundsAssumption
  <2>4. generation \in Generations /\ complete \in [Kinds -> BOOLEAN] /\ tangled \in BOOLEAN
    BY DEF Init
  <2>5. crashes = 0 /\ faults = 0
    BY DEF Init
  <2>6. QED
    BY <2>1, <2>2, <2>3, <2>4, <2>5 DEF TypeOK
<1>3. CallsAreOrdered
  BY <1>1, IdleIsFine DEF CallsAreOrdered, Ordered
<1>4. Exclusive /\ AttemptsAreTold /\ DoubtsAreOwned
  BY <1>1, IdleIsFine DEF Exclusive, AttemptsAreTold, DoubtsAreOwned
<1>5. DoubtsAreTold
  BY DEF Init, DoubtsAreTold
<1>6. QED
  BY <1>2, <1>3, <1>4, <1>5 DEF RecoveryInv

\* Every step keeps the invariant.
LEMMA RecoveryIsInductive ==
  RecoveryInv /\ [Next]_vars => RecoveryInv'
<1> SUFFICES ASSUME RecoveryInv, [Next]_vars PROVE RecoveryInv'
  OBVIOUS
<1>1. CASE Tick
  BY <1>1, TickStep
<1>2. ASSUME NEW g \in Generations, Reconfigure(g) PROVE RecoveryInv'
  <2>1. OthersTyped'
    BY <1>2 DEF RecoveryInv, TypeOK, Reconfigure, OthersTyped
  <2>2. QED
    BY <1>2, <2>1, EnvironmentStep DEF Reconfigure
<1>3. ASSUME NEW k \in Kinds, Drift(k) PROVE RecoveryInv'
  <2>1. OthersTyped'
    BY <1>3 DEF RecoveryInv, TypeOK, Drift, OthersTyped
  <2>2. QED
    BY <1>3, <2>1, EnvironmentStep DEF Drift
<1>4. ASSUME NEW p \in Processes, Crash(p) PROVE RecoveryInv'
  <2>1. OthersTyped'
    BY <1>4, BoundsAssumption DEF RecoveryInv, TypeOK, Crash, OthersTyped
  <2>2. QED
    BY <1>4, <2>1, FinishStep DEF Crash
<1>5. ASSUME NEW p \in Processes, NEW k \in Kinds,
             Observe(p, k) \/ Stamp(p) \/ Offer(p) \/ Refuse(p)
      PROVE  RecoveryInv'
  BY <1>5, ObservationSteps
<1>6. ASSUME NEW p \in Processes, Stamp(p) \/ Offer(p) \/ Refuse(p) PROVE RecoveryInv'
  <2>1. PICK k \in Kinds : TRUE
    BY SomeOperation
  <2>2. QED
    BY <1>6, <2>1, ObservationSteps
<1>7. CASE UNCHANGED vars
  <2>1. OthersTyped'
    BY <1>7 DEF RecoveryInv, TypeOK, vars, OthersTyped
  <2>2. QED
    BY <1>7, <2>1, EnvironmentStep DEF vars
<1>8. QED
  BY <1>1, <1>2, <1>3, <1>4, <1>5, <1>6, <1>7,
     RequestStep, ConfirmStep, OwnerStep, CompleteStep DEF Next

\* The inductive invariant: attempts do not overlap unless two processes decided
\* at once, the journal tells of every attempt under way, and an effect whose
\* attempt has ended is left open by the latest entry of its operation.
THEOREM Recovery ==
  Spec => []RecoveryInv
<1>1. Init => RecoveryInv
  BY RecoveryHoldsInitially
<1>2. RecoveryInv /\ [Next]_vars => RecoveryInv'
  BY RecoveryIsInductive
<1>3. QED
  BY <1>1, <1>2, PTL DEF Spec

\* The variables of the Setup application keep their types; the journal never
\* outgrows MAX_SETUP_JOURNAL_ENTRIES.
THEOREM SetupTypes ==
  Spec => []TypeOK
<1>1. RecoveryInv => TypeOK
  BY DEF RecoveryInv
<1>2. QED
  BY <1>1, Recovery, PTL

\* Whatever an attempt may have applied, the journal still tells that its
\* operation may have had an effect, through retention, crashes and failed
\* appends, until a later attempt has decided on evidence.
THEOREM EffectsRemembered ==
  Spec => []EffectsAreRemembered
<1>1. RecoveryInv => EffectsAreRemembered
  <2>1. SUFFICES ASSUME RecoveryInv, ~tangled, NEW op \in Operations, doubt[op] = "open"
                 PROVE  Remembers(journal, op)
    BY DEF EffectsAreRemembered
  <2>2. PICK i \in DOMAIN journal : journal[i].op = op /\ IsLatest(journal, i) /\ Open(journal[i])
    BY <2>1 DEF RecoveryInv, DoubtsAreTold
  <2>3. QED
    BY <2>2 DEF Open, Remembers, EffectUncertain
<1>2. QED
  BY <1>1, Recovery, PTL

\* While an owner is called the latest entry of the operation says confirmed.
THEOREM CallsConfirmed ==
  Spec => []CallsAreConfirmed
<1>1. RecoveryInv => CallsAreConfirmed
  <2>1. SUFFICES ASSUME RecoveryInv, ~tangled, NEW p \in Processes,
                        proc[p].pc \in {"calling", "effecting"}
                 PROVE  LatestPhase(proc[p].op, "confirmed")
    BY DEF CallsAreConfirmed
  <2>2. PICK i \in DOMAIN journal : Tells(p, i)
    BY <2>1 DEF RecoveryInv, AttemptsAreTold, Under
  <2>3. QED
    BY <2>1, <2>2 DEF Tells, LatestPhase
<1>2. QED
  BY <1>1, Recovery, PTL

\* Only an offer takes a process from deciding to requesting.
LEMMA DecidingIsOffering ==
  ASSUME RecoveryInv, [Next]_vars, NEW p \in Processes, Decides(p)
  PROVE  Offer(p)
<1>1. /\ proc \in [Processes -> Process] /\ proc[p].pc = "deciding" /\ proc'[p].pc = "requesting"
  BY DEF RecoveryInv, TypeOK, Decides, At
<1>2. Idle.pc = "idle"
  BY DEF Idle
<1>3. ~Tick
  <2>1. ASSUME Tick PROVE proc'[p].pc = proc[p].pc
    BY <1>1, <2>1 DEF Tick, Process
  <2>2. QED
    BY <1>1, <2>1
<1>4. ASSUME NEW q \in Processes, q # p PROVE
        \A x : proc' = [proc EXCEPT ![q] = x] => FALSE
  BY <1>1, <1>4
<1>5. ASSUME NEW q \in Processes, NEW k \in Kinds,
             \/ Observe(q, k) \/ Stamp(q) \/ Refuse(q) \/ Request(q) \/ Confirm(q) \/ CancelBefore(q)
             \/ Enroll(q) \/ OwnerChecks(q) \/ Apply(q) \/ Return(q) \/ Complete(q) \/ Crash(q)
      PROVE  FALSE
  <2>1. CASE q # p
    BY <1>1, <1>4, <1>5, <2>1 DEF Observe, Stamp, Refuse, Request, Confirm, CancelBefore, Enroll,
       OwnerChecks, Apply, Return, Complete, Crash, Finish, Recorded, End, Goto
  <2>2. CASE q = p
    <3>1. proc' # [proc EXCEPT ![p] = Idle]
      BY <1>1, <1>2
    <3>2. QED
      BY <1>1, <1>5, <2>2, <3>1 DEF Observe, Stamp, Refuse, Request, Confirm, CancelBefore, Enroll,
         OwnerChecks, Apply, Return, Complete, Crash, Finish, At
  <2>3. QED
    BY <2>1, <2>2
<1>6. ASSUME NEW q \in Processes, Offer(q) PROVE q = p
  BY <1>1, <1>4, <1>6 DEF Offer, Goto
<1>7. \E k \in Kinds : TRUE
  BY SomeOperation
<1>8. QED
  BY <1>1, <1>3, <1>5, <1>6, <1>7 DEF Next, vars, Reconfigure, Drift

\* A recorded attempt blocks every other attempt of its kind until its lease has
\* run out, but for abandoned attempts of other generations.  (Those do hide it:
\* see DuplicatesAreBlocked.)
THEOREM AttemptsBlock ==
  Spec => RecordedAttemptsBlock
<1>1. ASSUME RecoveryInv, [Next]_vars, NEW p \in Processes, Decides(p), ~tangled,
             NEW q \in Processes \ {p}, UnderWay(q, Kind(proc[p].op))
      PROVE  proc[q].age >= Lease \/ \E i \in DOMAIN journal : Abandoned(i, proc[q].op)
  <2> DEFINE op == proc[p].op
             open == {i \in DOMAIN journal :
                        Kind(journal[i].op) = Kind(op) /\ IsLatest(journal, i) /\ journal[i].phase # "completed"}
             firsts == {FirstOf(journal, journal[i].op) : i \in open}
  <2>1. Offered(journal, op, proc[p].age)
    BY <1>1, DecidingIsOffering DEF Offer
  <2>2. /\ journal \in Seq(JournalEntry) /\ DOMAIN journal \subseteq Nat
        /\ op \in Operations /\ proc[q] \in Process
    BY <1>1 DEF RecoveryInv, TypeOK, Process
  <2>3. PICK i \in DOMAIN journal : Tells(q, i)
    BY <1>1 DEF RecoveryInv, AttemptsAreTold, UnderWay
  <2>4. i \in open
    BY <1>1, <2>3 DEF Tells, UnderWay
  <2>5. ASSUME NEW j \in open PROVE FirstOf(journal, journal[j].op) \in Nat
    <3> DEFINE named == {m \in DOMAIN journal : journal[m].op = journal[j].op}
    <3>1. named \subseteq Nat /\ named # {}
      BY <2>2
    <3>2. QED
      BY <3>1, MinIsMember DEF FirstOf
  <2>6. firsts \subseteq Nat /\ firsts # {}
    BY <2>4, <2>5
  <2>7. PICK first \in firsts : \A other \in firsts : first <= other
    BY <2>6, LeastOfNats
  <2>8. PICK j \in open : FirstOf(journal, journal[j].op) = first
    BY <2>7
  <2>9. j \in UnfinishedOfKind(journal, op)
    BY <2>7, <2>8 DEF UnfinishedOfKind
  <2>10. journal[j].age >= Lease
    BY <2>1, <2>9 DEF Offered
  <2>11. CASE journal[j].op = proc[q].op
    <3>1. journal[i] \in JournalEntry /\ i \in Nat /\ j \in Nat
      BY <2>2, <2>3, <2>8
    <3>2. i = j
      BY <2>3, <2>8, <2>11, <3>1 DEF Tells, IsLatest
    <3>3. journal[i].age \in Nat /\ proc[q].age \in Nat /\ Lease \in Nat
      BY <2>2, <3>1, LimitsAssumption DEF JournalEntry, Process
    <3>4. QED
      BY <2>3, <2>10, <3>2, <3>3 DEF Tells
  <2>12. CASE journal[j].op # proc[q].op
    BY <1>1, <2>8, <2>10, <2>12 DEF Abandoned, UnderWay
  <2>13. QED
    BY <2>11, <2>12
<1>2. RecoveryInv /\ [Next]_vars =>
        [\A p \in Processes : Decides(p) =>
           \/ tangled
           \/ \A q \in Processes \ {p} : UnderWay(q, Kind(proc[p].op)) =>
                proc[q].age >= Lease \/ \E i \in DOMAIN journal : Abandoned(i, proc[q].op)]_vars
  BY <1>1
<1>3. QED
  BY <1>2, Recovery, PTL DEF Spec, RecordedAttemptsBlock
=============================================================================
