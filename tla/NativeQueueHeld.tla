--------------------------- MODULE NativeQueueHeld ---------------------------
(***************************************************************************)
(* Theorems about what NativeQueue's journal says Codex holds, for all     *)
(* operations, messages and executors and every bound: a message called    *)
(* queued or dispatching, with no change unresolved, is with Codex, in the *)
(* current revision, under the same condition as NativeQueueCopies.        *)
(***************************************************************************)
EXTENDS NativeQueueCopies, Sequences

USE NativeQueueAssumption

-----------------------------------------------------------------------------
(* What Codex has of a message                                             *)

Revisions(e) == {i.revision : i \in InQueue(e) \cup InTranscript(e)}
Landed(e) == entries[e].revision \in Revisions(e)
Lands(e, s) == Landed(e) /\ \A i \in InQueue(e) : i.sub = s

(* Codex has it in a turn, or in its queue as the journal knows it.        *)
HeldAs(e, revision) ==
    \/ InTranscript(e) # {}
    \/ \E i \in InQueue(e) : i.revision = revision /\ i.sub = entries[e].submission

(* What a call read of the entry, and what a request carries of it.        *)
Known(e, w) == w.revision = entries[e].revision /\ w.sub = entries[e].submission

-----------------------------------------------------------------------------
(* The mutation q of entry e                                               *)

(* Its native write may still happen, or is on its way.                    *)
Undone(q) == Open(q) \/ ~Unsent(q)

(* The revision Codex has until then, and again if the write is refused.   *)
Due(e, q) == IF ops[q].action = "update" THEN ops[q].revision ELSE entries[e].revision

(* The entry is as its callers and its request know it.                    *)
Bound(e, q) ==
    /\ \A r \in wire : r.op = q => Known(e, r)
    /\ \A x \in Executors : On(x, q) /\ exec[x].revision # 0 => Known(e, exec[x])

(* An answer and an observation that tell it queued are true.              *)
Answers(e, q) ==
    \A x \in Executors :
        On(x, q) /\ At(x, "sent") /\ exec[x].reply # None /\ exec[x].reply.kind = "queued"
            => Lands(e, exec[x].reply.sub)
Sights(e, q) ==
    ops[q].action \in {"add", "update"} =>
        \A o \in seen : o.op = q /\ o.revision = entries[e].revision => Lands(e, o.sub)

(* Until it is done Codex has what a refusal leaves it.                    *)
Awaits(e, q) ==
    Undone(q) => /\ entries[e].state = "queued" => HeldAs(e, Due(e, q))
                 /\ ops[q].action = "update" => ~Landed(e)

Sound(e) ==
    \A q \in Operations : J!Exists(e) /\ Mutation(e) = q =>
        Bound(e, q) /\ Answers(e, q) /\ Sights(e, q) /\ Awaits(e, q)

-----------------------------------------------------------------------------
(* The invariant                                                           *)

Backs(e) ==
    /\ J!Exists(e) /\ Mutation(e) = None /\ entries[e].state = "queued"
          => HeldAs(e, entries[e].revision)
    /\ J!Exists(e) /\ entries[e].state = "dispatching" => InTranscript(e) # {}
    /\ \A n \in Revisions(e) : J!Exists(e) /\ n \in DOMAIN entries[e].versions

(* Only the mutation of an entry is open or on its way, and only once.     *)
Exclusive ==
    /\ \A r \in wire : /\ Mutation(EntryFor(r.op)) = r.op
                       /\ \A s \in wire : s.op = r.op => r = s
    /\ \A q \in Operations : Proper(q) /\ Open(q) => Mutation(EntryFor(q)) = q /\ Unsent(q)
    /\ \A x \in Executors : At(x, "sent") /\ exec[x].reply # None =>
          /\ Unsent(Op(x))
          /\ exec[x].reply.kind = "turn" => InTranscript(EntryFor(Op(x))) # {}

Holdings == Exclusive /\ \A e \in Operations : Sound(e) /\ Backs(e)

-----------------------------------------------------------------------------
(* An entry a step leaves alone                                            *)

(* Its copies stay, or go from the queue into a turn.                      *)
Travels(e) ==
    /\ InQueue(e)' \subseteq InQueue(e)
    /\ InTranscript(e) # {} => InTranscript(e)' # {}
    /\ Revisions(e)' = Revisions(e)
    /\ \A i \in InQueue(e) : i \in InQueue(e)' \/ InTranscript(e)' # {}

(* A call after its step knows nothing of its entry, what it knew before or*)
(* what is there to read.                                                  *)
Recalls(x, v) ==
    \/ v.revision = 0
    \/ On(x, v.op) /\ v.revision = exec[x].revision /\ v.sub = exec[x].sub
    \/ Known(EntryFor(v.op), v)

SameAnswers(q) ==
    \A x \in Executors : exec'[x].pc # "idle" /\ exec'[x].op = q =>
        \/ exec'[x] = exec[x]
        \/ /\ exec'[x].pc = "sent" => exec'[x].reply = None
           /\ Recalls(x, exec'[x])

SameSights(q) == \A o \in seen' : o.op = q => o \in seen

LEMMA PlacesTravel ==
    ASSUME NEW e, InQueue(e)' = InQueue(e), InTranscript(e)' = InTranscript(e)
    PROVE  Travels(e)
BY DEF Travels, Revisions

LEMMA SoundStays ==
    ASSUME Types, NEW e \in Operations, J!Exists(e), Sound(e), NEW q \in Operations,
           Mutation(e) = q, EntryFor(q) = e,
           entries'[e].mutation = q, entries'[e].revision = entries[e].revision,
           entries'[e].submission = entries[e].submission,
           entries'[e].state \in {entries[e].state} \/ entries'[e].state # "queued",
           ops'[q].action = ops[q].action, ops'[q].revision = ops[q].revision,
           Travels(e), SameAnswers(q), SameSights(q) \/ Sights(e, q)',
           \A r \in wire' : r.op = q => r \in wire \/ Known(e, r),
           Undone(q)' => \/ Undone(q)
                         \/ ops[q].action # "update" /\ entries'[e].state # "queued"
    PROVE  Sound(e)'
<1>1. Bound(e, q) /\ Answers(e, q) /\ Sights(e, q) /\ Awaits(e, q)
  BY DEF Sound
<1>2. Landed(e)' <=> Landed(e)
  BY DEF Landed, Travels
<1>3. \A s : Lands(e, s) => Lands(e, s)'
  BY <1>2 DEF Lands, Travels
<1>4. \A n : HeldAs(e, n) => HeldAs(e, n)'
  BY DEF HeldAs, Travels
<1>5. Bound(e, q)'
  <2>1. ASSUME NEW r \in wire', r.op = q
        PROVE  Known(e, r)'
    BY <1>1, <2>1 DEF Bound, Known
  <2>2. ASSUME NEW x \in Executors, On(x, q)', exec'[x].revision # 0
        PROVE  Known(e, exec[x])'
    <3>1. exec'[x].pc # "idle" /\ exec'[x].op = q
      BY <2>2 DEF On, At, Op
    <3>2. exec'[x] = exec[x] \/ Recalls(x, exec'[x])
      BY <3>1 DEF SameAnswers
    <3>3. CASE exec'[x] = exec[x]
      <4>1. On(x, q) /\ exec[x].revision # 0
        BY <2>2, <3>1, <3>3 DEF On, At, Op
      <4>. QED
        BY <1>1, <3>3, <4>1 DEF Bound, Known
    <3>4. CASE Recalls(x, exec'[x])
      BY <1>1, <2>2, <3>1, <3>4 DEF Recalls, Bound, Known
    <3>. QED
      BY <3>2, <3>3, <3>4
  <2>. QED
    BY <2>1, <2>2 DEF Bound
<1>6. Answers(e, q)'
  <2>. SUFFICES ASSUME NEW x \in Executors, On(x, q)', exec'[x].pc = "sent",
                       exec'[x].reply # None, exec'[x].reply.kind = "queued"
                PROVE  Lands(e, exec[x].reply.sub)'
    BY DEF Answers, At
  <2>1. exec'[x].pc # "idle" /\ exec'[x].op = q
    BY DEF On, At, Op
  <2>2. exec'[x] = exec[x] /\ On(x, q)
    BY <2>1 DEF SameAnswers, On, At, Op
  <2>3. PICK s : s = exec[x].reply.sub
    OBVIOUS
  <2>4. Lands(e, s)'
    BY <1>1, <1>3, <2>2, <2>3 DEF Answers, At
  <2>. QED
    BY <2>2, <2>3, <2>4 DEF Lands
<1>7. Sights(e, q)'
  BY <1>1, <1>3 DEF Sights, SameSights
<1>8. Awaits(e, q)'
  <2>1. Due(e, q)' = Due(e, q)
    BY DEF Due
  <2>. QED
    BY <1>1, <1>2, <1>4, <2>1 DEF Awaits
<1>. QED
  BY <1>5, <1>6, <1>7, <1>8 DEF Sound, Mutation

-----------------------------------------------------------------------------
(* What a transition leaves of an entry's revisions                        *)

RevisionsKept == \A q \in Operations : Proper(q) => ops'[q].revision = ops[q].revision
VersionsKept(e) == DOMAIN entries'[e].versions = DOMAIN entries[e].versions
Steady(e) ==
    RevisionsKept /\ VersionsKept(e) /\ entries'[e].revision = entries[e].revision

LEMMA ReceiptSteady ==
    ASSUME JournalTypes, NEW op \in Operations, Proper(op), NEW status, NEW done,
           J!SetReceipt(op, status, done)
    PROVE  RevisionsKept
<1>. DEFINE row == [ops[op] EXCEPT !.status = status]
            owed == J!Owing(op, status, done)
<1>1. row.revision = ops[op].revision /\ DOMAIN row = DOMAIN ops[op]
  BY RowFields DEF J!Operation
<1>2. "revision" \in DOMAIN ops[op]
  BY RowFields DEF J!Operation
<1>. HIDE DEF row, owed
<1>3. [row EXCEPT !.effect = owed].revision = ops[op].revision
  BY <1>1, <1>2
<1>4. ops' = [ops EXCEPT ![op] = [row EXCEPT !.effect = owed]]
  BY DEF J!SetReceipt, J!Receipt, row, owed
<1>. QED
  BY <1>3, <1>4 DEF RevisionsKept, JournalTypes, JP!JournalInd, JP!TypeOK

LEMMA EntrySteady ==
    ASSUME JournalTypes, NEW e \in Operations, NEW x, J!SetEntry(e, x)
    PROVE  entries'[e] = x
BY DEF J!SetEntry, JournalTypes, JP!JournalInd, JP!TypeOK

LEMMA PrepareSteady ==
    ASSUME JournalTypes, NEW op \in Operations, NEW e \in Operations, EntryFor(op) = e,
           NEW input, J!Prepare(op, input, Thread)
    PROVE  Steady(e)
<1>1. J!Owns(op)
  BY DEF J!Prepare, J!CanPrepare
<1>2. Proper(op) /\ entries[e] \in J!Entry /\ ops[op].entry # None
  BY <1>1, OwnsFacts
<1>3. RevisionsKept
  BY <1>2, ReceiptSteady DEF J!Prepare
<1>. DEFINE x == [entries[e] EXCEPT !.binding = Thread]
            v == [entries[e].versions EXCEPT ![entries[e].revision].input = input]
            y == [x EXCEPT !.versions = v]
<1>4. J!SetEntry(e, y)
  BY <1>2 DEF J!Prepare, J!Prepared, EntryFor
<1>5. DOMAIN v = DOMAIN entries[e].versions
  OBVIOUS
<1>6. x \in J!Entry /\ x.revision = entries[e].revision
  BY <1>2 DEF J!Entry
<1>. HIDE DEF x, v
<1>7. y.versions = v /\ y.revision = entries[e].revision
  BY <1>6 DEF J!Entry
<1>. HIDE DEF y
<1>8. entries'[e] = y
  BY <1>4, EntrySteady
<1>. QED
  BY <1>3, <1>5, <1>7, <1>8 DEF Steady, VersionsKept

(* A transition other than a refusal changes no revision.                  *)
LEMMA OwnerSteady ==
    ASSUME JournalTypes, NEW op \in Operations, NEW e \in Operations, EntryFor(op) = e,
           \/ \E input : J!Prepare(op, input, Thread)
           \/ J!WithdrawSeat(op) \/ J!MarkWithdrawn(op) \/ J!MarkUncertain(op)
           \/ \E s : J!AcknowledgeQueued(op, s) \/ J!ObserveQueued(op, s)
           \/ \E turn : J!AcknowledgeDispatched(op, turn)
           \/ \E deleted : J!AcknowledgeDeleted(op, deleted)
    PROVE  Steady(e)
<1>1. J!Owns(op)
  BY DEF J!Prepare, J!CanPrepare, J!WithdrawSeat, J!CanWithdrawSeat, J!MarkWithdrawn,
         J!CanMarkWithdrawn, J!MarkUncertain, J!CanMarkUncertain, J!AcknowledgeQueued,
         J!CanAcknowledge, J!ObserveQueued, J!CanObserveQueued, J!AcknowledgeDispatched,
         J!AcknowledgeDeleted
<1>2. Proper(op) /\ entries[e] \in J!Entry /\ ops[op].entry # None
  BY <1>1, OwnsFacts
<1>3. \E status, done : J!SetReceipt(op, status, done)
  BY DEF J!Prepare, J!WithdrawSeat, J!MarkWithdrawn, J!MarkUncertain, J!AcknowledgeQueued,
         J!ObserveQueued, J!AcknowledgeDispatched, J!AcknowledgeDeleted
<1>4. RevisionsKept
  BY <1>2, <1>3, ReceiptSteady
<1>5. CASE \E input : J!Prepare(op, input, Thread)
  BY <1>5, PrepareSteady
<1>6. CASE J!WithdrawSeat(op)
  <2>1. ops[op].action = "add" /\ e = op
    BY <1>2, <1>6, RowFields DEF J!WithdrawSeat, J!CanWithdrawSeat
  <2>2. entries'[e] = [entries[e] EXCEPT !.state = "refused", !.mutation = None]
    BY <1>6, <2>1, EntrySteady DEF J!WithdrawSeat
  <2>. QED
    BY <1>2, <1>4, <2>2 DEF Steady, VersionsKept, J!Entry
<1>7. CASE J!MarkWithdrawn(op) \/ J!MarkUncertain(op)
  <2>1. \E state : entries'[e] = J!Marked(entries[e], state)
    BY <1>2, <1>7, EntrySteady DEF J!MarkWithdrawn, J!MarkUncertain, EntryFor
  <2>. QED
    BY <1>2, <1>4, <2>1 DEF Steady, VersionsKept, J!Entry, J!Marked
<1>8. CASE \E s : J!AcknowledgeQueued(op, s) \/ J!ObserveQueued(op, s)
  <2>1. \E s : entries'[e] = J!Queued(entries[e], s)
    BY <1>8, EntrySteady DEF J!AcknowledgeQueued, J!ObserveQueued, EntryFor
  <2>. QED
    BY <1>2, <1>4, <2>1 DEF Steady, VersionsKept, J!Entry, J!Queued
<1>9. CASE \E turn : J!AcknowledgeDispatched(op, turn)
  <2>1. \E turn : entries'[e] = J!Dispatched(entries[e], turn)
    BY <1>9, EntrySteady DEF J!AcknowledgeDispatched, EntryFor
  <2>. QED
    BY <1>2, <1>4, <2>1 DEF Steady, VersionsKept, J!Entry, J!Dispatched
<1>10. CASE \E deleted : J!AcknowledgeDeleted(op, deleted)
  <2>1. \E deleted : entries'[e] = J!Deleted(entries[e], deleted)
    BY <1>10, EntrySteady DEF J!AcknowledgeDeleted, EntryFor
  <2>. QED
    BY <1>2, <1>4, <2>1 DEF Steady, VersionsKept, J!Entry, J!Deleted
<1>. QED
  BY <1>5, <1>6, <1>7, <1>8, <1>9, <1>10

LEMMA RefuseSteady ==
    ASSUME JournalTypes, NEW op \in Operations, NEW e \in Operations, EntryFor(op) = e,
           J!Refuse(op)
    PROVE  /\ RevisionsKept /\ VersionsKept(e)
           /\ entries[e].state = "queued" => entries'[e].revision = Due(e, op)
<1>1. J!Owns(op)
  BY DEF J!Refuse, J!CanRefuse
<1>2. Proper(op) /\ J!Exists(e) /\ entries[e] \in J!Entry /\ ops[op].entry # None
  BY <1>1, OwnsFacts
<1>3. RevisionsKept
  BY <1>2, ReceiptSteady DEF J!Refuse
<1>4. entries'[e] = J!Refused(op, entries[e])
  BY <1>2, EntrySteady DEF J!Refuse, EntryFor
<1>5. entries[e].state = "queued" => entries[e].proof = None
  BY <1>2, EntryFields
<1>. QED
  BY <1>2, <1>3, <1>4, <1>5 DEF VersionsKept, J!Refused, J!Entry, Due

LEMMA ProveSteady ==
    ASSUME JournalTypes, NEW e \in Operations, NEW proof, J!Prove(e, proof)
    PROVE  Steady(e)
<1>1. J!Exists(e) /\ Proper(e)
  BY ProveEffect DEF RowStep
<1>2. RevisionsKept
  BY <1>1, ReceiptSteady DEF J!Prove
<1>3. entries'[e] = J!Proven(e, entries[e], proof)
  BY EntrySteady DEF J!Prove
<1>4. entries[e] \in J!Entry
  BY <1>1, EntryFields
<1>. QED
  BY <1>2, <1>3, <1>4 DEF Steady, VersionsKept, J!Proven, J!Entry

LEMMA RestSteady ==
    ASSUME JournalTypes, NEW op \in Operations, J!Defer(op) \/ J!Remove(op)
    PROVE  RevisionsKept
<1>1. Proper(op)
  BY DeferEffect, RemoveEffect DEF RowStep
<1>. QED
  BY <1>1, ReceiptSteady DEF J!Defer, J!Remove

LEMMA AdmitSteady ==
    ASSUME JournalTypes, NEW op \in Operations, J!Fresh(op), NEW row,
           ops' = [ops EXCEPT ![op] = row]
    PROVE  RevisionsKept
<1>1. ~Proper(op)
  BY DEF J!Fresh, J!Retained, Proper, IsRow
<1>. QED
  BY <1>1 DEF RevisionsKept, JournalTypes, JP!JournalInd, JP!TypeOK

(* An edit is of a revision the entry did not have.                        *)
LEMMA ControlSteady ==
    ASSUME JournalTypes, NEW op \in Operations, NEW e \in Operations,
           NEW action \in {"update", "delete", "start", "send-now"}, J!Exists(e),
           J!AdmitControl(op, action, e, Thread, entries[e].revision)
    PROVE  /\ RevisionsKept
           /\ ops'[op].revision = entries[e].revision
           /\ action = "update" => entries'[e].revision \notin DOMAIN entries[e].versions
           /\ action # "update" => entries'[e].revision = entries[e].revision
           /\ DOMAIN entries[e].versions \subseteq DOMAIN entries'[e].versions
<1>1. J!Fresh(op) /\ ops' = [ops EXCEPT ![op] = J!Admitted(action, FALSE, e, Thread,
                                                            entries[e].revision)]
  BY DEF J!AdmitControl
<1>2. RevisionsKept
  BY <1>1, AdmitSteady
<1>3. ops'[op].revision = entries[e].revision
  BY <1>1 DEF J!Admitted, JournalTypes, JP!JournalInd, JP!TypeOK
<1>4. entries'[e] = J!Controlled(op, action, entries[e])
  BY DEF J!AdmitControl, JournalTypes, JP!JournalInd, JP!TypeOK
<1>5. entries[e] \in J!Entry
  BY EntryFields
<1>6. CASE action = "update"
  <2>. DEFINE s == entries[e].versions
              n == Len(s) + 1
              t == Append(s, [op |-> op, input |-> None])
  <2>1. s \in Seq(J!Version) /\ Len(s) \in Nat /\ DOMAIN s = 1..Len(s)
    BY <1>5 DEF J!Entry
  <2>2. DOMAIN t = 1..n /\ DOMAIN s \subseteq DOMAIN t /\ n \notin DOMAIN s
    <3>. DEFINE v == [op |-> op, input |-> None]
    <3>1. v \in J!Version
      BY DEF J!Version
    <3>. HIDE DEF v
    <3>2. Append(s, v) \in Seq(J!Version) /\ Len(Append(s, v)) = Len(s) + 1
      BY <2>1, <3>1
    <3>. QED
      BY <2>1, <3>2 DEF v
  <2>. HIDE DEF s, t, n
  <2>. DEFINE x == [entries[e] EXCEPT !.mutation = op]
              y == [x EXCEPT !.revision = n]
              z == [y EXCEPT !.versions = t]
  <2>3. entries'[e] = z
    BY <1>4, <1>6 DEF J!Controlled, s, t, n
  <2>4. {"mutation", "revision", "versions"} \subseteq DOMAIN entries[e]
    BY <1>5 DEF J!Entry
  <2>5. DOMAIN x = DOMAIN entries[e]
    OBVIOUS
  <2>. HIDE DEF x
  <2>6. DOMAIN y = DOMAIN x /\ y.revision = n
    BY <2>4, <2>5
  <2>. HIDE DEF y
  <2>7. z.versions = t /\ z.revision = n
    BY <2>4, <2>5, <2>6
  <2>. QED
    BY <1>2, <1>3, <1>6, <2>2, <2>3, <2>7 DEF s
<1>7. CASE action # "update"
  BY <1>2, <1>3, <1>4, <1>5, <1>7 DEF J!Controlled, J!Entry
<1>. QED
  BY <1>6, <1>7

-----------------------------------------------------------------------------
(* The frame of a step                                                     *)

LEMMA BacksStays ==
    ASSUME NEW e, Backs(e), J!Exists(e), J!Exists(e)',
           entries'[e].mutation = None => Mutation(e) = None,
           entries'[e].revision = entries[e].revision, VersionsKept(e),
           entries'[e].submission = entries[e].submission,
           \/ entries'[e].state = entries[e].state
           \/ entries'[e].state \notin {"queued", "dispatching"},
           Travels(e)
    PROVE  Backs(e)'
<1>1. \A n : HeldAs(e, n) => HeldAs(e, n)'
  BY DEF HeldAs, Travels
<1>2. entries[e].state = "dispatching" => InTranscript(e)' # {}
  BY DEF Backs, Travels
<1>3. \A n \in Revisions(e)' : n \in DOMAIN entries'[e].versions
  BY DEF Backs, Travels, VersionsKept
<1>4. ASSUME entries'[e].mutation = None, entries'[e].state = "queued"
      PROVE  HeldAs(e, entries[e].revision)'
  <2>1. HeldAs(e, entries[e].revision)
    BY <1>4 DEF Backs, Mutation
  <2>2. PICK n : n = entries[e].revision
    OBVIOUS
  <2>3. HeldAs(e, n)'
    BY <1>1, <2>1, <2>2
  <2>. QED
    BY <2>2, <2>3 DEF HeldAs
<1>. QED
  BY <1>2, <1>3, <1>4 DEF Backs, Mutation

(* An entry that is not written.                                           *)
LEMMA EntryLeft ==
    ASSUME Types, RowsKept, RevisionsKept, NEW e \in Operations, Sound(e), Backs(e),
           entries'[e] = entries[e], Travels(e),
           \A q \in Operations : J!Exists(e) /\ Mutation(e) = q =>
              /\ SameAnswers(q) /\ SameWire(q)
              /\ SameSights(q) \/ Sights(e, q)'
              /\ Undone(q)' => Undone(q)
    PROVE  Sound(e)' /\ Backs(e)'
<1>1. J!Exists(e)' <=> J!Exists(e)
  BY DEF J!Exists, J!NoEntry
<1>2. CASE J!Exists(e)
  <2>1. Backs(e)'
    BY <1>1, <1>2, BacksStays DEF VersionsKept, Mutation
  <2>2. Sound(e)'
    <3>1. ASSUME NEW q \in Operations, Mutation(e) = q
          PROVE  Sound(e)'
      <4>1. Proper(q) /\ EntryFor(q) = e
        BY <1>2, <3>1, EntryFields, Constants DEF Types
      <4>2. ops'[q].action = ops[q].action /\ ops'[q].revision = ops[q].revision
        BY <4>1 DEF RowsKept, RevisionsKept
      <4>3. /\ SameWire(q) /\ SameAnswers(q) /\ (SameSights(q) \/ Sights(e, q)')
            /\ Undone(q)' => Undone(q)
        BY <1>2, <3>1
      <4>4. \A r \in wire' : r.op = q => r \in wire \/ Known(e, r)
        BY <4>3 DEF SameWire
      <4>. QED
        BY <1>1, <1>2, <3>1, <4>1, <4>2, <4>3, <4>4, SoundStays DEF Mutation
    <3>2. CASE \E q \in Operations : Mutation(e) = q
      BY <3>1, <3>2
    <3>3. CASE ~\E q \in Operations : Mutation(e) = q
      BY <3>3 DEF Sound, Mutation
    <3>. QED
      BY <3>2, <3>3
  <2>. QED
    BY <2>1, <2>2
<1>3. CASE ~J!Exists(e)
  <2>1. Revisions(e)' = {}
    BY <1>3 DEF Backs, Travels
  <2>. QED
    BY <1>1, <1>3, <2>1 DEF Sound, Backs
<1>. QED
  BY <1>2, <1>3

(* A step that writes no entry and no request.                             *)
LEMMA RestHolds ==
    ASSUME Types, Ledger, Holdings, RowsKept, RevisionsKept, entries' = entries,
           UNCHANGED wire, \A f \in Operations : Travels(f), \A q : SameAnswers(q),
           \A e, q \in Operations : J!Exists(e) /\ Mutation(e) = q =>
              SameSights(q) \/ Sights(e, q)',
           \A q \in Operations : (Proper(q)' => Proper(q)) /\ (Open(q)' => Open(q))
    PROVE  Holdings'
<1>1. \A q : SameWire(q) /\ (Unsent(q)' <=> Unsent(q))
  BY DEF SameWire, Unsent
<1>2. \A q \in Operations : Undone(q)' => Undone(q)
  BY <1>1 DEF Undone
<1>3. \A f \in Operations : Sound(f)' /\ Backs(f)'
  BY <1>1, <1>2, EntryLeft DEF Holdings
<1>4. \A q \in Operations : Proper(q) => EntryFor(q)' = EntryFor(q)
  BY DEF RowsKept, EntryFor
<1>5. Exclusive'
  <2>1. \A r \in wire : /\ (Mutation(EntryFor(r.op)) = r.op)'
                        /\ \A s \in wire : s.op = r.op => r = s
    <3>1. \A r \in wire : r.op \in Operations /\ Proper(r.op)
      BY DEF Types, WireTypes, Requests, Ledger, Wired
    <3>. QED
      BY <1>4, <3>1 DEF Holdings, Exclusive, Mutation
  <2>2. \A q \in Operations : (Proper(q) /\ Open(q) => Mutation(EntryFor(q)) = q /\ Unsent(q))'
    BY <1>1, <1>4 DEF Holdings, Exclusive, Mutation
  <2>3. ASSUME NEW y \in Executors, At(y, "sent")', exec'[y].reply # None
        PROVE  /\ Unsent(Op(y))'
               /\ exec'[y].reply.kind = "turn" => (InTranscript(EntryFor(Op(y))) # {})'
    <3>1. exec'[y] = exec[y] /\ At(y, "sent")
      BY <2>3 DEF SameAnswers, At
    <3>2. PICK q \in Operations : q = Op(y) /\ Proper(q)
      BY <3>1, AtStage DEF Types, Stages
    <3>3. Unsent(q) /\ (exec[y].reply.kind = "turn" => InTranscript(EntryFor(q)) # {})
      BY <2>3, <3>1, <3>2 DEF Holdings, Exclusive
    <3>4. PICK e \in Operations : EntryFor(q) = e
      BY <3>2, RowFields DEF Types
    <3>5. InTranscript(e) # {} => InTranscript(e)' # {}
      BY DEF Travels
    <3>6. EntryFor(q)' = e /\ Op(y)' = q
      BY <1>4, <3>1, <3>2, <3>4 DEF Op
    <3>. QED
      BY <1>1, <3>1, <3>3, <3>4, <3>5, <3>6 DEF InTranscript, Unsent
  <2>. QED
    BY <2>1, <2>2, <2>3 DEF Exclusive
<1>. QED
  BY <1>3, <1>5 DEF Holdings

-----------------------------------------------------------------------------
(* A step of the journal on operation p and its entry                      *)

(* At most one call on p steps, and it asks and learns nothing.            *)
Calling(p) ==
    \/ UNCHANGED exec
    \/ \E x \in Executors : \E v :
          /\ ExecStep(x, v) /\ On(x, p)
          /\ \/ v = Idle
             \/ /\ v.op = p /\ v.pc # "sent"
                /\ v.revision = exec[x].revision /\ v.sub = exec[x].sub

LEMMA CallingFacts ==
    ASSUME NEW p, Calling(p)
    PROVE  /\ \A q : SameAnswers(q)
           /\ \A q : q # p => \A x \in Executors : On(x, q)' => exec'[x] = exec[x]
<1>1. CASE UNCHANGED exec
  BY <1>1 DEF SameAnswers
<1>2. ASSUME NEW x \in Executors, NEW v, ExecStep(x, v), On(x, p),
             \/ v = Idle
             \/ /\ v.op = p /\ v.pc # "sent"
                /\ v.revision = exec[x].revision /\ v.sub = exec[x].sub
      PROVE  /\ \A q : SameAnswers(q)
             /\ \A q : q # p => \A y \in Executors : On(y, q)' => exec'[y] = exec[y]
  <2>1. \A y \in Executors : y # x => exec'[y] = exec[y]
    BY <1>2 DEF ExecStep
  <2>2. exec'[x] = v
    BY <1>2 DEF ExecStep
  <2>3. v.pc # "idle" => v.pc # "sent" /\ Recalls(x, v) /\ v.op = p
    BY <1>2 DEF Idle, Recalls
  <2>. QED
    BY <2>1, <2>2, <2>3 DEF SameAnswers, On, At, Op
<1>. QED
  BY <1>1, <1>2 DEF Calling

LEMMA JournalHolds ==
    ASSUME Types, Ledger, Holdings, RowsKept, RevisionsKept, NEW p \in Operations, Proper(p),
           NEW e \in Operations, EntryFor(p) = e,
           \A f \in Operations \ {e} : entries'[f] = entries[f],
           \A q \in Operations \ {p} : ops'[q] = ops[q],
           UNCHANGED <<wire, codex>>, seen' \subseteq seen, Calling(p),
           Open(p)' => entries'[e].mutation = p /\ Unsent(p),
           \/ entries'[e].mutation = Mutation(e)
           \/ Mutation(e) = p /\ entries'[e].mutation = None /\ Unsent(p),
           Sound(e)', Backs(e)'
    PROVE  Holdings'
<1>1. \A f \in Operations : Travels(f)
  BY PlacesStay, PlacesTravel
<1>2. \A q : SameAnswers(q) /\ SameWire(q) /\ SameSights(q)
  BY CallingFacts DEF SameWire, SameSights
<1>3. \A q \in Operations : Proper(q)' => Proper(q)
  BY DEF Proper
<1>4. ASSUME NEW q \in Operations, Proper(q), q # p
      PROVE  /\ EntryFor(q) \in Operations /\ EntryFor(q)' = EntryFor(q)
             /\ Mutation(EntryFor(q)) = q <=> entries'[EntryFor(q)].mutation = q
  <2>1. EntryFor(q) \in Operations /\ q # None
    BY <1>4, RowFields, Constants DEF Types
  <2>2. EntryFor(q)' = EntryFor(q)
    BY <1>4 DEF EntryFor
  <2>3. CASE EntryFor(q) = e
    BY <1>4, <2>1, <2>2, <2>3
  <2>4. CASE EntryFor(q) # e
    BY <2>1, <2>2, <2>4 DEF Mutation
  <2>. QED
    BY <2>3, <2>4
<1>5. ASSUME NEW q \in Operations, Proper(q), q # p, Open(q)'
      PROVE  Open(q)
  <2>1. CASE Waiting(q)'
    BY <1>4, <1>5, <2>1 DEF Waiting, Proper, Open, EntryFor, Mutation
  <2>2. CASE \E x \in Executors : On(x, q)' /\ Holds(x)'
    <3>1. PICK x \in Executors : On(x, q)' /\ Holds(x)'
      BY <2>2
    <3>2. exec'[x] = exec[x]
      BY <1>5, <3>1, CallingFacts
    <3>. QED
      BY <3>1, <3>2 DEF Open, On, Holds, At, Op
  <2>. QED
    BY <1>5, <2>1, <2>2 DEF Open
<1>6. \A q : Unsent(q)' <=> Unsent(q)
  BY DEF Unsent
<1>7. ASSUME NEW f \in Operations
      PROVE  Sound(f)' /\ Backs(f)'
  <2>1. CASE f = e
    BY <2>1
  <2>2. CASE f # e
    <3>1. ASSUME NEW q \in Operations, J!Exists(f), Mutation(f) = q
          PROVE  Undone(q)' => Undone(q)
      <4>1. Proper(q) /\ q # p
        BY <2>2, <3>1, EntryFields, Constants DEF Types
      <4>. QED
        BY <1>5, <1>6, <4>1 DEF Undone
    <3>. QED
      BY <1>1, <1>2, <2>2, <3>1, EntryLeft DEF Holdings
  <2>. QED
    BY <2>1, <2>2
<1>8. Exclusive'
  <2>1. ASSUME NEW r \in wire
        PROVE  /\ entries'[ops'[r.op].entry].mutation = r.op
               /\ \A s \in wire : s.op = r.op => r = s
    <3>1. r.op \in Operations /\ Proper(r.op)
      BY DEF Types, WireTypes, Requests, Ledger, Wired
    <3>2. Mutation(EntryFor(r.op)) = r.op /\ \A s \in wire : s.op = r.op => r = s
      BY DEF Holdings, Exclusive
    <3>3. CASE r.op = p
      <4>1. ~Unsent(p) /\ ops'[p].entry = e
        BY <3>3 DEF Unsent, RowsKept, EntryFor
      <4>. QED
        BY <3>2, <3>3, <4>1
    <3>4. CASE r.op # p
      BY <1>4, <3>1, <3>2, <3>4 DEF EntryFor
    <3>. QED
      BY <3>3, <3>4
  <2>2. ASSUME NEW q \in Operations, Proper(q)', Open(q)'
        PROVE  (Mutation(EntryFor(q)) = q)' /\ Unsent(q)'
    <3>1. CASE q = p
      BY <1>6, <2>2, <3>1 DEF RowsKept, EntryFor, Mutation
    <3>2. CASE q # p
      BY <1>3, <1>4, <1>5, <1>6, <2>2, <3>2 DEF Holdings, Exclusive, EntryFor, Mutation
    <3>. QED
      BY <3>1, <3>2
  <2>3. ASSUME NEW x \in Executors, At(x, "sent")', exec'[x].reply # None
        PROVE  /\ Unsent(Op(x))'
               /\ exec'[x].reply.kind = "turn" => (InTranscript(EntryFor(Op(x))) # {})'
    <3>1. exec'[x] = exec[x]
      BY <1>2, <2>3 DEF SameAnswers, At
    <3>2. At(x, "sent") /\ Proper(Op(x)) /\ Op(x) \in Operations
      BY <2>3, <3>1, AtStage DEF At, Types, Stages
    <3>3. Unsent(Op(x)) /\ (exec[x].reply.kind = "turn" => InTranscript(EntryFor(Op(x))) # {})
      BY <2>3, <3>1, <3>2 DEF Holdings, Exclusive
    <3>. QED
      BY <3>1, <3>2, <3>3 DEF Op, Unsent, EntryFor, RowsKept, InTranscript, codex
  <2>. QED
    BY <2>1, <2>2, <2>3 DEF Exclusive, Mutation, EntryFor
<1>. QED
  BY <1>7, <1>8 DEF Holdings

-----------------------------------------------------------------------------
(* The steps of a call that write nothing                                  *)

LEMMA LocalHolds ==
    ASSUME Types, Ledger, Copies, Holdings, NEW x \in Executors, Local(x),
           exec'[x] = Idle \/ Recalls(x, exec'[x])
    PROVE  Holdings'
<1>1. UNCHANGED <<journal, wire, codex, seen>>
  BY DEF Local
<1>2. PICK v : ExecStep(x, v) /\ (v = Idle \/ Milder(x, v))
  BY DEF Local
<1>3. RowsKept /\ RevisionsKept /\ ops' = ops /\ entries' = entries
  BY <1>1 DEF RowsKept, RevisionsKept, journal, Proper
<1>4. \A f : Travels(f)
  BY <1>1, PlacesStay, PlacesTravel
<1>5. exec'[x] = v /\ \A y \in Executors : y # x => exec'[y] = exec[y]
  BY <1>2 DEF ExecStep
<1>6. v.pc # "idle" => v.pc # "sent" /\ (Holding(v) => On(x, v.op) /\ Holds(x)) /\ Recalls(x, v)
  BY <1>2, <1>5 DEF Idle, Milder
<1>7. \A q : SameAnswers(q) /\ SameSights(q)
  BY <1>1, <1>5, <1>6 DEF SameAnswers, SameSights
<1>8. ASSUME NEW q \in Operations, Open(q)'
      PROVE  Open(q)
  <2>1. CASE Waiting(q)'
    BY <1>3, <2>1 DEF Waiting, Proper, Open, EntryFor, Mutation
  <2>2. CASE \E y \in Executors : On(y, q)' /\ Holds(y)'
    <3>1. PICK y \in Executors : On(y, q)' /\ Holds(y)'
      BY <2>2
    <3>2. On(y, q) /\ Holds(y)
      BY <1>5, <1>6, <3>1 DEF On, Holds, At, Op
    <3>. QED
      BY <3>2 DEF Open
  <2>. QED
    BY <1>8, <2>1, <2>2 DEF Open
<1>9. UNCHANGED wire /\ \A q : Proper(q)' <=> Proper(q)
  BY <1>1, <1>3 DEF Proper
<1>. QED
  BY <1>3, <1>4, <1>7, <1>8, <1>9, RestHolds

(* A call that goes on, throws or stops knows what it knew.                *)
LEMMA StaysFacts ==
    ASSUME Types, NEW x \in Executors, ~At(x, "idle"), NEW pc \in Stages,
           NEW ends \in {"failed", "uncertain"},
           Stop(x) \/ Move(x, pc) \/ Throw(x, ends)
    PROVE  \E v : /\ ExecStep(x, v)
                  /\ \/ v = Idle
                     \/ /\ v.op = Op(x) /\ v.revision = exec[x].revision /\ v.sub = exec[x].sub
                        /\ v.pc = pc \/ (v.pc = "caught" /\ v.ends = ends)
<1>1. exec[x] \in Workers
  BY AtWork DEF Types
<1>2. CASE Stop(x)
  BY <1>2, Stepped DEF Stop
<1>3. CASE Move(x, pc)
  <2>. DEFINE v == Moved(exec[x], pc)
  <2>1. v.op = Op(x) /\ v.revision = exec[x].revision /\ v.sub = exec[x].sub /\ v.pc = pc
    BY <1>1, MovedFields DEF Op
  <2>2. exec' = [exec EXCEPT ![x] = v]
    BY <1>3 DEF Move, Moved
  <2>. HIDE DEF v
  <2>. QED
    BY <2>1, <2>2, Stepped
<1>4. CASE Throw(x, ends)
  <2>. DEFINE v == Thrown(exec[x], ends)
  <2>1. /\ v.op = Op(x) /\ v.revision = exec[x].revision /\ v.sub = exec[x].sub
        /\ v.pc = "caught" /\ v.ends = ends
    BY <1>1, ThrownFields DEF Op
  <2>2. exec' = [exec EXCEPT ![x] = v]
    BY <1>4 DEF Throw, Thrown
  <2>. HIDE DEF v
  <2>. QED
    BY <2>1, <2>2, Stepped
<1>. QED
  BY <1>2, <1>3, <1>4

LEMMA StaysHold ==
    ASSUME Types, Ledger, Copies, Holdings, NEW x \in Executors, ~At(x, "idle"), NEW pc \in Stages,
           NEW ends \in {"failed", "uncertain"},
           Stop(x) \/ Move(x, pc) \/ Throw(x, ends), Local(x)
    PROVE  Holdings'
<1>1. PICK v : /\ ExecStep(x, v)
               /\ \/ v = Idle
                  \/ v.op = Op(x) /\ v.revision = exec[x].revision /\ v.sub = exec[x].sub
  BY StaysFacts
<1>2. exec'[x] = v
  BY <1>1 DEF ExecStep
<1>3. v = Idle \/ Recalls(x, v)
  BY <1>1 DEF Recalls, On
<1>. QED
  BY <1>2, <1>3, LocalHolds

LEMMA ReadsHold ==
    ASSUME Types, Ledger, Copies, Holdings, NEW x \in Executors,
           (\E op \in Operations : Pick(x, op)) \/ ReadEntry(x) \/ HealthAllows(x)
    PROVE  Holdings'
<1>1. Standing
  BY DEF Copies
<1>2. Local(x)
  BY <1>1, PickLocal, ReadEntryLocal, HealthAllowsLocal
<1>3. exec'[x] = Idle \/ Recalls(x, exec'[x])
  <2>1. ASSUME NEW op \in Operations, Pick(x, op)
        PROVE  Recalls(x, exec'[x])
    <3>1. exec' = [exec EXCEPT ![x] = Working(op)]
      BY <2>1 DEF Pick
    <3>2. exec'[x] = Working(op)
      BY <3>1, Stepped DEF ExecStep
    <3>. QED
      BY <3>2 DEF Recalls, Working
  <2>2. CASE ReadEntry(x)
    <3>1. ~At(x, "idle") /\ exec[x] \in Workers /\ Op(x) \in Operations /\ Proper(Op(x))
      BY <2>2, AtStage DEF ReadEntry, Types, Stages
    <3>2. CASE Stop(x)
      BY <3>2, Stepped DEF Stop, ExecStep
    <3>3. CASE ~Stop(x)
      <4>1. PICK e \in Operations : e = EntryFor(Op(x)) /\ J!Exists(e)
        BY <3>1, RowFields DEF Types
      <4>2. PICK s \in Submissions \cup {None} : s = entries[e].submission
        BY <4>1, EntryFields DEF Types
      <4>3. PICK n \in 0..MaxRevision : n = entries[e].revision
        BY <4>1, EntryFields, Constants DEF Types
      <4>4. PICK pc \in Stages : pc = IF host = 0 THEN "refusing" ELSE "read"
        BY DEF Stages
      <4>5. host \in Nat
        BY Constants DEF Types, HostTypes
      <4>. DEFINE w == entries[e].state = "withdrawn"
                  c == exec[x]
                  v == Informed(c, pc, s, w, n, host)
      <4>6. w \in BOOLEAN
        OBVIOUS
      <4>7. exec' = [exec EXCEPT ![x] = v]
        BY <2>2, <3>3, <4>1, <4>2, <4>3, <4>4 DEF ReadEntry, EntryOf, EntryFor, Informed
      <4>8. c \in Workers /\ c.op = Op(x) /\ v = Informed(c, pc, s, w, n, host)
        BY <3>1 DEF Op
      <4>. HIDE DEF w, c, v
      <4>9. v.sub = s /\ v.revision = n /\ v.op = Op(x)
        BY <4>6, <4>5, <4>8, InformedFields
      <4>10. exec'[x] = v
        BY <4>7, Stepped DEF ExecStep
      <4>. QED
        BY <4>1, <4>2, <4>3, <4>9, <4>10 DEF Recalls, Known
    <3>. QED
      BY <3>2, <3>3
  <2>3. CASE HealthAllows(x)
    <3>. DEFINE v == Readied(exec[x], active = None)
    <3>1. ~At(x, "idle") /\ exec[x] \in Workers
      BY <2>3, AtStage DEF HealthAllows, Types, Stages
    <3>2. v.op = Op(x) /\ v.revision = exec[x].revision /\ v.sub = exec[x].sub
      BY <3>1, ReadiedFields DEF Op
    <3>3. exec' = [exec EXCEPT ![x] = v]
      BY <2>3 DEF HealthAllows, Readied
    <3>. HIDE DEF v
    <3>4. exec'[x] = v
      BY <3>3, Stepped DEF ExecStep
    <3>. QED
      BY <3>1, <3>2, <3>4 DEF Recalls, On
  <2>. QED
    BY <2>1, <2>2, <2>3
<1>. QED
  BY <1>2, <1>3, LocalHolds

-----------------------------------------------------------------------------
(* The steps of a call on the journal                                      *)

(* The call that prepared an operation, or one that finds it waiting, ends.*)
LEMMA Closes ==
    ASSUME NEW p \in Operations, Right(p), NEW x \in Executors, On(x, p), NEW v,
           ExecStep(x, v), v.pc # "idle" => ~Holding(v), Prepared(x, p) \/ Waiting(p),
           ~Waiting(p)'
    PROVE  ~Open(p)'
<1>. SUFFICES ASSUME NEW y \in Executors, On(y, p)', Holds(y)'
              PROVE  FALSE
  BY DEF Open
<1>1. y # x
  BY DEF ExecStep, Holds, At
<1>2. exec'[y] = exec[y]
  BY <1>1 DEF ExecStep
<1>3. Prepared(y, p)
  BY <1>2 DEF Prepared, On, Holds, Holding, At, Op
<1>. QED
  BY <1>1, <1>3 DEF Right, Owned

(* A transition that resolves its entry's mutation.                        *)
LEMMA SettledHolds ==
    ASSUME Types, Ledger, Holdings, RowsKept, RevisionsKept, NEW p \in Operations, Proper(p),
           NEW e \in Operations, EntryFor(p) = e, Mutation(e) = p, J!Exists(e),
           NEW status, RowStep(p, status), NEW state, NEW sub, EntryStep(e, state, None, sub),
           VersionsKept(e), UNCHANGED <<wire, codex>>, seen' \subseteq seen, Calling(p),
           Unsent(p), ~Open(p)',
           state = "queued" => \/ InTranscript(e) # {}
                               \/ \E i \in InQueue(e) : /\ i.revision = entries'[e].revision
                                                        /\ i.sub = sub,
           state = "dispatching" => InTranscript(e) # {}
    PROVE  Holdings'
<1>1. InQueue(e)' = InQueue(e) /\ InTranscript(e)' = InTranscript(e)
  BY PlacesStay
<1>2. Revisions(e)' = Revisions(e)
  BY <1>1 DEF Revisions
<1>3. Backs(e)
  BY DEF Holdings
<1>4. Backs(e)'
  <2>1. \A n \in Revisions(e)' : n \in DOMAIN entries'[e].versions
    BY <1>2, <1>3 DEF Backs, VersionsKept
  <2>2. state = "queued" => HeldAs(e, entries[e].revision)'
    BY <1>1 DEF HeldAs, EntryStep
  <2>. QED
    BY <1>1, <2>1, <2>2 DEF Backs, EntryStep
<1>5. Sound(e)'
  BY Constants DEF Sound, EntryStep, Mutation
<1>6. /\ \A f \in Operations \ {e} : entries'[f] = entries[f]
      /\ \A q \in Operations \ {p} : ops'[q] = ops[q]
      /\ entries'[e].mutation = None
  BY DEF EntryStep, RowStep
<1>. QED
  BY <1>4, <1>5, <1>6, JournalHolds

(* A transition that leaves the mutation to its operation.                 *)
LEMMA KeptHolds ==
    ASSUME Types, Ledger, Holdings, RowsKept, NEW p \in Operations, Proper(p),
           NEW e \in Operations, EntryFor(p) = e, Mutation(e) = p, J!Exists(e),
           NEW status, RowStep(p, status), NEW state,
           EntryStep(e, state, p, entries[e].submission), Steady(e),
           state = entries[e].state \/ state \notin {"queued", "dispatching"},
           UNCHANGED <<wire, codex>>, seen' \subseteq seen, Calling(p),
           Open(p)' => \/ Open(p)
                       \/ ops[p].action # "update" /\ state # "queued" /\ Unsent(p)
    PROVE  Holdings'
<1>1. RevisionsKept /\ VersionsKept(e) /\ entries'[e].revision = entries[e].revision
  BY DEF Steady
<1>2. /\ \A f \in Operations \ {e} : entries'[f] = entries[f]
      /\ \A q \in Operations \ {p} : ops'[q] = ops[q]
      /\ entries'[e].mutation = p /\ entries'[e].submission = entries[e].submission
      /\ entries'[e].state = state /\ J!Exists(e)'
  BY DEF EntryStep, RowStep
<1>3. Travels(e)
  BY PlacesStay, PlacesTravel
<1>4. Sound(e) /\ Backs(e)
  BY DEF Holdings
<1>5. Open(p)' => entries'[e].mutation = p /\ Unsent(p)
  BY <1>2 DEF Holdings, Exclusive
<1>6. Backs(e)'
  BY <1>1, <1>2, <1>3, <1>4, BacksStays, Constants
<1>7. Sound(e)'
  <2>1. SameAnswers(p) /\ SameSights(p)
    BY CallingFacts DEF SameSights
  <2>2. ops'[p].action = ops[p].action /\ ops'[p].revision = ops[p].revision
    BY <1>1 DEF RowsKept, RevisionsKept
  <2>3. Undone(p)' => Undone(p) \/ (ops[p].action # "update" /\ entries'[e].state # "queued")
    BY <1>2 DEF Undone, Unsent
  <2>4. entries'[e].state \in {entries[e].state} \/ entries'[e].state # "queued"
    BY <1>2
  <2>5. \A r \in wire' : r.op = p => r \in wire \/ Known(e, r)
    OBVIOUS
  <2>. QED
    BY <1>1, <1>2, <1>3, <1>4, <2>1, <2>2, <2>3, <2>4, <2>5, SoundStays
<1>. QED
  BY <1>1, <1>2, <1>5, <1>6, <1>7, JournalHolds

(* A refusal gives an edit's entry back the revision Codex has.            *)
LEMMA RefuseHolds ==
    ASSUME Types, Ledger, Copies, Holdings, NEW x \in Executors, ~At(x, "idle"),
           NEW p, p = Op(x), J!Refuse(p), Stop(x), UNCHANGED <<wire, codex, seen>>,
           Waiting(p) \/ Holds(x)
    PROVE  Holdings'
<1>1. p \in Operations /\ Proper(p) /\ On(x, p) /\ Right(p)
  BY Caller
<1>2. PICK e \in Operations : EntryFor(p) = e /\ J!Exists(e)
  BY <1>1, RowFields DEF Types
<1>3. /\ Mutation(e) = p /\ RowStep(p, "failed")
      /\ EntryStep(e, RefusedState(p), None, entries[e].submission)
  BY <1>1, <1>2, RefuseEffect DEF Types
<1>4. /\ RevisionsKept /\ VersionsKept(e) /\ RowsKept
      /\ entries[e].state = "queued" => entries'[e].revision = Due(e, p)
  BY <1>1, <1>2, RefuseSteady, RefuseJournaled DEF Types, Journaled
<1>5. Open(p) /\ (Prepared(x, p) \/ Waiting(p))
  BY <1>1 DEF Open, Holds, Holding, Prepared
<1>6. Unsent(p)
  BY <1>1, <1>5 DEF Holdings, Exclusive
<1>7. ExecStep(x, Idle) /\ Idle.pc = "idle"
  BY Stepped DEF Stop, Idle
<1>8. ~Open(p)'
  <2>1. ~Waiting(p)'
    BY <1>3 DEF Waiting, RowStep
  <2>. QED
    BY <1>1, <1>5, <1>7, <2>1, Closes
<1>9. Calling(p)
  BY <1>1, <1>7 DEF Calling
<1>10. Sound(e) /\ Backs(e)
  BY DEF Holdings
<1>11. RefusedState(p) \in {"queued", "dispatching"} => RefusedState(p) = entries[e].state
  BY <1>2 DEF RefusedState, Spared
<1>12. ASSUME RefusedState(p) = "queued"
       PROVE  \/ InTranscript(e) # {}
              \/ \E i \in InQueue(e) : /\ i.revision = entries'[e].revision
                                       /\ i.sub = entries[e].submission
  <2>1. HeldAs(e, Due(e, p))
    BY <1>1, <1>2, <1>3, <1>5, <1>10, <1>11, <1>12 DEF Sound, Awaits, Undone
  <2>. QED
    BY <1>4, <1>11, <1>12, <2>1 DEF HeldAs
<1>13. RefusedState(p) = "dispatching" => InTranscript(e) # {}
  BY <1>2, <1>10, <1>11 DEF Backs
<1>. QED
  BY <1>1, <1>2, <1>3, <1>4, <1>6, <1>8, <1>9, <1>12, <1>13, SettledHolds

LEMMA PrepareHolds ==
    ASSUME Types, Ledger, Copies, Holdings, NEW x \in Executors, At(x, "ready"),
           NEW p, p = Op(x), J!Prepare(p, exec[x].revision, Thread),
           exec' = [exec EXCEPT ![x] = Swapped(exec[x])] \/ Throw(x, "failed"),
           UNCHANGED <<wire, codex, seen>>
    PROVE  Holdings'
<1>1. ~At(x, "idle") /\ exec[x].revision \in 1..MaxRevision
  BY AtStage DEF Types, Stages
<1>2. p \in Operations /\ Proper(p) /\ On(x, p) /\ Right(p) /\ exec[x] \in Workers
  BY <1>1, Caller
<1>3. PICK e \in Operations : EntryFor(p) = e /\ J!Exists(e)
  BY <1>2, RowFields DEF Types
<1>4. /\ Waiting(p) /\ RowStep(p, "delivering")
      /\ EntryStep(e, entries[e].state, p, entries[e].submission)
  BY <1>2, <1>3, PrepareEffect DEF Types
<1>5. Steady(e) /\ RowsKept
  BY <1>1, <1>2, <1>3, OwnerSteady, PrepareJournaled DEF Types, Journaled
<1>6. Calling(p)
  <2>1. CASE Throw(x, "failed")
    <3>1. PICK v : /\ ExecStep(x, v)
                   /\ \/ v = Idle
                      \/ /\ v.op = p /\ v.revision = exec[x].revision /\ v.sub = exec[x].sub
                         /\ v.pc = "caught"
      BY <1>1, <2>1, StaysFacts DEF Stages
    <3>. QED
      BY <1>2, <3>1 DEF Calling
  <2>2. CASE exec' = [exec EXCEPT ![x] = Swapped(exec[x])]
    <3>. DEFINE v == Swapped(exec[x])
    <3>1. v.op = p /\ v.revision = exec[x].revision /\ v.sub = exec[x].sub /\ v.pc = "prepared"
      BY <1>2, SwappedFields DEF Op
    <3>2. exec' = [exec EXCEPT ![x] = v]
      BY <2>2
    <3>. HIDE DEF v
    <3>3. ExecStep(x, v)
      BY <3>2, Stepped
    <3>. QED
      BY <1>2, <3>1, <3>3 DEF Calling
  <2>. QED
    BY <2>1, <2>2
<1>7. Open(p) /\ Mutation(e) = p
  BY <1>3, <1>4 DEF Open, Waiting
<1>. QED
  BY <1>2, <1>3, <1>4, <1>5, <1>6, <1>7, KeptHolds

LEMMA DeferHolds ==
    ASSUME Types, Ledger, Copies, Holdings, NEW x \in Executors, At(x, "deferring"),
           NEW p, p = Op(x), J!Defer(p), UNCHANGED <<wire, codex, seen>>,
           NEW v, v = Idle \/ v = Unprepared(exec[x]), exec' = [exec EXCEPT ![x] = v]
    PROVE  Holdings'
<1>1. ~At(x, "idle") /\ exec[x].pc = "deferring"
  BY AtStage DEF Types, Stages
<1>2. p \in Operations /\ Proper(p) /\ On(x, p) /\ Stands(exec[x])
  BY <1>1, Caller
<1>3. PICK e \in Operations : EntryFor(p) = e /\ J!Exists(e)
  BY <1>2, RowFields DEF Types
<1>4. Mutation(e) = p /\ RowStep(p, "queued") /\ entries' = entries
  BY <1>2, <1>3, DeferEffect DEF Types
<1>5. EntryStep(e, entries[e].state, p, entries[e].submission)
  BY <1>3, <1>4 DEF EntryStep, Mutation, J!Exists, J!NoEntry
<1>6. Steady(e) /\ RowsKept
  BY <1>2, <1>4, RestSteady, DeferJournaled DEF Types, Journaled, Steady, VersionsKept
<1>7. Open(p)
  BY <1>1, <1>2 DEF Open, Holds, Holding, Stands, After, Unwritten
<1>8. Calling(p)
  <2>1. ExecStep(x, v)
    BY Stepped
  <2>2. CASE v = Unprepared(exec[x])
    <3>1. exec[x] \in Workers
      BY <1>1, AtWork DEF Types
    <3>2. v.op = p /\ v.pc # "sent" /\ v.revision = exec[x].revision /\ v.sub = exec[x].sub
      BY <2>2, <3>1, UnpreparedFields DEF Op
    <3>. QED
      BY <1>2, <2>1, <3>2 DEF Calling
  <2>. QED
    BY <1>2, <2>1, <2>2 DEF Calling
<1>. QED
  BY <1>2, <1>3, <1>4, <1>5, <1>6, <1>7, <1>8, KeptHolds

LEMMA UncertainHolds ==
    ASSUME Types, Ledger, Copies, Holdings, NEW x \in Executors, ~At(x, "idle"),
           NEW p, p = Op(x), exec[x].prepared, J!MarkUncertain(p), Stop(x),
           UNCHANGED <<wire, codex, seen>>
    PROVE  Holdings'
<1>1. p \in Operations /\ Proper(p) /\ On(x, p) /\ Right(p)
  BY Caller
<1>2. PICK e \in Operations : EntryFor(p) = e /\ J!Exists(e)
  BY <1>1, RowFields DEF Types
<1>3. /\ Mutation(e) = p /\ RowStep(p, "uncertain")
      /\ EntryStep(e, Spared(e, "uncertain"), p, entries[e].submission)
  BY <1>1, <1>2, MarkUncertainEffect DEF Types
<1>4. Steady(e) /\ RowsKept
  BY <1>1, <1>2, OwnerSteady, MarkJournaled DEF Types, Journaled
<1>5. ExecStep(x, Idle) /\ Idle.pc = "idle"
  BY Stepped DEF Stop, Idle
<1>6. ~Open(p)'
  <2>1. ~Waiting(p)' /\ Prepared(x, p)
    BY <1>1, <1>3 DEF Waiting, RowStep, Prepared
  <2>. QED
    BY <1>1, <1>5, <2>1, Closes
<1>7. Calling(p)
  BY <1>1, <1>5 DEF Calling
<1>8. Spared(e, "uncertain") = entries[e].state
      \/ Spared(e, "uncertain") \notin {"queued", "dispatching"}
  BY DEF Spared
<1>. QED
  BY <1>1, <1>2, <1>3, <1>4, <1>6, <1>7, <1>8, KeptHolds

(* A withdrawal that is recorded, before its payload is steered.           *)
LEMMA WithdrawnHolds ==
    ASSUME Types, Ledger, Copies, Holdings, NEW x \in Executors, At(x, "sent"),
           NEW p, p = Op(x), IsWithdrawal(exec[x].reply), J!MarkWithdrawn(p),
           Move(x, "steering") \/ Throw(x, "uncertain"), UNCHANGED <<wire, codex, seen>>
    PROVE  Holdings'
<1>1. ~At(x, "idle") /\ exec[x].pc = "sent"
  BY AtStage DEF Types, Stages
<1>2. p \in Operations /\ Proper(p) /\ On(x, p)
  BY <1>1, Caller
<1>3. PICK e \in Operations : EntryFor(p) = e /\ J!Exists(e)
  BY <1>2, RowFields DEF Types
<1>4. /\ ops[p].action = "send-now" /\ Mutation(e) = p /\ RowStep(p, "delivering")
      /\ EntryStep(e, Spared(e, "withdrawn"), p, entries[e].submission)
  BY <1>2, <1>3, MarkWithdrawnEffect DEF Types
<1>5. Steady(e) /\ RowsKept
  BY <1>2, <1>3, OwnerSteady, MarkJournaled DEF Types, Journaled
<1>6. Unsent(p)
  BY DEF Holdings, Exclusive, IsWithdrawal
<1>7. Calling(p)
  <2>1. PICK v : /\ ExecStep(x, v)
                 /\ \/ v = Idle
                    \/ /\ v.op = p /\ v.revision = exec[x].revision /\ v.sub = exec[x].sub
                       /\ v.pc \in {"steering", "caught"}
    BY <1>1, StaysFacts DEF Stages
  <2>. QED
    BY <1>2, <2>1 DEF Calling
<1>8. Spared(e, "withdrawn") # "queued" /\ Spared(e, "withdrawn") # "dispatching"
  BY DEF Spared
<1>. QED
  BY <1>2, <1>3, <1>4, <1>5, <1>6, <1>7, <1>8, KeptHolds

(* An answer that is acknowledged says what Codex has.                     *)
LEMMA AcknowledgeHolds ==
    ASSUME Types, Ledger, Copies, Holdings, NEW x \in Executors, At(x, "sent"),
           NEW p, p = Op(x), exec[x].reply # None, exec[x].reply.kind # "refused",
           Acknowledge(x, exec[x].reply), Acknowledgeable(x, exec[x].reply),
           Stop(x) \/ Move(x, "removing") \/ Throw(x, "uncertain"),
           UNCHANGED <<wire, codex, seen>>
    PROVE  Holdings'
<1>1. ~At(x, "idle") /\ exec[x].pc = "sent"
  BY AtStage DEF Types, Stages
<1>2. p \in Operations /\ Proper(p) /\ On(x, p) /\ Right(p) /\ exec[x] \in Workers
      /\ Stands(exec[x])
  BY <1>1, Caller
<1>3. PICK e \in Operations : EntryFor(p) = e /\ J!Exists(e)
  BY <1>2, RowFields DEF Types
<1>4. PICK v : /\ ExecStep(x, v)
               /\ \/ v = Idle
                  \/ /\ v.op = p /\ v.revision = exec[x].revision /\ v.sub = exec[x].sub
                     /\ v.pc = "removing" \/ (v.pc = "caught" /\ v.ends = "uncertain")
  BY <1>1, StaysFacts DEF Stages
<1>5. Calling(p)
  BY <1>2, <1>4 DEF Calling
<1>6. Prepared(x, p)
  BY <1>1, <1>2 DEF Stands, After, Prepared
<1>7. v.pc # "idle" => ~Holding(v)
  BY <1>4 DEF Idle, Holding, Unwritten
<1>8. Unsent(p) /\ (exec[x].reply.kind = "turn" => InTranscript(e) # {})
  BY <1>3 DEF Holdings, Exclusive
<1>9. PICK reply \in Replies : reply = exec[x].reply
  BY <1>2 DEF Workers
<1>10. ASSUME Steady(e), RowsKept, NEW status, RowStep(p, status), NEW state, NEW sub,
              EntryStep(e, state, None, sub), Mutation(e) = p,
              state = "queued" => \/ InTranscript(e) # {}
                                  \/ \E i \in InQueue(e) : /\ i.revision = entries[e].revision
                                                           /\ i.sub = sub,
              state = "dispatching" => InTranscript(e) # {}
       PROVE  Holdings'
  <2>1. ~Waiting(p)'
    BY <1>2, <1>3, <1>10, Constants DEF Waiting, EntryFor, Mutation, RowStep, EntryStep
  <2>2. ~Open(p)'
    BY <1>2, <1>4, <1>6, <1>7, <2>1, Closes
  <2>3. RevisionsKept /\ VersionsKept(e) /\ entries'[e].revision = entries[e].revision
    BY <1>10 DEF Steady
  <2>. QED
    BY <1>2, <1>3, <1>5, <1>8, <1>10, <2>2, <2>3, SettledHolds
<1>11. CASE reply.kind = "queued"
  <2>1. PICK s \in Submissions : s = reply.sub
    BY <1>11, ReplyTypes
  <2>2. J!AcknowledgeQueued(p, s)
    BY <1>9, <1>11, <2>1 DEF Acknowledge
  <2>3. /\ Mutation(e) = p /\ RowStep(p, J!AckStatus(p))
        /\ EntryStep(e, Spared(e, "queued"), None, s)
    BY <1>2, <1>3, <2>2, QueuedEffect DEF Types
  <2>4. Steady(e) /\ RowsKept
    BY <1>2, <1>3, <2>2, OwnerSteady, AcknowledgeJournaled DEF Types, Journaled
  <2>5. Lands(e, s)
    BY <1>1, <1>2, <1>3, <1>9, <1>11, <2>1, <2>3 DEF Holdings, Sound, Answers, At
  <2>6. InTranscript(e) # {} \/ \E i \in InQueue(e) : i.revision = entries[e].revision /\ i.sub = s
    BY <2>5 DEF Lands, Landed, Revisions
  <2>7. Spared(e, "queued") # "dispatching"
    BY DEF Spared
  <2>. QED
    BY <1>10, <2>3, <2>4, <2>6, <2>7
<1>12. CASE reply.kind = "turn"
  <2>1. PICK turn \in Turns : turn = reply.turn
    BY <1>12, ReplyTypes
  <2>2. J!AcknowledgeDispatched(p, turn)
    BY <1>9, <1>12, <2>1 DEF Acknowledge
  <2>3. /\ Mutation(e) = p /\ RowStep(p, J!AckStatus(p))
        /\ EntryStep(e, Spared(e, "dispatching"), None, entries[e].submission)
    BY <1>2, <1>3, <2>2, DispatchedEffect DEF Types
  <2>4. Steady(e) /\ RowsKept
    BY <1>2, <1>3, <2>2, OwnerSteady, AcknowledgeJournaled DEF Types, Journaled
  <2>5. InTranscript(e) # {}
    BY <1>8, <1>9, <1>12
  <2>. QED
    BY <1>10, <2>3, <2>4, <2>5
<1>13. CASE reply.kind = "deleted"
  <2>1. PICK deleted \in BOOLEAN : deleted = reply.deleted
    BY <1>13, ReplyTypes
  <2>2. J!AcknowledgeDeleted(p, deleted)
    BY <1>9, <1>13, <2>1 DEF Acknowledge
  <2>3. /\ Mutation(e) = p /\ RowStep(p, J!AckStatus(p))
        /\ EntryStep(e, Spared(e, DeletedState(deleted)), None, entries[e].submission)
    BY <1>2, <1>3, <2>2, DeletedEffect DEF Types
  <2>4. Steady(e) /\ RowsKept
    BY <1>2, <1>3, <2>2, OwnerSteady, AcknowledgeJournaled DEF Types, Journaled
  <2>5. Spared(e, DeletedState(deleted)) \notin {"queued", "dispatching"}
    BY DEF Spared, DeletedState
  <2>. QED
    BY <1>10, <2>3, <2>4, <2>5
<1>. QED
  BY <1>9, <1>11, <1>12, <1>13, ReplyTypes

(* Removing writes the row of the entry's add only.                        *)
LEMMA RemoveHolds ==
    ASSUME Types, Ledger, Copies, Holdings, NEW e \in Operations, J!Remove(e),
           UNCHANGED exec \/ \E x \in Executors : Stop(x),
           UNCHANGED <<wire, codex, seen>>
    PROVE  Holdings'
<1>1. /\ entries[e].state = "removed" /\ Mutation(e) = None /\ J!Exists(e)
      /\ RowStep(e, "failed") /\ EntryFor(e) = e /\ entries' = entries /\ Proper(e)
  BY RemoveEffect DEF Types, RowStep
<1>2. RowsKept /\ RevisionsKept
  BY RestSteady, RemoveJournaled DEF Types, Journaled
<1>3. \A f : Travels(f)
  BY PlacesStay, PlacesTravel
<1>4. \A x \in Executors : exec'[x] = exec[x] \/ exec'[x] = Idle
  <2>1. ASSUME NEW x \in Executors, Stop(x), NEW y \in Executors
        PROVE  exec'[y] = exec[y] \/ exec'[y] = Idle
    BY <2>1, Stepped DEF Stop, ExecStep
  <2>. QED
    BY <2>1
<1>5. \A q : SameAnswers(q) /\ SameSights(q)
  BY <1>4 DEF SameAnswers, SameSights, Idle
<1>6. ASSUME NEW q \in Operations, Open(q)'
      PROVE  Open(q)
  <2>1. CASE Waiting(q)'
    <3>1. q # e
      BY <1>1, <2>1 DEF Waiting, RowStep
    <3>. QED
      BY <1>1, <2>1, <3>1 DEF Waiting, Open, RowStep, Proper, EntryFor, Mutation
  <2>2. CASE \E x \in Executors : On(x, q)' /\ Holds(x)'
    BY <1>4, <2>2 DEF Open, On, Holds, At, Op, Idle
  <2>. QED
    BY <1>6, <2>1, <2>2 DEF Open
<1>7. UNCHANGED wire /\ \A q \in Operations : Proper(q)' => Proper(q)
  BY <1>1 DEF RowStep, Proper
<1>. QED
  BY <1>1, <1>2, <1>3, <1>5, <1>6, <1>7, RestHolds

-----------------------------------------------------------------------------
(* The write                                                               *)

(* A request carries what the entry says, for its caller knew it.          *)
LEMMA SendHolds ==
    ASSUME Types, Ledger, Copies, Holdings, NEW x \in Executors, NEW method \in Methods,
           At(x, "prepared") \/ At(x, "steering"), NEW p, p = Op(x),
           Send(x, method), UNCHANGED <<journal, codex, seen>>
    PROVE  Holdings'
<1>1. /\ ~At(x, "idle") /\ exec[x].pc \in {"prepared", "steering"}
      /\ exec[x].revision \in 1..MaxRevision
  BY AtStage DEF Types, Stages
<1>2. /\ p \in Operations /\ Proper(p) /\ On(x, p) /\ Right(p)
      /\ exec[x] \in Workers /\ Stands(exec[x]) /\ Standing
  BY <1>1, Caller
<1>3. PICK e \in Operations : EntryFor(p) = e /\ J!Exists(e)
  BY <1>2, RowFields DEF Types
<1>4. Prepared(x, p) /\ Holds(x) /\ Open(p)
  BY <1>1, <1>2 DEF Stands, After, Prepared, Holds, Holding, Unwritten, Open
<1>5. Mutation(e) = p /\ Unsent(p)
  BY <1>2, <1>3, <1>4 DEF Holdings, Exclusive
<1>6. Sound(e) /\ Backs(e) /\ Bound(e, p)
  BY <1>2, <1>3, <1>5 DEF Holdings, Sound
<1>7. PICK v : /\ ExecStep(x, v) /\ v.pc = "sent" /\ v.reply = None
               /\ v.op = p /\ v.revision = exec[x].revision /\ v.sub = exec[x].sub
  <2>. DEFINE v == Asking(exec[x], method)
  <2>1. /\ v.pc = "sent" /\ v.reply = None
        /\ v.op = p /\ v.revision = exec[x].revision /\ v.sub = exec[x].sub
    BY <1>2, AskingFields DEF Op
  <2>2. exec' = [exec EXCEPT ![x] = v]
    BY DEF Send, Asking
  <2>. HIDE DEF v
  <2>. QED
    BY <2>1, <2>2, Stepped
<1>8. PICK r : wire' = wire \cup {r} /\ r.op = p /\ Known(e, r)
  <2>. DEFINE r == Request(x, method)
  <2>1. wire' = wire \cup {r}
    BY DEF Send, Request
  <2>2. r.op = p /\ r.revision = exec[x].revision /\ r.sub = exec[x].sub
    BY DEF Request
  <2>. HIDE DEF r
  <2>3. Known(e, exec[x])
    BY <1>1, <1>2, <1>6, Constants DEF Bound
  <2>. QED
    BY <2>1, <2>2, <2>3 DEF Known
<1>9. /\ ops' = ops /\ entries' = entries /\ RowsKept /\ RevisionsKept
      /\ VersionsKept(e) /\ J!Exists(e)'
  BY <1>3 DEF journal, RowsKept, Proper, RevisionsKept, VersionsKept, J!Exists, J!NoEntry
<1>10. \A f : InQueue(f)' = InQueue(f) /\ InTranscript(f)' = InTranscript(f) /\ Travels(f)
  <2>1. ASSUME NEW f
        PROVE  InQueue(f)' = InQueue(f) /\ InTranscript(f)' = InTranscript(f)
    BY DEF InQueue, InTranscript, codex
  <2>. QED
    BY <2>1, PlacesTravel
<1>11. \A q : SameAnswers(q) /\ SameSights(q)
  BY <1>2, <1>7 DEF SameAnswers, SameSights, ExecStep, Recalls
<1>12. ASSUME NEW q \in Operations, Open(q)'
       PROVE  Open(q)
  <2>1. CASE Waiting(q)'
    BY <1>9, <2>1 DEF Waiting, Proper, Open, EntryFor, Mutation
  <2>2. CASE \E y \in Executors : On(y, q)' /\ Holds(y)'
    <3>1. PICK y \in Executors : On(y, q)' /\ Holds(y)'
      BY <2>2
    <3>2. y # x
      BY <1>7, <3>1 DEF ExecStep, Holds, Holding, Unwritten, IsRefusal
    <3>3. exec'[y] = exec[y]
      BY <1>7, <3>2 DEF ExecStep
    <3>. QED
      BY <3>1, <3>3 DEF Open, On, Holds, At, Op
  <2>. QED
    BY <1>12, <2>1, <2>2 DEF Open
<1>13. ~Open(p)'
  <2>1. ~Waiting(p)'
    BY <1>2, <1>4, <1>9 DEF Right, Owned, Waiting, Proper, EntryFor, Mutation
  <2>2. ~Holding(v)
    BY <1>7 DEF Holding, Unwritten, IsRefusal
  <2>. QED
    BY <1>2, <1>4, <1>7, <2>1, <2>2, Closes
<1>14. \A q : q # p => SameWire(q) /\ (Unsent(q)' <=> Unsent(q))
  BY <1>8 DEF SameWire, Unsent
<1>15. ASSUME NEW f \in Operations
       PROVE  Sound(f)' /\ Backs(f)'
  <2>1. CASE f = e
    <3>1. Backs(e)'
      BY <1>3, <1>6, <1>9, <1>10, BacksStays DEF Mutation
    <3>2. \A s \in wire' : s.op = p => s \in wire \/ Known(e, s)
      BY <1>8
    <3>3. Sound(e)'
      BY <1>2, <1>3, <1>4, <1>5, <1>6, <1>9, <1>10, <1>11, <3>2, SoundStays
         DEF Mutation, Undone
    <3>. QED
      BY <2>1, <3>1, <3>3
  <2>2. CASE f # e
    <3>1. ASSUME NEW q \in Operations, J!Exists(f), Mutation(f) = q
          PROVE  /\ SameAnswers(q) /\ SameWire(q) /\ SameSights(q)
                 /\ Undone(q)' => Undone(q)
      <4>1. q # p
        BY <1>3, <2>2, <3>1, EntryFields, Constants DEF Types
      <4>. QED
        BY <1>11, <1>12, <1>14, <4>1 DEF Undone
    <3>. QED
      BY <1>9, <1>10, <2>2, <3>1, EntryLeft DEF Holdings
  <2>. QED
    BY <2>1, <2>2
<1>16. Exclusive'
  <2>1. ASSUME NEW s \in wire'
        PROVE  /\ (Mutation(EntryFor(s.op)) = s.op)'
               /\ \A t \in wire' : t.op = s.op => s = t
    <3>1. CASE s.op = p
      BY <1>3, <1>5, <1>8, <1>9, <3>1 DEF Unsent, Mutation, EntryFor
    <3>2. CASE s.op # p
      BY <1>8, <1>9, <2>1, <3>2 DEF Holdings, Exclusive, Mutation, EntryFor
    <3>. QED
      BY <3>1, <3>2
  <2>2. \A q \in Operations : (Proper(q) /\ Open(q) => Mutation(EntryFor(q)) = q /\ Unsent(q))'
    BY <1>9, <1>12, <1>13, <1>14 DEF Holdings, Exclusive, Mutation, EntryFor, Proper
  <2>3. ASSUME NEW y \in Executors, At(y, "sent")', exec'[y].reply # None
        PROVE  /\ Unsent(Op(y))'
               /\ exec'[y].reply.kind = "turn" => (InTranscript(EntryFor(Op(y))) # {})'
    <3>1. y # x
      BY <1>7, <2>3 DEF ExecStep
    <3>2. exec'[y] = exec[y] /\ At(y, "sent")
      BY <1>7, <2>3, <3>1 DEF ExecStep, At
    <3>3. ~At(y, "idle") /\ Stands(exec[y])
      BY <1>2, <3>2, AtStage DEF Types, Stages, Standing
    <3>4. Op(y) # p
      BY <1>2, <1>4, <3>1, <3>2, <3>3 DEF Right, Owned, Prepared, On, Stands, After, At
    <3>5. Unsent(Op(y)) /\ (exec[y].reply.kind = "turn" => InTranscript(EntryFor(Op(y))) # {})
      BY <2>3, <3>2 DEF Holdings, Exclusive
    <3>. QED
      BY <1>9, <1>14, <3>2, <3>4, <3>5 DEF Op, Unsent, EntryFor, InTranscript, codex
  <2>. QED
    BY <2>1, <2>2, <2>3 DEF Exclusive
<1>. QED
  BY <1>15, <1>16 DEF Holdings

-----------------------------------------------------------------------------
(* Codex serves a request                                                  *)

LEMMA RevisionKnown ==
    ASSUME JournalTypes, NEW e \in Operations, J!Exists(e)
    PROVE  entries[e].revision \in DOMAIN entries[e].versions
<1>1. entries[e] \in J!Entry /\ entries[e].revision \in 1..MaxRevision
  BY EntryFields
<1>2. Len(entries[e].versions) \in entries[e].revision..MaxRevision
  BY DEF JournalTypes, JP!JournalInd, JP!TypeOK, JP!Exists, J!Exists, JP!NoEntry, J!NoEntry
<1>3. DOMAIN entries[e].versions = 1..Len(entries[e].versions)
  BY <1>1 DEF J!Entry
<1>. QED
  BY <1>1, <1>2, <1>3, Constants

(* What the answer says of the message is so.                              *)
LEMMA ServeTells ==
    ASSUME Types, Aimed, Ledger, NEW r \in wire, Serve(r), NEW e \in Operations, r.client = e
    PROVE  \E reply \in Replies :
              /\ Reached(r, reply)
              /\ reply.kind = "refused" => UNCHANGED codex
              /\ reply.kind = "queued" =>
                    \E i \in InQueue(e)' : i.revision = r.revision /\ i.sub = reply.sub
              /\ reply.kind = "turn" => InTranscript(e)' # {}
<1>1. UNCHANGED journal
  BY DEF Serve
<1>2. \A reply \in Replies : Answer(r, reply) => Reached(r, reply)
  BY <1>1, AnswerTyped
<1>3. CASE ServeAdd(r)
  <2>. DEFINE reply == [kind |-> "queued", sub |-> issued + 1]
              i == [client |-> r.client, revision |-> r.revision, sub |-> issued + 1]
  <2>1. issued + 1 \in Submissions
    BY <1>3, Constants DEF ServeAdd, Types, CodexTypes, Submissions
  <2>2. reply \in Replies /\ reply.kind = "queued" /\ Answer(r, reply)
    BY <1>3, <2>1, ReplyTypes DEF ServeAdd
  <2>3. i \in queue' /\ i.client = e /\ i.revision = r.revision /\ i.sub = reply.sub
    BY <1>3 DEF ServeAdd
  <2>. HIDE DEF reply, i
  <2>4. i \in InQueue(e)'
    BY <2>3 DEF InQueue
  <2>. QED
    BY <1>2, <2>2, <2>3, <2>4
<1>4. CASE ServeUpdate(r)
  <2>. DEFINE reply == [kind |-> "queued", sub |-> r.sub]
  <2>1. r.sub \in Submissions
    BY <1>4 DEF ServeUpdate, Types, CodexTypes, Items
  <2>2. reply \in Replies /\ reply.kind = "queued" /\ Answer(r, reply) /\ reply.sub = r.sub
    BY <1>4, <2>1, ReplyTypes DEF ServeUpdate
  <2>. HIDE DEF reply
  <2>3. PICK item \in queue :
           /\ item.sub = r.sub
           /\ queue' = (queue \ {item}) \cup {[item EXCEPT !.revision = r.revision]}
    BY <1>4 DEF ServeUpdate
  <2>4. item.client = e /\ item \in Items
    BY <2>3, ServeClaims DEF Types, CodexTypes
  <2>. DEFINE i == [item EXCEPT !.revision = r.revision]
  <2>5. i.client = e /\ i.revision = r.revision /\ i.sub = r.sub
    BY <2>3, <2>4 DEF Items
  <2>6. i \in queue'
    BY <2>3
  <2>. HIDE DEF i
  <2>7. i \in InQueue(e)'
    BY <2>5, <2>6 DEF InQueue
  <2>. QED
    BY <1>2, <2>2, <2>5, <2>7
<1>5. CASE ServeDelete(r)
  <2>. DEFINE reply == [kind |-> "deleted", deleted |-> queue' # queue]
  <2>1. reply \in Replies /\ reply.kind = "deleted" /\ Answer(r, reply)
    BY <1>5, ReplyTypes DEF ServeDelete
  <2>. HIDE DEF reply
  <2>. QED
    BY <1>2, <2>1
<1>6. CASE ServeQueueStart(r) \/ ServeTurnStart(r) \/ ServeSteer(r)
  <2>. DEFINE reply == [kind |-> "turn", turn |-> active']
  <2>1. active' \in Turns
    <3>1. ServeQueueStart(r) \/ ServeTurnStart(r) => active' \in Turns
      BY StartTurnTyped DEF ServeQueueStart, ServeTurnStart, Types
    <3>2. ServeSteer(r) => active' \in Turns
      BY DEF ServeSteer, Aimed, Types, WireTypes, Requests
    <3>. QED
      BY <1>6, <3>1, <3>2
  <2>2. Answer(r, reply)
    <3>1. ServeSteer(r) => active' = active /\ Answer(r, [kind |-> "turn", turn |-> active])
      BY DEF ServeSteer
    <3>. QED
      BY <1>6, <3>1 DEF ServeQueueStart, ServeTurnStart
  <2>3. reply \in Replies /\ reply.kind = "turn"
    BY <2>1, ReplyTypes
  <2>. HIDE DEF reply
  <2>4. PICK w, t : w.client = e /\ Delivered(w, t) \in transcript'
    <3>1. CASE ServeQueueStart(r)
      BY <3>1, ServeClaims DEF ServeQueueStart
    <3>2. CASE ServeTurnStart(r) \/ ServeSteer(r)
      BY <3>2 DEF ServeTurnStart, ServeSteer
    <3>. QED
      BY <1>6, <3>1, <3>2
  <2>5. Delivered(w, t) \in InTranscript(e)'
    BY <2>4 DEF InTranscript, Delivered
  <2>. QED
    BY <1>2, <2>2, <2>3, <2>5
<1>7. CASE RefuseRequest(r)
  <2>. DEFINE reply == [kind |-> "refused"]
  <2>1. reply \in Replies /\ reply.kind = "refused" /\ Answer(r, reply)
    BY <1>7, ReplyTypes DEF RefuseRequest
  <2>. HIDE DEF reply
  <2>. QED
    BY <1>2, <1>7, <2>1 DEF RefuseRequest
<1>. QED
  BY <1>3, <1>4, <1>5, <1>6, <1>7 DEF Serve

(* Codex gets no revision of a message but that of the request.            *)
LEMMA ServeRevisions ==
    ASSUME Types, Ledger, NEW r \in wire, Serve(r), NEW e \in Operations, r.client = e
    PROVE  Revisions(e)' \subseteq Revisions(e) \cup {r.revision}
<1>1. CASE ServeAdd(r)
  <2>. DEFINE i == [client |-> r.client, revision |-> r.revision, sub |-> issued + 1]
  <2>1. queue' = queue \cup {i} /\ transcript' = transcript /\ i.revision = r.revision
    BY <1>1 DEF ServeAdd
  <2>. HIDE DEF i
  <2>. QED
    BY <2>1 DEF Revisions, InQueue, InTranscript
<1>2. CASE ServeUpdate(r)
  <2>1. PICK item \in queue :
           /\ item.sub = r.sub
           /\ queue' = (queue \ {item}) \cup {[item EXCEPT !.revision = r.revision]}
    BY <1>2 DEF ServeUpdate
  <2>. DEFINE i == [item EXCEPT !.revision = r.revision]
  <2>2. i.revision = r.revision
    BY <2>1 DEF Items, Types, CodexTypes
  <2>. HIDE DEF i
  <2>3. transcript' = transcript /\ queue' = (queue \ {item}) \cup {i}
    BY <1>2, <2>1 DEF ServeUpdate, i
  <2>. QED
    BY <2>2, <2>3 DEF Revisions, InQueue, InTranscript
<1>3. CASE ServeDelete(r) \/ RefuseRequest(r)
  <2>1. queue' \subseteq queue /\ transcript' = transcript
    BY <1>3 DEF ServeDelete, RefuseRequest, codex
  <2>. QED
    BY <2>1 DEF Revisions, InQueue, InTranscript
<1>4. CASE ServeQueueStart(r)
  <2>1. PICK item \in queue :
           /\ item.sub = r.sub
           /\ queue' = queue \ {item}
           /\ transcript' = transcript \cup {Delivered(item, active')}
    BY <1>4 DEF ServeQueueStart
  <2>. DEFINE d == Delivered(item, active')
  <2>2. d.revision = item.revision /\ item \in InQueue(e)
    BY <2>1, ServeClaims DEF Delivered, InQueue
  <2>3. queue' \subseteq queue /\ transcript' = transcript \cup {d}
    BY <2>1
  <2>. HIDE DEF d
  <2>. QED
    BY <2>2, <2>3 DEF Revisions, InQueue, InTranscript
<1>5. CASE ServeTurnStart(r) \/ ServeSteer(r)
  <2>1. PICK t : transcript' = transcript \cup {Delivered(r, t)}
    BY <1>5 DEF ServeTurnStart, ServeSteer
  <2>. DEFINE d == Delivered(r, t)
  <2>2. d.revision = r.revision /\ queue' = queue /\ transcript' = transcript \cup {d}
    BY <1>5, <2>1 DEF Delivered, ServeTurnStart, ServeSteer
  <2>. HIDE DEF d
  <2>. QED
    BY <2>2 DEF Revisions, InQueue, InTranscript
<1>. QED
  BY <1>1, <1>2, <1>3, <1>4, <1>5 DEF Serve

(* The request's message, when Codex has answered.                         *)
LEMMA ServedHolds ==
    ASSUME Types, Aimed, Ledger, Copies, Holdings, NEW r \in wire, Serve(r),
           NEW p \in Operations, p = r.op, NEW e \in Operations, e = r.client,
           EntryFor(p) = e, Proper(p), J!Exists(e), NEW reply \in Replies, Reached(r, reply),
           reply.kind = "refused" => UNCHANGED codex,
           reply.kind = "queued" =>
              \E i \in InQueue(e)' : i.revision = r.revision /\ i.sub = reply.sub,
           reply.kind # "refused" => ~Undone(p)'
    PROVE  Sound(e)' /\ Backs(e)'
<1>1. ops' = ops /\ entries' = entries /\ seen' = seen
  BY DEF Serve, journal
<1>2. wire' = wire \ {r}
  BY DEF Serve, ServeAdd, ServeUpdate, ServeDelete, ServeQueueStart, ServeTurnStart, ServeSteer,
         RefuseRequest, Answer
<1>3. Mutation(e) = p /\ ~Unsent(p) /\ Undone(p)
  BY DEF Holdings, Exclusive, Unsent, Undone
<1>4. /\ Bound(e, p) /\ Answers(e, p) /\ Sights(e, p) /\ Awaits(e, p) /\ Backs(e)
      /\ Known(e, r)
  BY <1>3 DEF Holdings, Sound, Bound
<1>5. Lone(e)
  BY DEF Copies, Whole
<1>6. Lone(e)' /\ (InTranscript(e) # {} => InTranscript(e)' # {})
  BY <1>5, ServeClient
<1>7. reply.kind = "queued" => Lands(e, reply.sub)'
  <2>. SUFFICES ASSUME reply.kind = "queued"
                PROVE  Lands(e, reply.sub)'
    OBVIOUS
  <2>1. PICK i \in InQueue(e)' : i.revision = r.revision /\ i.sub = reply.sub
    OBVIOUS
  <2>2. \A j \in InQueue(e)' : j = i
    BY <1>6, <2>1 DEF Lone
  <2>3. entries'[e].revision = i.revision
    BY <1>1, <1>4, <2>1 DEF Known
  <2>. QED
    BY <2>1, <2>2, <2>3 DEF Lands, Landed, Revisions
<1>8. \A x \in Executors : \/ exec'[x] = exec[x]
                           \/ /\ x = r.by /\ On(x, p) /\ At(x, "sent")
                              /\ exec'[x].reply = reply /\ exec'[x].pc = "sent"
                              /\ exec'[x].op = p /\ exec'[x].revision = exec[x].revision
                              /\ exec'[x].sub = exec[x].sub
  <2>1. CASE UNCHANGED exec
    BY <2>1
  <2>2. CASE ~UNCHANGED exec
    <3>. DEFINE y == r.by
                v == Answered(exec[y], reply)
    <3>1. y \in Executors /\ At(y, "sent") /\ exec[y].op = p /\ ExecStep(y, v)
      BY <2>2 DEF Reached
    <3>2. exec[y] \in Workers /\ exec[y].pc = "sent" /\ ~At(y, "idle")
      BY <3>1, AtStage DEF Types, Stages
    <3>3. /\ v.reply = reply /\ v.pc = "sent" /\ v.op = p /\ v.revision = exec[y].revision
          /\ v.sub = exec[y].sub
      BY <3>1, <3>2, AnsweredFields
    <3>. HIDE DEF v
    <3>. QED
      BY <3>1, <3>2, <3>3 DEF ExecStep, On, Op
  <2>. QED
    BY <2>1, <2>2
<1>9. Bound(e, p)'
  <2>1. \A x \in Executors : On(x, p)' /\ exec'[x].revision # 0 => Known(e, exec[x])'
    <3>. SUFFICES ASSUME NEW x \in Executors, On(x, p)', exec'[x].revision # 0
                  PROVE  Known(e, exec[x])'
      OBVIOUS
    <3>1. On(x, p) /\ exec'[x].revision = exec[x].revision /\ exec'[x].sub = exec[x].sub
      BY <1>8 DEF On, At, Op
    <3>. QED
      BY <1>1, <1>4, <3>1 DEF Bound, Known
  <2>2. \A s \in wire' : s.op = p => Known(e, s)'
    BY <1>1, <1>2, <1>4 DEF Bound, Known
  <2>. QED
    BY <2>1, <2>2 DEF Bound
<1>10. Answers(e, p)'
  <2>. SUFFICES ASSUME NEW x \in Executors, On(x, p)', exec'[x].pc = "sent",
                       exec'[x].reply # None, exec'[x].reply.kind = "queued"
                PROVE  Lands(e, exec[x].reply.sub)'
    BY DEF Answers, At
  <2>1. exec'[x] # exec[x]
    <3>. SUFFICES ASSUME exec'[x] = exec[x]
                  PROVE  FALSE
      OBVIOUS
    <3>1. At(x, "sent") /\ exec[x].reply # None /\ Op(x) = p
      BY DEF At, On, Op
    <3>. QED
      BY <1>3, <3>1 DEF Holdings, Exclusive
  <2>2. exec'[x].reply = reply
    BY <1>8, <2>1
  <2>. QED
    BY <1>7, <2>2 DEF Lands
<1>11. Sights(e, p)'
  <2>. SUFFICES ASSUME ops[p].action \in {"add", "update"}, NEW o \in seen, o.op = p,
                       o.revision = entries[e].revision
                PROVE  FALSE
    BY <1>1 DEF Sights
  <2>1. Landed(e)
    BY <1>4 DEF Sights, Lands
  <2>2. ops[p].action = "add"
    BY <1>3, <1>4, <2>1 DEF Awaits
  <2>3. Arrived(p)
    BY <2>1, <2>2, RowFields DEF Types, Landed, Revisions, Arrived
  <2>. QED
    BY <1>3, <2>2, <2>3, ArrivedIsWritten
<1>12. Awaits(e, p)'
  <2>1. CASE reply.kind # "refused"
    BY <2>1 DEF Awaits
  <2>2. CASE reply.kind = "refused"
    <3>1. InQueue(e)' = InQueue(e) /\ InTranscript(e)' = InTranscript(e)
      BY <2>2 DEF InQueue, InTranscript, codex
    <3>2. Landed(e)' = Landed(e) /\ Due(e, p)' = Due(e, p)
      BY <1>1, <3>1 DEF Landed, Revisions, Due
    <3>3. HeldAs(e, Due(e, p)) => HeldAs(e, Due(e, p))'
      BY <1>1, <3>1, <3>2 DEF HeldAs
    <3>. QED
      BY <1>1, <1>3, <1>4, <3>2, <3>3 DEF Awaits
  <2>. QED
    BY <2>1, <2>2
<1>13. Sound(e)'
  BY <1>1, <1>3, <1>9, <1>10, <1>11, <1>12 DEF Sound, Mutation
<1>14. Backs(e)'
  <2>1. Revisions(e)' \subseteq Revisions(e) \cup {entries[e].revision}
    BY <1>4, ServeRevisions DEF Known
  <2>2. entries[e].revision \in DOMAIN entries[e].versions
    BY RevisionKnown DEF Types
  <2>3. \A n \in Revisions(e)' : J!Exists(e)' /\ n \in DOMAIN entries'[e].versions
    BY <1>1, <1>4, <2>1, <2>2 DEF Backs, J!Exists, J!NoEntry
  <2>4. entries'[e].mutation # None
    BY <1>1, <1>3, Constants DEF Mutation
  <2>. QED
    BY <1>1, <1>4, <1>6, <2>3, <2>4 DEF Backs, Mutation
<1>. QED
  BY <1>13, <1>14

LEMMA ServeHolds ==
    ASSUME Types, Aimed, Ledger, Copies, Holdings, NEW r \in wire, Serve(r)
    PROVE  Holdings'
<1>1. ops' = ops /\ entries' = entries /\ seen' = seen
  BY DEF Serve, journal
<1>2. wire' = wire \ {r}
  BY DEF Serve, ServeAdd, ServeUpdate, ServeDelete, ServeQueueStart, ServeTurnStart, ServeSteer,
         RefuseRequest, Answer
<1>3. PICK p \in Operations : p = r.op /\ Proper(p) /\ r.client = EntryFor(p)
  BY DEF Types, WireTypes, Requests, Ledger, Wired
<1>4. PICK e \in Operations : e = r.client /\ EntryFor(p) = e /\ J!Exists(e)
  BY <1>3, RowFields DEF Types
<1>5. PICK reply \in Replies :
         /\ Reached(r, reply)
         /\ reply.kind = "refused" => UNCHANGED codex
         /\ reply.kind = "queued" =>
               \E i \in InQueue(e)' : i.revision = r.revision /\ i.sub = reply.sub
         /\ reply.kind = "turn" => InTranscript(e)' # {}
  BY <1>4, ServeTells
<1>6. /\ Mutation(e) = p /\ ~Unsent(p) /\ ~Open(p)
      /\ \A s \in wire : s.op = p => s = r
  BY <1>3, <1>4 DEF Holdings, Exclusive, Unsent
<1>7. Unsent(p)' /\ \A q : q # p => SameWire(q) /\ (Unsent(q)' <=> Unsent(q))
  BY <1>2, <1>3, <1>6 DEF Unsent, SameWire
<1>8. \A x \in Executors : \/ exec'[x] = exec[x]
                           \/ On(x, p)' /\ exec'[x].reply = reply /\ exec'[x].pc = "sent"
  <2>1. CASE UNCHANGED exec
    BY <2>1
  <2>2. CASE ~UNCHANGED exec
    <3>. DEFINE y == r.by
                v == Answered(exec[y], reply)
    <3>1. y \in Executors /\ At(y, "sent") /\ exec[y].op = p /\ ExecStep(y, v)
      BY <1>3, <1>5, <2>2 DEF Reached
    <3>2. exec[y] \in Workers /\ exec[y].pc = "sent"
      BY <3>1, AtStage DEF Types, Stages
    <3>3. v.reply = reply /\ v.pc = "sent" /\ v.op = p
      BY <3>1, <3>2, AnsweredFields
    <3>. HIDE DEF v
    <3>. QED
      BY <3>1, <3>3 DEF ExecStep, On, At, Op
  <2>. QED
    BY <2>1, <2>2
<1>9. \A q : q # p => SameAnswers(q)
  BY <1>8 DEF SameAnswers, On, At, Op
<1>10. ASSUME NEW q \in Operations, Open(q)', q # p \/ reply.kind # "refused"
       PROVE  Open(q)
  <2>1. CASE Waiting(q)'
    BY <1>1, <2>1 DEF Waiting, Proper, Open, EntryFor, Mutation
  <2>2. CASE \E x \in Executors : On(x, q)' /\ Holds(x)'
    <3>1. PICK x \in Executors : On(x, q)' /\ Holds(x)'
      BY <2>2
    <3>2. CASE exec'[x] = exec[x]
      BY <3>1, <3>2 DEF Open, On, Holds, At, Op
    <3>3. CASE exec'[x] # exec[x]
      <4>1. On(x, p)' /\ exec'[x].reply = reply
        BY <1>8, <3>3
      <4>2. q = p /\ reply.kind # "refused"
        BY <1>10, <3>1, <4>1 DEF On
      <4>3. exec'[x].pc = "sent"
        BY <1>8, <3>3
      <4>. QED
        BY <3>1, <4>1, <4>2, <4>3 DEF Holds, Holding, Unwritten, IsRefusal
    <3>. QED
      BY <3>2, <3>3
  <2>. QED
    BY <1>10, <2>1, <2>2 DEF Open
<1>11. reply.kind # "refused" => ~Undone(p)'
  BY <1>6, <1>7, <1>10 DEF Undone
<1>12. \A f \in Operations : f # e => Travels(f) /\ InTranscript(f)' = InTranscript(f)
  BY <1>4, ServeElsewhere, PlacesTravel
<1>13. \A f \in Operations : InTranscript(f) # {} => InTranscript(f)' # {}
  <2>1. Lone(e)
    BY DEF Copies, Whole
  <2>. QED
    BY <1>4, <1>12, <2>1, ServeClient
<1>14. RowsKept /\ RevisionsKept
  BY <1>1 DEF RowsKept, RevisionsKept, Proper
<1>15. ASSUME NEW f \in Operations
       PROVE  Sound(f)' /\ Backs(f)'
  <2>1. CASE f = e
    BY <1>3, <1>4, <1>5, <1>11, <2>1, ServedHolds
  <2>2. CASE f # e
    <3>1. ASSUME NEW q \in Operations, J!Exists(f), Mutation(f) = q
          PROVE  /\ SameAnswers(q) /\ SameWire(q) /\ SameSights(q)
                 /\ Undone(q)' => Undone(q)
      <4>1. q # p
        BY <1>4, <2>2, <3>1, EntryFields, Constants DEF Types
      <4>. QED
        BY <1>1, <1>7, <1>9, <1>10, <4>1 DEF Undone, SameSights
    <3>. QED
      BY <1>1, <1>12, <1>14, <2>2, <3>1, EntryLeft DEF Holdings
  <2>. QED
    BY <2>1, <2>2
<1>16. Exclusive'
  <2>1. \A s \in wire' : /\ (Mutation(EntryFor(s.op)) = s.op)'
                         /\ \A t \in wire' : t.op = s.op => s = t
    BY <1>1, <1>2 DEF Holdings, Exclusive, Mutation, EntryFor
  <2>2. \A q \in Operations : (Proper(q) /\ Open(q) => Mutation(EntryFor(q)) = q /\ Unsent(q))'
    BY <1>1, <1>4, <1>6, <1>7, <1>10 DEF Holdings, Exclusive, Mutation, EntryFor, Proper
  <2>3. ASSUME NEW y \in Executors, At(y, "sent")', exec'[y].reply # None
        PROVE  /\ Unsent(Op(y))'
               /\ exec'[y].reply.kind = "turn" => (InTranscript(EntryFor(Op(y))) # {})'
    <3>1. CASE exec'[y] = exec[y]
      <4>1. At(y, "sent")
        BY <2>3, <3>1 DEF At
      <4>2. PICK q \in Operations : q = Op(y) /\ Proper(q)
        BY <4>1, AtStage DEF Types, Stages
      <4>3. Unsent(q) /\ (exec[y].reply.kind = "turn" => InTranscript(EntryFor(q)) # {})
        BY <2>3, <3>1, <4>1, <4>2 DEF Holdings, Exclusive
      <4>4. PICK f \in Operations : EntryFor(q) = f
        BY <4>2, RowFields DEF Types
      <4>5. InTranscript(f) # {} => InTranscript(f)' # {}
        BY <1>13
      <4>6. EntryFor(q)' = f /\ Op(y)' = q
        BY <1>1, <3>1, <4>2, <4>4 DEF Op, EntryFor
      <4>. QED
        BY <1>7, <3>1, <4>3, <4>4, <4>5, <4>6 DEF InTranscript, Unsent
    <3>2. CASE exec'[y] # exec[y]
      <4>1. exec'[y].reply = reply /\ Op(y)' = p /\ EntryFor(p)' = e
        BY <1>1, <1>4, <1>8, <3>2 DEF On, EntryFor
      <4>. QED
        BY <1>5, <1>7, <4>1 DEF InTranscript, Unsent
    <3>. QED
      BY <3>1, <3>2
  <2>. QED
    BY <2>1, <2>2, <2>3 DEF Exclusive
<1>. QED
  BY <1>15, <1>16 DEF Holdings

-----------------------------------------------------------------------------
(* Codex's and the host's own steps                                        *)

LEMMA TakenTravels ==
    ASSUME NEW e, Lone(e), NEW item \in queue, item.client = e, NEW t,
           queue' = queue \ {item}, transcript' = transcript \cup {Delivered(item, t)}
    PROVE  Travels(e)
<1>. DEFINE d == Delivered(item, t)
<1>1. item \in InQueue(e)
  BY DEF InQueue
<1>2. InTranscript(e) = {} /\ InQueue(e) = {item}
  BY <1>1 DEF Lone, Arrived
<1>3. d.client = e /\ d.revision = item.revision
  BY DEF Delivered
<1>. HIDE DEF d
<1>4. InQueue(e)' = {} /\ InTranscript(e)' = {d}
  <2>1. InQueue(e)' = InQueue(e) \ {item}
    BY DEF InQueue
  <2>2. InTranscript(e)' = InTranscript(e) \cup {d}
    BY <1>3 DEF InTranscript, d
  <2>. QED
    BY <1>2, <2>1, <2>2
<1>5. Revisions(e) = {item.revision} /\ Revisions(e)' = {d.revision}
  BY <1>2, <1>4 DEF Revisions
<1>. QED
  BY <1>2, <1>3, <1>4, <1>5 DEF Travels

LEMMA MovesHold ==
    ASSUME Types, Ledger, Copies, Holdings,
           Dispatch \/ OtherTurn \/ EndTurn \/ LoseHost \/ ReplaceHost
    PROVE  Holdings'
<1>1. UNCHANGED <<journal, exec, wire, seen>> /\ ops' = ops /\ entries' = entries
  BY DEF Dispatch, OtherTurn, EndTurn, LoseHost, ReplaceHost, journal
<1>2. RowsKept /\ RevisionsKept
  BY <1>1 DEF RowsKept, RevisionsKept, Proper
<1>3. ASSUME NEW f \in Operations
      PROVE  Travels(f)
  <2>1. CASE Dispatch
    <3>1. PICK item \in queue : /\ queue' = queue \ {item}
                                /\ transcript' = transcript \cup {Delivered(item, active')}
      BY <2>1 DEF Dispatch
    <3>2. CASE item.client = f
      BY <3>1, <3>2, TakenTravels DEF Copies, Whole
    <3>3. CASE item.client # f
      <4>1. InQueue(f)' = InQueue(f) /\ InTranscript(f)' = InTranscript(f)
        BY <3>1, <3>3 DEF InQueue, InTranscript, Delivered
      <4>. QED
        BY <4>1, PlacesTravel
    <3>. QED
      BY <3>2, <3>3
  <2>2. CASE OtherTurn \/ EndTurn \/ LoseHost \/ ReplaceHost
    <3>1. InQueue(f)' = InQueue(f) /\ InTranscript(f)' = InTranscript(f)
      BY <2>2 DEF OtherTurn, EndTurn, LoseHost, ReplaceHost, InQueue, InTranscript, codex
    <3>. QED
      BY <3>1, PlacesTravel
  <2>. QED
    BY <2>1, <2>2
<1>4. \A q : SameAnswers(q) /\ SameSights(q)
  BY <1>1 DEF SameAnswers, SameSights
<1>5. \A q \in Operations : (Proper(q)' => Proper(q)) /\ (Open(q)' => Open(q))
  BY <1>1 DEF Proper, Open, Waiting, EntryFor, Mutation, On, Holds, At, Op
<1>. QED
  BY <1>1, <1>2, <1>3, <1>4, <1>5, RestHolds

-----------------------------------------------------------------------------
(* Reconciliation                                                          *)

(* A sighting is of the whole queue there is of the message.               *)
LEMMA ReadQueueHolds ==
    ASSUME Types, Ledger, Copies, Holdings, ReadQueue
    PROVE  Holdings'
<1>1. /\ UNCHANGED <<journal, exec, wire, codex>> /\ ops' = ops /\ entries' = entries
      /\ queue' = queue /\ transcript' = transcript
  BY DEF ReadQueue, journal, codex
<1>2. RowsKept /\ RevisionsKept
  BY <1>1 DEF RowsKept, RevisionsKept, Proper
<1>3. \A f : Travels(f)
  BY <1>1, PlacesStay, PlacesTravel
<1>4. \A q : SameAnswers(q)
  BY <1>1 DEF SameAnswers
<1>5. ASSUME NEW e \in Operations, NEW q \in Operations, J!Exists(e), Mutation(e) = q
      PROVE  Sights(e, q)'
  <2>. SUFFICES ASSUME NEW o \in seen', o.op = q, o.revision = entries[e].revision
                PROVE  Lands(e, o.sub)
    BY <1>1 DEF Sights, Lands, Landed, Revisions, InQueue, InTranscript
  <2>1. PICK f \in Operations :
           /\ J!Exists(f) /\ entries[f].mutation = o.op
           /\ {[sub |-> item.sub, revision |-> item.revision] :
                  item \in {i \in queue : i.client = f}}
                = {[sub |-> o.sub, revision |-> o.revision]}
    BY DEF ReadQueue
  <2>2. f = e
    <3>1. EntryFor(q) = f /\ EntryFor(q) = e
      BY <1>5, <2>1, EntryFields, Constants DEF Types, Mutation
    <3>. QED
      BY <3>1
  <2>. DEFINE seenAs(i) == [sub |-> i.sub, revision |-> i.revision]
  <2>3. {seenAs(i) : i \in InQueue(e)} = {[sub |-> o.sub, revision |-> o.revision]}
    BY <2>1, <2>2 DEF InQueue
  <2>4. \A i \in InQueue(e) : i.sub = o.sub /\ i.revision = o.revision
    <3>. SUFFICES ASSUME NEW i \in InQueue(e)
                  PROVE  i.sub = o.sub /\ i.revision = o.revision
      OBVIOUS
    <3>1. seenAs(i) = [sub |-> o.sub, revision |-> o.revision]
      BY <2>3
    <3>2. seenAs(i).sub = i.sub /\ seenAs(i).revision = i.revision
      OBVIOUS
    <3>. QED
      BY <3>1, <3>2
  <2>5. InQueue(e) # {}
    BY <2>3
  <2>. QED
    BY <2>4, <2>5 DEF Lands, Landed, Revisions
<1>6. \A q \in Operations : (Proper(q)' => Proper(q)) /\ (Open(q)' => Open(q))
  BY <1>1 DEF Proper, Open, Waiting, EntryFor, Mutation, On, Holds, At, Op
<1>. QED
  BY <1>1, <1>2, <1>3, <1>4, <1>5, <1>6, RestHolds

(* Calls that stay as they are open no operation that ceases to wait.      *)
LEMMA StaysClosed ==
    ASSUME NEW p, UNCHANGED exec, ~Open(p), ~Waiting(p)'
    PROVE  ~Open(p)'
BY DEF Open, On, Holds, At, Op

(* What is observed of a mutation is done, and what Codex queues is that.  *)
LEMMA RecordQueuedHolds ==
    ASSUME Types, Ledger, Copies, Holdings, NEW o \in seen, RecordQueued(o)
    PROVE  Holdings'
<1>1. PICK p \in Operations, s \in Submissions : p = o.op /\ s = o.sub /\ Proper(p)
  BY DEF Types, SeenTypes, Sightings, Ledger, Sighted
<1>2. UNCHANGED <<exec, wire, codex>> /\ seen' \subseteq seen
  BY DEF RecordQueued
<1>3. CASE J!ObserveQueued(p, s) /\ entries[ops[p].entry].revision = o.revision
  <2>1. PICK e \in Operations : EntryFor(p) = e /\ J!Exists(e)
    BY <1>1, RowFields DEF Types
  <2>2. /\ Mutation(e) = p /\ ops[p].action \in {"add", "update"}
        /\ RowStep(p, J!AckStatus(p))
        /\ EntryStep(e, Spared(e, "queued"), None, s)
    BY <1>3, <2>1, QueuedEffect DEF Types
  <2>3. Steady(e) /\ RowsKept
    BY <1>3, <2>1, OwnerSteady, AcknowledgeJournaled DEF Types, Journaled
  <2>4. RevisionsKept /\ VersionsKept(e) /\ entries'[e].revision = entries[e].revision
    BY <2>3 DEF Steady
  <2>5. Sights(e, p) /\ Awaits(e, p)
    BY <1>1, <2>1, <2>2 DEF Holdings, Sound
  <2>6. Lands(e, s)
    BY <1>1, <1>3, <2>1, <2>2, <2>5 DEF Sights, EntryFor
  <2>7. ~Open(p) /\ Unsent(p)
    <3>1. CASE ops[p].action = "add"
      <4>1. Arrived(p)
        BY <1>1, <2>1, <2>6, <3>1, RowFields DEF Types, Lands, Landed, Revisions, Arrived
      <4>. QED
        BY <1>1, <3>1, <4>1, ArrivedIsWritten
    <3>2. CASE ops[p].action = "update"
      BY <2>5, <2>6, <3>2 DEF Awaits, Undone, Lands
    <3>. QED
      BY <2>2, <3>1, <3>2
  <2>8. ~Waiting(p)'
    BY <2>1, <2>2, Constants DEF Waiting, EntryFor, Mutation, RowStep, EntryStep
  <2>9. Calling(p) /\ ~Open(p)'
    BY <1>2, <2>7, <2>8, StaysClosed DEF Calling
  <2>10. InTranscript(e) # {}
            \/ \E i \in InQueue(e) : i.revision = entries'[e].revision /\ i.sub = s
    BY <2>4, <2>6 DEF Lands, Landed, Revisions
  <2>11. Spared(e, "queued") # "dispatching" /\ UNCHANGED <<wire, codex>>
    BY <1>2 DEF Spared
  <2>. QED
    BY <1>1, <1>2, <2>1, <2>2, <2>3, <2>4, <2>7, <2>9, <2>10, <2>11, SettledHolds
<1>4. CASE UNCHANGED journal
  <2>1. ops' = ops /\ entries' = entries /\ RowsKept /\ RevisionsKept
    BY <1>4 DEF journal, RowsKept, RevisionsKept, Proper
  <2>2. \A f : Travels(f)
    BY <1>2, PlacesStay, PlacesTravel
  <2>3. \A q : SameAnswers(q) /\ SameSights(q)
    BY <1>2 DEF SameAnswers, SameSights
  <2>4. \A q \in Operations : (Proper(q)' => Proper(q)) /\ (Open(q)' => Open(q))
    BY <1>2, <2>1 DEF Proper, Open, Waiting, EntryFor, Mutation, On, Holds, At, Op
  <2>. QED
    BY <1>2, <2>1, <2>2, <2>3, <2>4, RestHolds
<1>. QED
  BY <1>1, <1>3, <1>4 DEF RecordQueued

LEMMA RecordRemovedHolds ==
    ASSUME Types, Ledger, Copies, Holdings, NEW e \in Operations, RecordRemoved(e)
    PROVE  Holdings'
<1>1. J!Remove(e) /\ UNCHANGED exec /\ UNCHANGED <<wire, codex, seen>>
  BY DEF RecordRemoved
<1>. QED
  BY <1>1, RemoveHolds

(* A message in the history has its add done; a control of it goes on.     *)
LEMMA RecordProofHolds ==
    ASSUME Types, Ledger, Copies, Holdings, NEW item \in transcript, RecordProof(item)
    PROVE  Holdings'
<1>1. PICK e \in Operations : e = item.client
  BY DEF Types, CodexTypes, Messaged
<1>2. PICK proof : J!Prove(e, proof) /\ proof \in J!Proof
  <2>1. [revision |-> item.revision, turn |-> item.turn, input |-> item.revision] \in J!Proof
    BY DEF Types, CodexTypes, Messaged, J!Proof
  <2>. QED
    BY <1>1, <2>1 DEF RecordProof
<1>3. UNCHANGED exec /\ UNCHANGED <<wire, codex, seen>>
  BY DEF RecordProof
<1>4. /\ J!Exists(e) /\ EntryFor(e) = e
      /\ RowStep(e, "delivered")
      /\ EntryStep(e, "delivered", IF Mutation(e) = e THEN None ELSE Mutation(e),
                   entries[e].submission)
  BY <1>2, ProveEffect DEF Types
<1>5. RowsKept /\ Steady(e)
  BY <1>2, ProveJournaled, ProveSteady DEF Types, Journaled
<1>6. Arrived(e)
  BY <1>1 DEF InTranscript, Arrived
<1>7. /\ Proper(e) /\ ops[e].action = "add" /\ ops'[e].status = "delivered"
      /\ e # None /\ entries'[e].state = "delivered" /\ J!Exists(e)'
      /\ entries'[e].submission = entries[e].submission
      /\ entries'[e].mutation = IF Mutation(e) = e THEN None ELSE Mutation(e)
  BY <1>4, RowFields, Constants DEF RowStep, EntryStep, Types
<1>8. ~Open(e) /\ Unsent(e)
  BY <1>6, <1>7, ArrivedIsWritten
<1>9. Calling(e) /\ ~Open(e)'
  <2>1. ~Waiting(e)'
    BY <1>7 DEF Waiting
  <2>. QED
    BY <1>3, <1>8, <2>1, StaysClosed DEF Calling
<1>10. RevisionsKept /\ VersionsKept(e) /\ entries'[e].revision = entries[e].revision
  BY <1>5 DEF Steady
<1>11. UNCHANGED <<wire, codex>> /\ seen' \subseteq seen
  BY <1>3
<1>12. CASE Mutation(e) = e
  <2>1. EntryStep(e, "delivered", None, entries[e].submission)
    BY <1>4, <1>12
  <2>. QED
    BY <1>4, <1>5, <1>7, <1>8, <1>9, <1>10, <1>11, <1>12, <2>1, SettledHolds
<1>13. CASE Mutation(e) # e
  <2>1. entries'[e].mutation = Mutation(e)
    BY <1>7, <1>13
  <2>2. Travels(e)
    BY <1>11, PlacesStay, PlacesTravel
  <2>3. Sound(e) /\ Backs(e)
    BY DEF Holdings
  <2>4. Backs(e)'
    BY <1>4, <1>7, <1>10, <2>1, <2>2, <2>3, BacksStays
  <2>5. ASSUME NEW q \in Operations, Mutation(e) = q
        PROVE  Sound(e)'
    <3>1. q # e /\ Proper(q) /\ EntryFor(q) = e /\ ops'[q] = ops[q]
      BY <1>4, <1>13, <2>5, EntryFields, Constants DEF Types, RowStep
    <3>2. SameAnswers(q) /\ SameSights(q)
      BY <1>3 DEF SameAnswers, SameSights
    <3>3. Undone(q)' => Undone(q)
      <4>1. Waiting(q)' => Waiting(q)
        BY <2>5, <3>1 DEF Waiting, Proper, EntryFor
      <4>. QED
        BY <1>3, <4>1 DEF Undone, Unsent, Open, On, Holds, At, Op
    <3>4. \A r \in wire' : r.op = q => r \in wire \/ Known(e, r)
      BY <1>3
    <3>. QED
      BY <1>4, <1>7, <1>10, <2>1, <2>2, <2>3, <2>5, <3>1, <3>2, <3>3, <3>4, SoundStays
  <2>6. Sound(e)'
    <3>1. CASE \E q \in Operations : Mutation(e) = q
      BY <2>5, <3>1
    <3>2. CASE ~\E q \in Operations : Mutation(e) = q
      BY <2>1, <3>2 DEF Sound, Mutation
    <3>. QED
      BY <3>1, <3>2
  <2>7. /\ \A f \in Operations \ {e} : entries'[f] = entries[f]
        /\ \A q \in Operations \ {e} : ops'[q] = ops[q]
    BY <1>4 DEF EntryStep, RowStep
  <2>. QED
    BY <1>4, <1>5, <1>7, <1>9, <1>10, <1>11, <2>1, <2>4, <2>6, <2>7, JournalHolds
<1>. QED
  BY <1>12, <1>13

-----------------------------------------------------------------------------
(* Admission and the seat's withdrawal                                     *)

LEMMA WithdrawSeatHolds ==
    ASSUME Types, Ledger, Copies, Holdings, NEW op \in Operations, WithdrawSeat(op)
    PROVE  Holdings'
<1>1. /\ Waiting(op) /\ ops[op].action = "add" /\ EntryFor(op) = op
      /\ RowStep(op, "failed")
      /\ EntryStep(op, "refused", None, entries[op].submission)
  BY WithdrawSeatEffect DEF WithdrawSeat, Types
<1>2. RowsKept /\ Steady(op)
  BY <1>1, WithdrawSeatJournaled, OwnerSteady DEF WithdrawSeat, Types, Journaled
<1>3. RevisionsKept /\ VersionsKept(op)
  BY <1>2 DEF Steady
<1>4. UNCHANGED exec /\ UNCHANGED <<wire, codex>> /\ seen' \subseteq seen
  BY DEF WithdrawSeat
<1>5. Proper(op) /\ Right(op) /\ J!Exists(op) /\ Mutation(op) = op
  BY <1>1, RowFields DEF Waiting, Copies, Types
<1>6. Open(op) /\ Unsent(op)
  BY <1>1, <1>5 DEF Open, Holdings, Exclusive
<1>7. ~Open(op)'
  <2>1. ~Waiting(op)'
    BY <1>1 DEF RowStep, Waiting
  <2>2. \A x \in Executors : On(x, op) => ~Holds(x)
    BY <1>1, <1>5 DEF Right, Owned, Prepared, Holds, Holding
  <2>. QED
    BY <1>4, <2>1, <2>2 DEF Open, On, Holds, At, Op
<1>8. Calling(op)
  BY <1>4 DEF Calling
<1>. QED
  BY <1>1, <1>2, <1>3, <1>4, <1>5, <1>6, <1>7, <1>8, SettledHolds

(* Nobody knows an operation before its admission.                         *)
LEMMA FreshUnknown ==
    ASSUME Types, Ledger, NEW op \in Operations, ~Proper(op)
    PROVE  /\ Unsent(op)
           /\ \A x \in Executors : ~On(x, op)
           /\ \A o \in seen : o.op # op
<1>1. \A x \in Executors : ~On(x, op)
  BY AtWork DEF On, Types
<1>. QED
  BY <1>1 DEF Ledger, Wired, Sighted, Unsent

(* An admitted operation has its entry, and nobody works for it yet.       *)
LEMMA AdmittedHolds ==
    ASSUME Types, Ledger, Copies, Holdings, RowsKept, RevisionsKept, NEW op \in Operations,
           NEW action, NEW e \in Operations, RowAdmitted(op, action, e),
           NEW state, NEW sub, EntryStep(e, state, op, sub),
           J!Exists(e) => Mutation(e) = None, state # "dispatching",
           UNCHANGED <<exec, wire, codex, seen>>,
           \A n \in Revisions(e) : n \in DOMAIN entries'[e].versions,
           state = "queued" => HeldAs(e, Due(e, op))',
           action = "update" => ~Landed(e)'
    PROVE  Holdings'
<1>1. /\ ~Proper(op) /\ ops'[op].entry = e /\ ops'[op].action = action
      /\ \A q \in Operations \ {op} : ops'[q] = ops[q]
  BY DEF RowAdmitted
<1>2. /\ \A f \in Operations \ {e} : entries'[f] = entries[f]
      /\ J!Exists(e)' /\ entries'[e].mutation = op /\ entries'[e].state = state
  BY DEF EntryStep
<1>3. UNCHANGED exec /\ UNCHANGED wire /\ UNCHANGED codex /\ UNCHANGED <<wire, codex>>
      /\ seen' = seen
  OBVIOUS
<1>4. Unsent(op) /\ (\A x \in Executors : ~On(x, op)) /\ \A o \in seen : o.op # op
  BY <1>1, FreshUnknown
<1>5. \A q : (Unsent(q)' <=> Unsent(q)) /\ SameWire(q) /\ SameAnswers(q) /\ SameSights(q)
  BY <1>3 DEF Unsent, SameWire, SameAnswers, SameSights
<1>6. \A q : \A x \in Executors : (On(x, q)' <=> On(x, q)) /\ (Holds(x)' <=> Holds(x))
  BY <1>3 DEF On, Holds, At, Op
<1>7. \A f : Travels(f)
  BY <1>3, PlacesStay, PlacesTravel
<1>8. ASSUME NEW q \in Operations, Proper(q)
      PROVE  /\ q # op /\ ops'[q] = ops[q] /\ EntryFor(q) \in Operations
             /\ EntryFor(q)' = EntryFor(q)
             /\ Mutation(EntryFor(q)) = q =>
                   EntryFor(q) # e /\ Mutation(EntryFor(q))' = q
             /\ Open(q)' => Open(q)
  <2>1. q # op /\ ops'[q] = ops[q] /\ EntryFor(q) \in Operations /\ J!Exists(EntryFor(q))
    BY <1>1, <1>8, RowFields DEF Types
  <2>2. EntryFor(q)' = EntryFor(q)
    BY <2>1 DEF EntryFor
  <2>3. PICK f \in Operations : f = EntryFor(q)
    BY <2>1
  <2>4. Mutation(f) = q => f # e
    BY <2>1, <2>3, Constants
  <2>5. f # e => entries'[f] = entries[f]
    BY <1>2
  <2>6. f = e => entries'[f].mutation # q
    BY <1>2, <2>1
  <2>7. Waiting(q)' => Waiting(q)
    BY <2>1, <2>2, <2>3, <2>5, <2>6 DEF Waiting, Proper, EntryFor, Mutation
  <2>. QED
    BY <1>6, <2>1, <2>2, <2>3, <2>4, <2>5, <2>7 DEF Open, Mutation
<1>9. Exclusive'
  <2>1. ASSUME NEW r \in wire
        PROVE  /\ (Mutation(EntryFor(r.op)) = r.op)'
               /\ \A s \in wire : s.op = r.op => r = s
    <3>1. r.op \in Operations /\ Proper(r.op)
      BY DEF Types, WireTypes, Requests, Ledger, Wired
    <3>. QED
      BY <1>8, <3>1 DEF Holdings, Exclusive, Mutation
  <2>2. ASSUME NEW q \in Operations, Proper(q)', Open(q)'
        PROVE  (Mutation(EntryFor(q)) = q)' /\ Unsent(q)'
    <3>1. CASE q = op
      BY <1>1, <1>2, <1>4, <1>5, <3>1 DEF Mutation, EntryFor
    <3>2. CASE q # op
      <4>1. Proper(q)
        BY <1>1, <2>2, <3>2 DEF Proper
      <4>. QED
        BY <1>5, <1>8, <2>2, <4>1 DEF Holdings, Exclusive, Mutation
    <3>. QED
      BY <3>1, <3>2
  <2>3. ASSUME NEW x \in Executors, At(x, "sent")', exec'[x].reply # None
        PROVE  /\ Unsent(Op(x))'
               /\ exec'[x].reply.kind = "turn" => (InTranscript(EntryFor(Op(x))) # {})'
    <3>1. At(x, "sent") /\ exec'[x] = exec[x]
      BY <1>3, <2>3 DEF At
    <3>2. PICK q \in Operations : q = Op(x) /\ Proper(q)
      BY <3>1, AtStage DEF Types, Stages
    <3>3. Unsent(q) /\ (exec[x].reply.kind = "turn" => InTranscript(EntryFor(q)) # {})
      BY <2>3, <3>1, <3>2 DEF Holdings, Exclusive
    <3>4. Op(x)' = q /\ EntryFor(q)' = EntryFor(q)
      BY <1>8, <3>1, <3>2 DEF Op
    <3>. QED
      BY <1>3, <1>5, <3>1, <3>3, <3>4 DEF InTranscript, codex, Unsent
  <2>. QED
    BY <1>3, <2>1, <2>2, <2>3 DEF Exclusive
<1>10. ASSUME NEW f \in Operations
       PROVE  Sound(f)' /\ Backs(f)'
  <2>1. CASE f # e
    <3>1. ASSUME NEW q \in Operations, J!Exists(f), Mutation(f) = q
          PROVE  Undone(q)' => Undone(q)
      <4>1. Proper(q)
        BY <3>1, EntryFields, Constants DEF Types
      <4>. QED
        BY <1>5, <1>8, <4>1 DEF Undone
    <3>. QED
      BY <1>2, <1>5, <1>7, <2>1, <3>1, EntryLeft DEF Holdings
  <2>2. CASE f = e
    <3>1. Revisions(e)' = Revisions(e)
      BY <1>7 DEF Travels
    <3>2. Backs(e)'
      BY <1>2, <3>1, Constants DEF Backs, Mutation
    <3>3. Bound(e, op)' /\ Answers(e, op)'
      BY <1>3, <1>4, <1>6 DEF Bound, Answers, Unsent
    <3>4. Sights(e, op)'
      BY <1>3, <1>4 DEF Sights
    <3>5. Awaits(e, op)'
      BY <1>1, <1>2 DEF Awaits
    <3>6. Sound(e)'
      BY <1>2, <3>3, <3>4, <3>5 DEF Sound, Mutation
    <3>. QED
      BY <2>2, <3>2, <3>6
  <2>. QED
    BY <2>1, <2>2
<1>. QED
  BY <1>9, <1>10 DEF Holdings

LEMMA AdmitHolds ==
    ASSUME Types, Ledger, Copies, Holdings, NEW op \in Operations,
           AdmitAdd(op) \/ AdmitControl(op)
    PROVE  Holdings'
<1>1. RowsKept
  BY AdmitTyped DEF Journaled
<1>2. UNCHANGED <<exec, wire, codex, seen>> /\ UNCHANGED <<wire, codex>>
  BY DEF AdmitAdd, AdmitControl
<1>3. CASE AdmitAdd(op)
  <2>1. PICK send \in BOOLEAN : J!AdmitAdd(op, send, Thread)
    BY <1>3 DEF AdmitAdd
  <2>2. RowAdmitted(op, "add", op) /\ ~J!Exists(op) /\ EntryStep(op, "admitted", op, None)
    BY <2>1, AdmitAddEffect DEF Types
  <2>3. RevisionsKept
    BY <2>2 DEF RowAdmitted, RevisionsKept
  <2>4. Revisions(op) = {}
    BY <2>2 DEF Holdings, Backs
  <2>. QED
    BY <1>1, <1>2, <2>2, <2>3, <2>4, AdmittedHolds
<1>4. CASE AdmitControl(op)
  <2>1. PICK action \in {"update", "delete", "start", "send-now"}, e \in Operations :
           /\ J!Exists(e)
           /\ J!AdmitControl(op, action, e, Thread, entries[e].revision)
    BY <1>4 DEF AdmitControl
  <2>2. /\ RowAdmitted(op, action, e)
        /\ Mutation(e) = None /\ entries[e].state # "dispatching"
        /\ EntryStep(e, entries[e].state, op, entries[e].submission)
    BY <2>1, AdmitControlEffect DEF Types
  <2>3. /\ RevisionsKept
        /\ ops'[op].revision = entries[e].revision
        /\ action = "update" => entries'[e].revision \notin DOMAIN entries[e].versions
        /\ action # "update" => entries'[e].revision = entries[e].revision
        /\ DOMAIN entries[e].versions \subseteq DOMAIN entries'[e].versions
    BY <2>1, ControlSteady DEF Types
  <2>4. Backs(e)
    BY DEF Holdings
  <2>5. InQueue(e)' = InQueue(e) /\ InTranscript(e)' = InTranscript(e)
    BY <1>2, PlacesStay
  <2>6. Revisions(e)' = Revisions(e)
    BY <2>5 DEF Revisions
  <2>7. \A n \in Revisions(e) : n \in DOMAIN entries'[e].versions
    BY <2>3, <2>4 DEF Backs
  <2>8. ASSUME action = "update"
        PROVE  ~Landed(e)'
    BY <2>3, <2>4, <2>6, <2>8 DEF Backs, Landed
  <2>9. ASSUME entries[e].state = "queued"
        PROVE  HeldAs(e, Due(e, op))'
    <3>1. PICK n : n = entries[e].revision
      OBVIOUS
    <3>2. HeldAs(e, n)
      BY <2>1, <2>2, <2>4, <2>9, <3>1 DEF Backs
    <3>3. Due(e, op)' = n
      BY <2>2, <2>3, <3>1 DEF Due, RowAdmitted
    <3>4. entries'[e].submission = entries[e].submission
      BY <2>2 DEF EntryStep
    <3>. QED
      BY <2>5, <3>2, <3>3, <3>4 DEF HeldAs
  <2>. QED
    BY <1>1, <1>2, <2>2, <2>3, <2>7, <2>8, <2>9, AdmittedHolds
<1>. QED
  BY <1>3, <1>4

-----------------------------------------------------------------------------
(* The whole system                                                        *)

LEMMA EndsHold ==
    ASSUME Types, Ledger, Copies, Holdings, NEW x \in Executors, ~At(x, "idle"),
           Stop(x) \/ Throw(x, "failed") \/ Throw(x, "uncertain"), Local(x)
    PROVE  Holdings'
<1>1. "caught" \in Stages
  BY DEF Stages
<1>. QED
  BY <1>1, StaysHold

LEMMA ActuateHolds ==
    ASSUME Types, Ledger, Copies, Holdings, NEW x \in Executors, Actuate(x)
    PROVE  Holdings'
<1>1. At(x, "prepared") /\ UNCHANGED <<journal, codex, seen>>
  BY DEF Actuate
<1>2. PICK p : p = Op(x)
  OBVIOUS
<1>3. PICK guarded \in BOOLEAN :
         LET method == MethodFor(x, guarded) IN
         IF TurnHolds(x, method) THEN Send(x, method)
         ELSE Throw(x, "failed") /\ UNCHANGED wire
  BY DEF Actuate
<1>4. PICK method \in Methods : method = MethodFor(x, guarded)
  BY MethodTyped
<1>5. CASE Send(x, method)
  BY <1>1, <1>2, <1>5, SendHolds
<1>6. CASE Throw(x, "failed") /\ UNCHANGED wire
  <2>1. ~At(x, "idle") /\ exec[x].pc = "prepared"
    BY <1>1, AtStage DEF Types, Stages
  <2>2. exec[x].prepared => Holding(exec[x])
    BY <2>1 DEF Holding, Unwritten
  <2>3. UNCHANGED <<journal, wire, codex, seen>>
    BY <1>1, <1>6
  <2>4. Local(x)
    BY <1>6, <2>1, <2>2, <2>3, ThrowLocal
  <2>. QED
    BY <1>6, <2>1, <2>4, EndsHold
<1>. QED
  BY <1>3, <1>4, <1>5, <1>6

LEMMA SteerHolds ==
    ASSUME Types, Ledger, Copies, Holdings, NEW x \in Executors, Steer(x)
    PROVE  Holdings'
<1>1. At(x, "steering") /\ UNCHANGED <<journal, codex, seen>>
  BY DEF Steer
<1>2. PICK p : p = Op(x)
  OBVIOUS
<1>3. ~At(x, "idle") /\ exec[x].pc = "steering"
  BY <1>1, AtStage DEF Types, Stages
<1>4. CASE Send(x, "turn/steer")
  <2>1. "turn/steer" \in Methods
    BY DEF Methods
  <2>. QED
    BY <1>1, <1>2, <1>4, <2>1, SendHolds
<1>5. ASSUME NEW ends \in {"failed", "uncertain"}, Throw(x, ends) /\ UNCHANGED wire
      PROVE  Holdings'
  <2>1. exec[x].prepared /\ Holding(exec[x])
    BY <1>2, <1>3, Caller DEF Holding, Stands, After
  <2>2. UNCHANGED <<journal, wire, codex, seen>>
    BY <1>1, <1>5
  <2>3. Local(x)
    BY <1>3, <1>5, <2>1, <2>2, ThrowLocal
  <2>4. Throw(x, "failed") \/ Throw(x, "uncertain")
    <3>1. CASE ends = "failed"
      BY <1>5, <3>1
    <3>2. CASE ends = "uncertain"
      BY <1>5, <3>2
    <3>. QED
      BY <3>1, <3>2
  <2>. QED
    BY <1>3, <2>3, <2>4, EndsHold
<1>. QED
  BY <1>4, <1>5 DEF Steer

(* A call that has prepared throws without a word in the journal.          *)
LEMMA LostHolds ==
    ASSUME Types, Ledger, Copies, Holdings, NEW x \in Executors, ~At(x, "idle"),
           exec[x].prepared, Throw(x, "uncertain"), UNCHANGED journal,
           UNCHANGED <<wire, codex, seen>>
    PROVE  Holdings'
<1>1. UNCHANGED <<journal, wire, codex, seen>>
  OBVIOUS
<1>2. Local(x)
  BY <1>1, ThrowLocal
<1>. QED
  BY <1>2, EndsHold

LEMMA ReplyHolds ==
    ASSUME Types, Ledger, Copies, Holdings, NEW x \in Executors, ReceiveReply(x)
    PROVE  Holdings'
<1>1. At(x, "sent") /\ UNCHANGED <<wire, codex, seen>>
  BY DEF ReceiveReply
<1>2. PICK p : p = Op(x)
  OBVIOUS
<1>3. ~At(x, "idle") /\ exec[x].pc = "sent"
  BY <1>1, AtStage DEF Types, Stages
<1>4. exec[x].prepared
  BY <1>2, <1>3, Caller DEF Stands, After
<1>5. exec[x].reply # None /\ exec[x].reply.kind # "refused"
  BY DEF ReceiveReply
<1>6. \/ /\ Acknowledgeable(x, exec[x].reply) /\ Acknowledge(x, exec[x].reply)
         /\ Stop(x) \/ Move(x, "removing") \/ Throw(x, "uncertain")
      \/ Throw(x, "uncertain") /\ UNCHANGED journal
  BY DEF ReceiveReply
<1>7. CASE /\ Acknowledgeable(x, exec[x].reply) /\ Acknowledge(x, exec[x].reply)
           /\ Stop(x) \/ Move(x, "removing") \/ Throw(x, "uncertain")
  BY <1>1, <1>2, <1>5, <1>7, AcknowledgeHolds
<1>8. CASE Throw(x, "uncertain") /\ UNCHANGED journal
  BY <1>1, <1>3, <1>4, <1>8, LostHolds
<1>. QED
  BY <1>6, <1>7, <1>8

LEMMA WithdrawalHolds ==
    ASSUME Types, Ledger, Copies, Holdings, NEW x \in Executors, ReceiveWithdrawal(x)
    PROVE  Holdings'
<1>1. At(x, "sent") /\ UNCHANGED <<wire, codex, seen>>
  BY DEF ReceiveWithdrawal
<1>2. PICK p : p = Op(x)
  OBVIOUS
<1>3. ~At(x, "idle") /\ exec[x].pc = "sent"
  BY <1>1, AtStage DEF Types, Stages
<1>4. exec[x].prepared
  BY <1>2, <1>3, Caller DEF Stands, After
<1>5. exec[x].reply # None /\ exec[x].reply.kind = "deleted"
  BY DEF ReceiveWithdrawal
<1>6. \/ /\ IsWithdrawal(exec[x].reply) /\ J!MarkWithdrawn(p)
         /\ Move(x, "steering") \/ Throw(x, "uncertain")
      \/ J!MarkUncertain(p) /\ Stop(x)
      \/ Throw(x, "uncertain") /\ UNCHANGED journal
  BY <1>2, <1>5 DEF ReceiveWithdrawal, IsWithdrawal
<1>7. CASE /\ IsWithdrawal(exec[x].reply) /\ J!MarkWithdrawn(p)
           /\ Move(x, "steering") \/ Throw(x, "uncertain")
  BY <1>1, <1>2, <1>7, WithdrawnHolds
<1>8. CASE J!MarkUncertain(p) /\ Stop(x)
  BY <1>1, <1>2, <1>3, <1>4, <1>8, UncertainHolds
<1>9. CASE Throw(x, "uncertain") /\ UNCHANGED journal
  BY <1>1, <1>3, <1>4, <1>9, LostHolds
<1>. QED
  BY <1>6, <1>7, <1>8, <1>9

LEMMA SettlesHold ==
    ASSUME Types, Ledger, Copies, Holdings, NEW x \in Executors, ~RivalRefusal,
           RefuseNow(x) \/ RefuseFenced(x) \/ End(x)
    PROVE  Holdings'
<1>1. exec[x].pc \in {"refusing", "fenced", "ending"} /\ UNCHANGED <<wire, codex, seen>>
  BY DEF RefuseNow, RefuseFenced, End, At
<1>2. ~At(x, "idle")
  BY <1>1 DEF At
<1>3. PICK p : p = Op(x)
  OBVIOUS
<1>4. exec[x] \in Workers /\ Stands(exec[x]) /\ Standing
  BY <1>2, <1>3, Caller
<1>5. \/ UNCHANGED journal /\ Stop(x)
      \/ UNCHANGED journal /\ Throw(x, "failed") /\ exec[x].pc = "fenced"
      \/ J!Refuse(p) /\ Stop(x) /\ (exec[x].pc = "ending" => exec[x].ends = "failed")
      \/ J!MarkUncertain(p) /\ Stop(x) /\ exec[x].pc = "ending" /\ exec[x].ends # "failed"
  BY <1>3 DEF RefuseNow, RefuseFenced, End, At
<1>6. CASE UNCHANGED journal /\ Stop(x)
  <2>1. UNCHANGED <<journal, wire, codex, seen>>
    BY <1>1, <1>6
  <2>. QED
    BY <1>2, <1>6, <2>1, StopLocal, EndsHold
<1>7. CASE UNCHANGED journal /\ Throw(x, "failed") /\ exec[x].pc = "fenced"
  <2>1. UNCHANGED <<journal, wire, codex, seen>>
    BY <1>1, <1>7
  <2>2. ~exec[x].prepared
    BY <1>4, <1>7 DEF Stands, Before
  <2>3. Local(x)
    BY <1>2, <1>7, <2>1, <2>2, ThrowLocal
  <2>. QED
    BY <1>2, <1>7, <2>3, EndsHold
<1>8. CASE J!Refuse(p) /\ Stop(x) /\ (exec[x].pc = "ending" => exec[x].ends = "failed")
  <2>1. CASE exec[x].prepared
    <3>1. exec[x].pc = "ending"
      BY <1>1, <1>4, <2>1 DEF Stands, Before
    <3>2. Holds(x)
      BY <1>2, <1>8, <2>1, <3>1 DEF Holds, Holding
    <3>. QED
      BY <1>1, <1>2, <1>3, <1>8, <3>2, RefuseHolds
  <2>2. CASE ~exec[x].prepared
    <3>1. Waiting(p)
      BY <1>2, <1>3, <1>8, <2>2, RefuseWaiting
    <3>. QED
      BY <1>1, <1>2, <1>3, <1>8, <3>1, RefuseHolds
  <2>. QED
    BY <2>1, <2>2
<1>9. CASE J!MarkUncertain(p) /\ Stop(x) /\ exec[x].pc = "ending" /\ exec[x].ends # "failed"
  <2>1. exec[x].prepared
    BY <1>4, <1>9 DEF Stands, Workers
  <2>. QED
    BY <1>1, <1>2, <1>3, <1>9, <2>1, UncertainHolds
<1>. QED
  BY <1>5, <1>6, <1>7, <1>8, <1>9

LEMMA PreparesHold ==
    ASSUME Types, Ledger, Copies, Holdings, NEW x \in Executors, Prepare(x) \/ Defer(x)
    PROVE  Holdings'
<1>1. exec[x].pc \in {"ready", "deferring"} /\ UNCHANGED <<wire, codex, seen>>
  BY DEF Prepare, Defer, At
<1>2. ~At(x, "idle")
  BY <1>1 DEF At
<1>3. PICK p : p = Op(x)
  OBVIOUS
<1>4. exec[x] \in Workers /\ Stands(exec[x]) /\ Standing
  BY <1>2, <1>3, Caller
<1>5. ASSUME UNCHANGED journal, Stop(x) \/ Throw(x, "failed")
      PROVE  Holdings'
  <2>1. UNCHANGED <<journal, wire, codex, seen>>
    BY <1>1, <1>5
  <2>2. exec[x].prepared => Holding(exec[x])
    BY <1>1, <1>4 DEF Stands, Before, Holding, Unwritten
  <2>3. Local(x)
    BY <1>2, <1>5, <2>1, <2>2, StopLocal, ThrowLocal
  <2>. QED
    BY <1>2, <1>5, <2>3, EndsHold
<1>6. CASE Prepare(x)
  <2>1. \/ /\ At(x, "ready") /\ J!Prepare(p, exec[x].revision, Thread)
           /\ exec' = [exec EXCEPT ![x] = Swapped(exec[x])] \/ Throw(x, "failed")
        \/ Throw(x, "failed") /\ UNCHANGED journal
    BY <1>3, <1>6 DEF Prepare, Swapped
  <2>. QED
    BY <1>1, <1>3, <1>5, <2>1, PrepareHolds
<1>7. CASE Defer(x)
  <2>1. \/ /\ At(x, "deferring") /\ J!Defer(p)
           /\ \E v \in {Idle, Unprepared(exec[x])} : exec' = [exec EXCEPT ![x] = v]
        \/ UNCHANGED journal /\ (Stop(x) \/ Throw(x, "failed"))
    BY <1>3, <1>7 DEF Defer, Stop, Unprepared
  <2>. QED
    BY <1>1, <1>3, <1>5, <2>1, DeferHolds
<1>. QED
  BY <1>6, <1>7

LEMMA RemovesHold ==
    ASSUME Types, Ledger, Copies, Holdings, NEW x \in Executors, RemoveEntry(x)
    PROVE  Holdings'
<1>1. At(x, "removing") /\ UNCHANGED <<wire, codex, seen>>
  BY DEF RemoveEntry
<1>2. PICK p : p = Op(x)
  OBVIOUS
<1>3. ~At(x, "idle") /\ exec[x].pc = "removing"
  BY <1>1, AtStage DEF Types, Stages
<1>4. exec[x].prepared /\ EntryFor(p) \in Operations
  BY <1>2, <1>3, Caller DEF Stands, After
<1>5. PICK e \in Operations : EntryFor(p) = e
  BY <1>4
<1>6. \/ J!Remove(e) /\ Stop(x)
      \/ Throw(x, "uncertain") /\ UNCHANGED journal
  BY <1>2, <1>5 DEF RemoveEntry, EntryOf, EntryFor
<1>7. CASE J!Remove(e) /\ Stop(x)
  BY <1>1, <1>7, RemoveHolds
<1>8. CASE Throw(x, "uncertain") /\ UNCHANGED journal
  BY <1>1, <1>3, <1>4, <1>8, LostHolds
<1>. QED
  BY <1>6, <1>7, <1>8

LEMMA PassesHold ==
    ASSUME Types, Ledger, Copies, Holdings, NEW x \in Executors,
           \/ Terminate(x) \/ HealthRefuses(x) \/ HealthWaits(x)
           \/ FenceUnreadable(x) \/ FenceSettled(x)
           \/ Unauthorized(x) \/ Postpone(x) \/ LoseReply(x) \/ ReceiveRefusal(x)
           \/ CatchStatus(x) \/ CatchDeferred(x) \/ CatchEntry(x) \/ Crash(x)
    PROVE  Holdings'
<1>1. Local(x)
  BY MovesLocal DEF Copies
<1>2. ~At(x, "idle")
  BY DEF Terminate, HealthRefuses, HealthWaits, FenceUnreadable, FenceSettled, Unauthorized,
         Postpone, LoseReply, ReceiveRefusal, CatchStatus, CatchDeferred, CatchEntry, Crash, At
<1>3. CASE Stop(x) \/ Throw(x, "failed") \/ Throw(x, "uncertain")
  BY <1>1, <1>2, <1>3, EndsHold
<1>4. CASE ~Stop(x) /\ (Terminate(x) \/ FenceSettled(x) \/ Postpone(x) \/ CatchStatus(x)
                        \/ CatchDeferred(x) \/ CatchEntry(x))
  <2>1. \E pc \in Stages : Move(x, pc)
    BY <1>4 DEF Terminate, FenceSettled, Postpone, CatchStatus, CatchDeferred, CatchEntry, Stages
  <2>2. "failed" \in {"failed", "uncertain"}
    OBVIOUS
  <2>. QED
    BY <1>1, <1>2, <2>1, <2>2, StaysHold
<1>5. \/ Stop(x) \/ Throw(x, "failed") \/ Throw(x, "uncertain")
      \/ Terminate(x) \/ FenceSettled(x) \/ Postpone(x)
      \/ CatchStatus(x) \/ CatchDeferred(x) \/ CatchEntry(x)
  BY DEF HealthRefuses, HealthWaits, FenceUnreadable, Unauthorized, LoseReply, ReceiveRefusal,
         Crash
<1>. QED
  BY <1>3, <1>4, <1>5

LEMMA ExecuteHolds ==
    ASSUME Types, Ledger, Copies, Holdings, NEW x \in Executors, Execute(x), ~RivalRefusal
    PROVE  Holdings'
BY ReadsHold, PassesHold, SettlesHold, PreparesHold, ActuateHolds, SteerHolds, ReplyHolds,
   WithdrawalHolds, RemovesHold DEF Execute

LEMMA HoldingsStart ==
    ASSUME Init
    PROVE  Holdings
<1>1. \A q \in Operations : ~Proper(q)
  BY DEF Init, J!Init, Proper, IsRow
<1>2. \A e \in Operations : ~J!Exists(e)
  BY DEF Init, J!Init, J!Exists
<1>3. \A x \in Executors : At(x, "idle")
  BY DEF Init, At, Idle
<1>4. \A e \in Operations : Revisions(e) = {}
  BY DEF Init, Revisions, InQueue, InTranscript
<1>5. Exclusive
  BY <1>1, <1>3 DEF Init, Exclusive, At
<1>. QED
  BY <1>2, <1>4, <1>5 DEF Holdings, Sound, Backs

LEMMA IdleHoldings ==
    ASSUME Types, Ledger, Holdings, UNCHANGED vars
    PROVE  Holdings'
<1>1. /\ UNCHANGED exec /\ UNCHANGED <<wire, codex>> /\ seen' = seen
      /\ ops' = ops /\ entries' = entries
  BY DEF vars, journal
<1>2. RowsKept /\ RevisionsKept
  BY <1>1 DEF RowsKept, RevisionsKept, Proper
<1>3. \A f : Travels(f)
  BY <1>1, PlacesStay, PlacesTravel
<1>4. \A q : SameAnswers(q) /\ SameSights(q)
  BY <1>1 DEF SameAnswers, SameSights
<1>5. \A q \in Operations : (Proper(q)' => Proper(q)) /\ (Open(q)' => Open(q))
  BY <1>1 DEF Proper, Open, Waiting, EntryFor, Mutation, On, Holds, At, Op
<1>. QED
  BY <1>1, <1>2, <1>3, <1>4, <1>5, RestHolds

LEMMA HoldingsStep ==
    ASSUME Types, Aimed, Ledger, Copies, Holdings, [Next]_vars, ~RivalRefusal
    PROVE  Holdings'
<1>1. CASE \/ \E op \in Messages : AdmitAdd(op)
           \/ \E op \in Operations \ Messages : AdmitControl(op)
           \/ \E op \in Operations : WithdrawSeat(op)
  <2>1. PICK op \in Operations : AdmitAdd(op) \/ AdmitControl(op) \/ WithdrawSeat(op)
    BY <1>1 DEF NativeQueueAssumption
  <2>. QED
    BY <2>1, AdmitHolds, WithdrawSeatHolds
<1>2. CASE \E x \in Executors : Execute(x)
  BY <1>2, ExecuteHolds
<1>3. CASE \E r \in wire : Serve(r)
  BY <1>3, ServeHolds
<1>4. CASE Dispatch \/ OtherTurn \/ EndTurn \/ LoseHost \/ ReplaceHost
  BY <1>4, MovesHold
<1>5. CASE ReadQueue
  BY <1>5, ReadQueueHolds
<1>6. CASE \/ \E o \in seen : RecordQueued(o)
           \/ \E e \in Operations : RecordRemoved(e)
           \/ \E item \in transcript : RecordProof(item)
  BY <1>6, RecordQueuedHolds, RecordRemovedHolds, RecordProofHolds
<1>7. CASE UNCHANGED vars
  BY <1>7, IdleHoldings
<1>. QED
  BY <1>1, <1>2, <1>3, <1>4, <1>5, <1>6, <1>7 DEF Next

LEMMA HoldingsHold == PreparedSpec => [](Types /\ Aimed /\ Ledger /\ Copies /\ Holdings)
<1>1. Init => Types /\ Aimed /\ Ledger /\ Copies /\ Holdings
  BY TypesStart, LedgerStart, CopiesStart, HoldingsStart
<1>2. ASSUME Types, Aimed, Ledger, Copies, Holdings, [Next /\ ~RivalRefusal]_vars
      PROVE  Types' /\ Aimed' /\ Ledger' /\ Copies' /\ Holdings'
  BY <1>2, PreparedStep, TypesStep, LedgerStep, CopiesStep, HoldingsStep
<1>. QED
  BY <1>1, <1>2, PTL DEF PreparedSpec

LEMMA HoldingsImply ==
    ASSUME Holdings
    PROVE  AcknowledgedIsHeld
BY DEF Holdings, Backs, HeldAs, Mutation, AcknowledgedIsHeld

(* What execute acknowledges, reconcile observes and a refused control     *)
(* leaves behind is true of Codex: as long as no call refuses an operation *)
(* that another call has prepared and not settled, a message the journal   *)
(* calls queued with no change unresolved is in Codex's queue under its    *)
(* recorded submission and in its current revision, or in a turn, and one  *)
(* it calls dispatching is in a turn, whatever replies, calls and hosts    *)
(* were lost on the way.                                                   *)
THEOREM PreparedIsHeld == PreparedSpec => []AcknowledgedIsHeld
BY HoldingsHold, HoldingsImply, PTL

LEMMA AloneHoldings ==
    ASSUME \A x, y \in Executors : x = y
    PROVE  Spec => [](Types /\ Aimed /\ Ledger /\ Copies /\ Holdings)
<1>1. Init => Types /\ Aimed /\ Ledger /\ Copies /\ Alone /\ Holdings
  BY TypesStart, LedgerStart, CopiesStart, HoldingsStart DEF Init, Alone, At, Idle
<1>2. ASSUME Types, Aimed, Ledger, Copies, Alone, Holdings, [Next]_vars
      PROVE  Types' /\ Aimed' /\ Ledger' /\ Copies' /\ Alone' /\ Holdings'
  BY <1>2, TypesStep, LedgerStep, CopiesStep, AloneStep, AloneRefusesNothing, HoldingsStep
<1>. QED
  BY <1>1, <1>2, PTL DEF Spec

(* Where one executor at a time serves the conversation the journal's      *)
(* queued and dispatching are true without a condition: its crashes, lost  *)
(* replies and retries, edits it could not send and reconciliation behind  *)
(* its back leave no message acknowledged that Codex does not have.        *)
THEOREM OneCallIsHeld ==
    ASSUME \A x, y \in Executors : x = y
    PROVE  Spec => []AcknowledgedIsHeld
BY AloneHoldings, HoldingsImply, PTL
=============================================================================
