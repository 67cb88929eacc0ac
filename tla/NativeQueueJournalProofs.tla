---------------------- MODULE NativeQueueJournalProofs ----------------------
(***************************************************************************)
(* For every set of operations, bindings, submissions, turns and payloads  *)
(* and every bound on edits: the invariants of the journal's two tables,   *)
(* and that no step rewrites what was handed to Codex.                     *)
(***************************************************************************)
EXTENDS NativeQueueJournal, TLAPS

USE JournalAssumption DEF JournalAssumption

-----------------------------------------------------------------------------
(* The inductive invariant                                                 *)

(* A fence needs an operation that can still be answered: its effect is    *)
(* owed or its outcome is unknown.  FenceLive says so only of the fence of *)
(* the present state; to keep it, the rows must agree in more detail.      *)
Proper(o) == o \notin {NoOp, RejectedOp}
Owed(o) == o.effect \/ o.status \in {"delivering", "uncertain"}
Answerable(o) ==
    \/ o.effect /\ o.status \in {"queued", "delivering"}
    \/ o.status = "uncertain"

Linked(op, o, x) ==
    /\ x # NoEntry
    /\ o.action = "add" <=> o.entry = op
    /\ Owed(o) => x.mutation = op
    /\ o.action = "update" => o.revision \in 1..Len(x.versions)

OpInv(op) ==
    LET o == ops[op] IN
    Proper(o) =>
        /\ o.effect => o.status \in {"queued", "delivering"}
        /\ o.entry = None <=> o.action = "reorder"
        /\ o.entry # None => Linked(op, o, entries[o.entry])

Fences(e, o) == Proper(o) /\ o.entry = e /\ Answerable(o)

Acked(o) == o.status = (IF o.send THEN "queued" ELSE "applied") /\ ~o.effect

(* What the add of entry e, if it is retained, tells of the entry x.       *)
Truth(e, o, x) ==
    /\ x.state \notin Settled => o # NoOp
    /\ o # NoOp =>
          /\ o # RejectedOp
          /\ o.entry = e
          /\ x.state = "admitted" => o.effect /\ o.status \in {"queued", "delivering"}
          /\ x.state \in {"queued", "dispatching", "withdrawn"} => Acked(o)
          /\ x.state \notin Settled /\ x.mutation # e => Acked(o)
          /\ x.state = "delivered" <=> o.status = "delivered"
          /\ x.state = "refused" => o.status = "failed"
          /\ o.status = "failed" => x.state \in {"refused", "removed"}

Exact(x) ==
    /\ x.state = "delivered" <=> x.proof # None
    /\ x.proof # None =>
          /\ x.dispatched = x.proof.revision
          /\ x.turn = x.proof.turn
          /\ x.proof.revision \in 1..Len(x.versions)
          /\ x.versions[x.proof.revision].input = x.proof.input

EntryInv(e) ==
    LET x == entries[e] IN
    x # NoEntry =>
        /\ x.mutation # None => Fences(e, ops[x.mutation])
        /\ Truth(e, ops[e], x)
        /\ x.state \in {"refused", "removed"} => x.mutation = None
        /\ x.state = "admitted" => Len(x.versions) = 1
        /\ Exact(x)

JournalInd ==
    /\ TypeOK
    /\ \A op \in Operations : OpInv(op)
    /\ \A e \in Operations : EntryInv(e)

(* No step rewrites what an entry has handed over.                         *)
AllKept == \A e \in Operations : Exists(e) =>
               entries'[e] # NoEntry /\ Kept(entries[e], entries'[e])

-----------------------------------------------------------------------------
(* Lemmas about the rows                                                   *)

LEMMA ProperType ==
    ASSUME TypeOK, NEW op \in Operations
    PROVE  /\ Proper(ops[op]) <=> ops[op] \in Operation
           /\ Exists(op) <=> entries[op] \in Entry
           /\ Exists(op) => Len(entries[op].versions) \in entries[op].revision..MaxRevision
<1>1. NoOp \notin Operation /\ RejectedOp \notin Operation
  BY DEF NoOp, RejectedOp, Operation, Statuses
<1>2. NoEntry \notin Entry
  BY DEF NoEntry, Entry, States
<1>. QED
  BY <1>1, <1>2 DEF TypeOK, Proper, Exists

LEMMA KeptSame ==
    ASSUME NEW x
    PROVE  Kept(x, x)
BY DEF Kept

(* The typing of one entry, one field at a time.                           *)
EntryTyped(x) == x \in Entry /\ Len(x.versions) \in x.revision..MaxRevision

LEMMA EntryFields ==
    ASSUME NEW x, EntryTyped(x)
    PROVE  /\ x.binding \in Bindings /\ x.state \in States
           /\ x.mutation \in Operations \cup {None}
           /\ x.submission \in Submissions \cup {None}
           /\ x.revision \in 1..MaxRevision
           /\ x.versions \in Seq(Version)
           /\ x.dispatched \in 0..MaxRevision
           /\ x.turn \in Turns \cup {None} /\ x.proof \in Proof \cup {None}
           /\ Len(x.versions) \in Nat /\ x.revision \in 1..Len(x.versions)
           /\ Current(x) \in Version
<1>1. x \in Entry /\ Len(x.versions) \in x.revision..MaxRevision
  BY DEF EntryTyped
<1>2. x.versions \in Seq(Version) /\ x.revision \in 1..MaxRevision
  BY <1>1 DEF Entry
<1>3. Len(x.versions) \in Nat /\ x.revision \in 1..Len(x.versions)
  BY <1>1, <1>2
<1>4. Current(x) \in Version
  BY <1>2, <1>3 DEF Current
<1>. QED
  BY <1>1, <1>3, <1>4 DEF Entry

-----------------------------------------------------------------------------
(* A transition of one operation and its entry                             *)

(* All the invariant asks of a step that changes operation op to o and its *)
(* entry e to x.                                                           *)
Advance(op, e, o, x) ==
    /\ o \in Operation
    /\ o.action = ops[op].action /\ o.send = ops[op].send
    /\ o.entry = ops[op].entry /\ o.revision = ops[op].revision
    /\ o.effect => o.status \in {"queued", "delivering"}
    /\ Owed(o) => x.mutation = op
    /\ EntryTyped(x)
    /\ Len(x.versions) = Len(entries[e].versions)
    /\ x.mutation = op => Answerable(o)
    /\ x.mutation \in {None, entries[e].mutation}
    /\ entries[e].mutation \notin {None, op} => x.mutation = entries[e].mutation
    /\ Truth(e, IF op = e THEN o ELSE ops[e], x)
    /\ x.state \in {"refused", "removed"} => x.mutation = None
    /\ x.state = "admitted" => Len(x.versions) = 1
    /\ Exact(x)
    /\ Kept(entries[e], x)

LEMMA TransitionKeeps ==
    ASSUME JournalInd, NEW op \in Operations, NEW e \in Operations, NEW o, NEW x,
           Proper(ops[op]), ops[op].entry = e, Exists(e),
           ops' = [ops EXCEPT ![op] = o], entries' = [entries EXCEPT ![e] = x],
           Advance(op, e, o, x)
    PROVE  JournalInd' /\ AllKept
<1>1. TypeOK /\ ops \in [Operations -> Operation \cup {NoOp, RejectedOp}]
      /\ entries \in [Operations -> Entry \cup {NoEntry}]
  BY DEF JournalInd, TypeOK
<1>2. /\ \A q \in Operations : ops'[q] = IF q = op THEN o ELSE ops[q]
      /\ \A f \in Operations : entries'[f] = IF f = e THEN x ELSE entries[f]
  BY <1>1
<1>3. o \in Operation /\ x \in Entry /\ Proper(o) /\ x # NoEntry
  BY DEF Advance, EntryTyped, Proper, NoOp, RejectedOp, NoEntry, Operation, Entry, Statuses, States
<1>4. TypeOK'
  <2>1. /\ ops' \in [Operations -> Operation \cup {NoOp, RejectedOp}]
        /\ entries' \in [Operations -> Entry \cup {NoEntry}]
    BY <1>1, <1>3
  <2>2. ASSUME NEW f \in Operations, entries'[f] # NoEntry
        PROVE  Len(entries'[f].versions) \in entries'[f].revision..MaxRevision
    BY <1>1, <1>2, <2>2 DEF TypeOK, Exists, Advance, EntryTyped
  <2>. QED
    BY <2>1, <2>2 DEF TypeOK, Exists
<1>5. ASSUME NEW q \in Operations
      PROVE  OpInv(q)'
  <2>1. OpInv(q) /\ OpInv(op)
    BY DEF JournalInd
  <2>2. CASE q = op
    <3>1. ops'[q] = o /\ entries'[e] = x /\ o.entry = e
      BY <1>2, <2>2 DEF Advance
    <3>2. Linked(op, ops[op], entries[e]) /\ (ops[op].entry = None <=> ops[op].action = "reorder")
      BY <2>1 DEF OpInv
    <3>3. Linked(op, o, x)
      BY <1>3, <3>2 DEF Linked, Advance
    <3>. QED
      BY <2>2, <3>1, <3>2, <3>3 DEF OpInv, Advance
  <2>3. CASE q # op
    <3>1. ops'[q] = ops[q]
      BY <1>2, <2>3
    <3>2. ASSUME Proper(ops[q]), ops[q].entry # None
          PROVE  Linked(q, ops[q], entries'[ops[q].entry])
      <4>1. Linked(q, ops[q], entries[ops[q].entry]) /\ ops[q].entry \in Operations
        BY <1>1, <2>1, <3>2, ProperType DEF OpInv, Operation
      <4>2. CASE ops[q].entry # e
        BY <1>2, <4>1, <4>2
      <4>3. CASE ops[q].entry = e
        <5>1. entries'[e] = x /\ Len(x.versions) = Len(entries[e].versions)
          BY <1>2 DEF Advance
        <5>2. Owed(ops[q]) => x.mutation = q
          BY <2>3, <4>1, <4>3 DEF Linked, Advance
        <5>. QED
          BY <1>3, <4>1, <4>3, <5>1, <5>2 DEF Linked
      <4>. QED
        BY <4>2, <4>3
    <3>. QED
      BY <2>1, <3>1, <3>2 DEF OpInv
  <2>. QED
    BY <2>2, <2>3
<1>6. ASSUME NEW f \in Operations
      PROVE  EntryInv(f)'
  <2>1. EntryInv(f) /\ EntryInv(e)
    BY DEF JournalInd
  <2>2. CASE f = e
    <3>1. entries'[f] = x /\ ops'[f] = IF op = e THEN o ELSE ops[e]
      BY <1>2, <2>2
    <3>2. ASSUME x.mutation # None
          PROVE  Fences(e, ops'[x.mutation])
      <4>1. CASE x.mutation = op
        BY <1>2, <1>3, <4>1 DEF Fences, Advance
      <4>2. CASE x.mutation # op
        <5>1. x.mutation = entries[e].mutation /\ x.mutation \in Operations
          BY <1>3, <3>2 DEF Advance, Entry
        <5>2. Fences(e, ops[x.mutation])
          BY <2>1, <3>2, <5>1 DEF EntryInv, Exists
        <5>. QED
          BY <1>2, <4>2, <5>1, <5>2
      <4>. QED
        BY <4>1, <4>2
    <3>. QED
      BY <2>2, <3>1, <3>2 DEF EntryInv, Advance
  <2>3. CASE f # e
    <3>1. entries'[f] = entries[f]
      BY <1>2, <2>3
    <3>2. ASSUME Exists(f)
          PROVE  ops'[f] = ops[f]
      BY <1>2, <2>1, <2>3, <3>2 DEF EntryInv, Exists, Truth, Proper
    <3>3. ASSUME Exists(f), entries[f].mutation # None
          PROVE  ops'[entries[f].mutation] = ops[entries[f].mutation]
      <4>1. entries[f].mutation \in Operations
        BY <1>1, <3>3, ProperType DEF Entry
      <4>2. ops[entries[f].mutation].entry = f
        BY <2>1, <3>3 DEF EntryInv, Exists, Fences
      <4>. QED
        BY <1>2, <2>3, <4>1, <4>2
    <3>. QED
      BY <2>1, <3>1, <3>2, <3>3 DEF EntryInv, Exists
  <2>. QED
    BY <2>2, <2>3
<1>7. AllKept
  <2>. SUFFICES ASSUME NEW f \in Operations, Exists(f)
                PROVE  entries'[f] # NoEntry /\ Kept(entries[f], entries'[f])
    BY DEF AllKept
  <2>. QED
    BY <1>2, <1>3, KeptSame DEF Advance, Exists
<1>. QED
  BY <1>4, <1>5, <1>6, <1>7 DEF JournalInd

(* What the invariant says of one operation with an entry.                 *)
LEMMA OwnedFacts ==
    ASSUME JournalInd, NEW op \in Operations, Proper(ops[op]), ops[op].entry # None,
           NEW e, e = ops[op].entry
    PROVE  /\ e \in Operations /\ Exists(e)
           /\ ops[op] \in Operation /\ EntryTyped(entries[e])
           /\ ops[op].effect => ops[op].status \in {"queued", "delivering"}
           /\ Linked(op, ops[op], entries[e])
           /\ EntryInv(e)
<1>1. ops[op] \in Operation /\ OpInv(op)
  BY ProperType DEF JournalInd
<1>2. e \in Operations
  BY <1>1 DEF Operation
<1>3. Linked(op, ops[op], entries[e])
      /\ (ops[op].effect => ops[op].status \in {"queued", "delivering"})
  BY <1>1 DEF OpInv
<1>4. Exists(e)
  BY <1>3 DEF Linked, Exists
<1>. QED
  BY <1>1, <1>2, <1>3, <1>4, ProperType DEF JournalInd, EntryTyped

(* The receipt o a transition of op writes.                                *)
Wrote(op, status, done, o) ==
    /\ o \in Operation
    /\ o.action = ops[op].action /\ o.send = ops[op].send
    /\ o.entry = ops[op].entry /\ o.revision = ops[op].revision
    /\ o.status = status
    /\ o.effect = Owing(op, status, done)
    /\ ops' = [ops EXCEPT ![op] = o]

LEMMA ReceiptWritten ==
    ASSUME TypeOK, NEW op \in Operations, Proper(ops[op]), NEW status \in Statuses,
           NEW done \in BOOLEAN, SetReceipt(op, status, done)
    PROVE  \E o : Wrote(op, status, done, o)
<1>. DEFINE owed == Owing(op, status, done)
            o == [ops[op] EXCEPT !.status = status, !.effect = owed]
<1>1. owed \in BOOLEAN
  BY DEF Owing
<1>2. ops[op] \in Operation
  BY ProperType
<1>3. ops' = [ops EXCEPT ![op] = o]
  BY DEF SetReceipt, Receipt
<1>. HIDE DEF owed
<1>4. o \in Operation
  BY <1>1, <1>2 DEF Operation
<1>5. /\ o.action = ops[op].action /\ o.send = ops[op].send
      /\ o.entry = ops[op].entry /\ o.revision = ops[op].revision
      /\ o.status = status
  BY <1>2 DEF Operation
<1>6. o.effect = owed
  BY <1>1, <1>2 DEF Operation
<1>. HIDE DEF o
<1>7. Wrote(op, status, done, o)
  BY <1>3, <1>4, <1>5, <1>6 DEF Wrote, owed
<1>. QED
  BY <1>7

(* A transition whose receipt and entry are known: what remains to show.   *)
LEMMA ReceiptAdvances ==
    ASSUME JournalInd, NEW op \in Operations, Proper(ops[op]), ops[op].entry # None,
           NEW e, e = ops[op].entry, NEW x, EntryTyped(x),
           NEW status, NEW done, NEW o, Wrote(op, status, done, o),
           entries' = [entries EXCEPT ![e] = x],
           o.effect => o.status \in {"queued", "delivering"},
           Owed(o) => x.mutation = op,
           x.mutation = op => Answerable(o),
           Truth(e, IF op = e THEN o ELSE ops[e], x),
           Len(x.versions) = Len(entries[e].versions),
           x.mutation \in {None, entries[e].mutation},
           entries[e].mutation \notin {None, op} => x.mutation = entries[e].mutation,
           x.state \in {"refused", "removed"} => x.mutation = None,
           x.state = "admitted" => Len(x.versions) = 1,
           Exact(x), Kept(entries[e], x)
    PROVE  JournalInd' /\ AllKept
<1>1. e \in Operations /\ Exists(e)
  BY OwnedFacts
<1>2. Advance(op, e, o, x)
  BY DEF Advance, Wrote
<1>3. ops' = [ops EXCEPT ![op] = o]
  BY DEF Wrote
<1>. QED
  BY <1>1, <1>2, <1>3, TransitionKeeps

(* Operations without an entry: only their receipt changes.                *)
LEMMA ReorderKeeps ==
    ASSUME JournalInd, NEW op \in Operations, Proper(ops[op]), ops[op].entry = None,
           NEW status, NEW done, NEW o, Wrote(op, status, done, o), UNCHANGED entries,
           o.effect => o.status \in {"queued", "delivering"}
    PROVE  JournalInd' /\ AllKept
<1>1. TypeOK /\ OpInv(op)
  BY DEF JournalInd
<1>2. ops' = [ops EXCEPT ![op] = o] /\ o \in Operation
      /\ o.action = ops[op].action /\ o.entry = None
  BY DEF Wrote
<1>4. TypeOK'
  BY <1>1, <1>2 DEF TypeOK, Exists
<1>5. \A q \in Operations : ops'[q] = IF q = op THEN o ELSE ops[q]
  BY <1>1, <1>2 DEF TypeOK
<1>6. ASSUME NEW q \in Operations
      PROVE  OpInv(q)'
  <2>1. OpInv(q)
    BY DEF JournalInd
  <2>2. CASE q = op
    BY <1>1, <1>2, <1>5, <2>2 DEF OpInv
  <2>3. CASE q # op
    BY <1>5, <2>1, <2>3 DEF OpInv
  <2>. QED
    BY <2>2, <2>3
<1>7. ASSUME NEW f \in Operations
      PROVE  EntryInv(f)'
  <2>1. EntryInv(f)
    BY DEF JournalInd
  <2>2. ASSUME Exists(f)
        PROVE  ops'[f] = ops[f]
    BY <1>5, <2>1, <2>2 DEF EntryInv, Exists, Truth, Proper
  <2>3. ASSUME Exists(f), entries[f].mutation # None
        PROVE  ops'[entries[f].mutation] = ops[entries[f].mutation]
    <3>1. entries[f].mutation \in Operations
      BY <1>1, <2>3, ProperType DEF Entry
    <3>2. ops[entries[f].mutation].entry = f
      BY <2>1, <2>3 DEF EntryInv, Exists, Fences
    <3>. QED
      BY <1>5, <3>1, <3>2
  <2>. QED
    BY <2>1, <2>2, <2>3 DEF EntryInv, Exists
<1>8. AllKept
  BY KeptSame DEF AllKept, Exists
<1>. QED
  BY <1>4, <1>6, <1>7, <1>8 DEF JournalInd

-----------------------------------------------------------------------------
(* The transitions, one by one                                             *)

LEMMA OwnsFacts ==
    ASSUME JournalInd, NEW op \in Operations, Owns(op), ops[op].entry # None,
           NEW e, e = ops[op].entry
    PROVE  /\ Proper(ops[op]) /\ ops[op] \in Operation
           /\ e \in Operations /\ EntryTyped(entries[e]) /\ entries[e] # NoEntry
           /\ ops[op].action = "add" <=> e = op
           /\ entries[e].mutation = op /\ Answerable(ops[op])
           /\ Truth(e, ops[e], entries[e]) /\ Exact(entries[e])
           /\ entries[e].state \notin {"refused", "removed"}
           /\ entries[e].state = "admitted" => Len(entries[e].versions) = 1
           /\ ops[op].effect => ops[op].status \in {"queued", "delivering"}
           /\ ops[op].action = "update" => ops[op].revision \in 1..Len(entries[e].versions)
           /\ entries[e].state \in {"admitted", "uncertain", "delivered"} \/ op # e
<1>1. Proper(ops[op]) /\ entries[e].mutation = op
  BY DEF Owns, Proper
<1>2. /\ e \in Operations /\ Exists(e) /\ ops[op] \in Operation /\ EntryTyped(entries[e])
      /\ ops[op].effect => ops[op].status \in {"queued", "delivering"}
      /\ Linked(op, ops[op], entries[e]) /\ EntryInv(e)
  BY <1>1, OwnedFacts
<1>3. Fences(e, ops[op])
  BY <1>1, <1>2 DEF EntryInv, Exists
<1>4. /\ Truth(e, ops[e], entries[e]) /\ Exact(entries[e])
      /\ entries[e].state \notin {"refused", "removed"}
      /\ entries[e].state = "admitted" => Len(entries[e].versions) = 1
  BY <1>1, <1>2 DEF EntryInv, Exists
<1>5. entries[e].state \in {"admitted", "uncertain", "delivered"} \/ op # e
  <2>1. entries[e].state \in States
    BY <1>2, EntryFields
  <2>. QED
    BY <1>1, <1>3, <1>4, <2>1 DEF Truth, States, Acked, Answerable, Fences, Proper
<1>. QED
  BY <1>1, <1>2, <1>3, <1>4, <1>5 DEF Linked, Fences, Exists

LEMMA EntryUnchanged ==
    ASSUME TypeOK, NEW e \in Operations, UNCHANGED entries
    PROVE  entries' = [entries EXCEPT ![e] = entries[e]]
BY DEF TypeOK

LEMMA DeferKeeps ==
    ASSUME JournalInd, NEW op \in Operations, Defer(op)
    PROVE  JournalInd' /\ AllKept
<1>. DEFINE e == ops[op].entry
<1>1. Owns(op) /\ TypeOK /\ Proper(ops[op])
  BY DEF Defer, Owns, Proper, JournalInd
<1>2. ops[op] \in Operation
  BY <1>1, ProperType
<1>3. PICK o : Wrote(op, "queued", FALSE, o)
  BY <1>1, ReceiptWritten DEF Defer, Statuses
<1>4. ops[op].status = "delivering" /\ ~Completing(op, "queued")
  BY DEF Defer, Allowed, Completing
<1>5. o.status = "queued" /\ o.entry = e /\ o.effect = ops[op].effect /\ o.send = ops[op].send
  BY <1>2, <1>3, <1>4 DEF Owing, Operation, Wrote
<1>6. CASE e = None
  BY <1>1, <1>3, <1>5, <1>6, ReorderKeeps DEF Defer
<1>7. CASE e # None
  <2>1. /\ entries[e].mutation = op /\ Answerable(ops[op]) /\ e \in Operations
        /\ Truth(e, ops[e], entries[e]) /\ Exact(entries[e]) /\ EntryTyped(entries[e])
        /\ entries[e].state \notin {"refused", "removed"}
        /\ entries[e].state = "admitted" => Len(entries[e].versions) = 1
        /\ entries[e].state \in {"admitted", "uncertain", "delivered"} \/ op # e
    BY <1>1, <1>7, OwnsFacts
  <2>2. o.effect /\ Answerable(o) /\ (Owed(o) => entries[e].mutation = op)
    BY <1>4, <1>5, <2>1 DEF Answerable
  <2>3. Truth(e, IF op = e THEN o ELSE ops[e], entries[e])
    <3>1. CASE op = e
      BY <1>1, <1>4, <1>5, <2>1, <2>2, <3>1 DEF Truth, Settled, NoOp, RejectedOp
    <3>. QED
      BY <2>1, <3>1
  <2>4. entries' = [entries EXCEPT ![e] = entries[e]]
    BY <1>1, <2>1, EntryUnchanged DEF Defer
  <2>. QED
    BY <1>1, <1>3, <1>5, <1>7, <2>1, <2>2, <2>3, <2>4, KeptSame, ReceiptAdvances
<1>. QED
  BY <1>6, <1>7

(* A transition that leaves its entry's history and owner alone: what is   *)
(* left to show is about its fence, its state and the add's receipt.       *)
Progressed(x, y) ==
    /\ EntryTyped(y)
    /\ y.versions = x.versions /\ y.binding = x.binding /\ y.proof = x.proof
    /\ x.submission # None => y.submission = x.submission
    /\ x.proof # None => y.state = x.state /\ y.dispatched = x.dispatched /\ y.turn = x.turn
    /\ x.proof = None => y.state \notin {"delivered", "admitted"} \/ y.state = x.state

LEMMA ProgressedHistory ==
    ASSUME NEW x, NEW y, EntryTyped(x), Exact(x), Progressed(x, y),
           x.state = "admitted" => Len(x.versions) = 1
    PROVE  /\ EntryTyped(y) /\ Exact(y) /\ Kept(x, y) /\ Len(y.versions) = Len(x.versions)
           /\ y.state = "admitted" => Len(y.versions) = 1
           /\ y.state = "delivered" <=> x.state = "delivered"
BY DEF Progressed, Exact, Kept

LEMMA OwnerProgresses ==
    ASSUME JournalInd, NEW op \in Operations, Owns(op), ops[op].entry # None,
           NEW e, e = ops[op].entry, NEW y, Progressed(entries[e], y),
           NEW status \in Statuses, NEW done \in BOOLEAN, SetReceipt(op, status, done),
           entries' = [entries EXCEPT ![e] = y],
           y.mutation \in {None, op}, y.mutation = op => y.state \notin {"refused", "removed"},
           LET owing == Owing(op, status, done) IN
           /\ owing => status \in {"queued", "delivering"}
           /\ owing \/ status \in {"delivering", "uncertain"} => y.mutation = op
           /\ y.mutation = op =>
                 (owing /\ status \in {"queued", "delivering"}) \/ status = "uncertain"
           /\ op = e =>
                 /\ status # "delivered"
                 /\ y.state \in {"admitted"} => owing /\ status \in {"queued", "delivering"}
                 /\ (\/ y.state \in {"queued", "dispatching", "withdrawn"}
                     \/ y.mutation = None /\ y.state \notin Settled)
                       => status = AckStatus(op) /\ ~owing
                 /\ y.state = "refused" <=> status = "failed"
           /\ op # e => y.state \notin {"admitted", "refused"} \/ y.state = entries[e].state
    PROVE  JournalInd' /\ AllKept
<1>. DEFINE x == entries[e]
            owing == Owing(op, status, done)
<1>1. TypeOK /\ Proper(ops[op])
  BY DEF Owns, Proper, JournalInd
<1>2. PICK o : Wrote(op, status, done, o)
  BY <1>1, ReceiptWritten
<1>3. o.status = status /\ o.entry = e /\ o.effect = owing /\ o.send = ops[op].send
      /\ o \in Operation
  BY <1>2 DEF Wrote
<1>. HIDE DEF owing
<1>4. /\ EntryTyped(x) /\ x.mutation = op /\ Answerable(ops[op])
      /\ Truth(e, ops[e], x) /\ Exact(x)
      /\ x.state \notin {"refused", "removed"}
      /\ x.state = "admitted" => Len(x.versions) = 1
      /\ x.state \in {"admitted", "uncertain", "delivered"} \/ op # e
  BY <1>1, OwnsFacts
<1>5. /\ EntryTyped(y) /\ Exact(y) /\ Kept(x, y) /\ Len(y.versions) = Len(x.versions)
      /\ y.state = "admitted" => Len(y.versions) = 1
      /\ y.state = "delivered" <=> x.state = "delivered"
  BY <1>4, ProgressedHistory
<1>6. Proper(o)
  BY <1>3 DEF Proper, NoOp, RejectedOp, Operation, Statuses
<1>7. Truth(e, IF op = e THEN o ELSE ops[e], y)
  <2>1. CASE op = e
    <3>1. ops[op].status # "delivered"
      BY <1>4 DEF Answerable
    <3>2. y.state # "delivered"
      BY <1>4, <1>5, <2>1, <3>1, <1>1 DEF Truth, Proper
    <3>. QED
      BY <1>3, <1>6, <2>1, <3>2 DEF Truth, Proper, Acked, AckStatus, Settled, owing
  <2>2. CASE op # e
    <3>1. x.state \in States /\ y.state \in States
      BY <1>4, <1>5, EntryFields
    <3>2. x.state \notin Settled => Acked(ops[e]) /\ ops[e] # NoOp
      BY <1>4, <2>2 DEF Truth
    <3>. QED
      BY <1>4, <1>5, <2>2, <3>1, <3>2 DEF Truth, Settled, States, Acked
  <2>. QED
    BY <2>1, <2>2
<1>8. o.effect => o.status \in {"queued", "delivering"}
  BY <1>3 DEF owing
<1>9. (Owed(o) => y.mutation = op) /\ (y.mutation = op => Answerable(o))
  BY <1>3 DEF Owed, Answerable, owing
<1>10. /\ y.mutation \in {None, x.mutation} /\ (x.mutation \notin {None, op} => y.mutation = x.mutation)
       /\ y.state \in {"refused", "removed"} => y.mutation = None
  BY <1>4
<1>. QED
  BY <1>1, <1>2, <1>5, <1>7, <1>8, <1>9, <1>10, ReceiptAdvances

LEMMA MarkedProgresses ==
    ASSUME NEW x, EntryTyped(x), NEW state \in {"withdrawn", "uncertain"}
    PROVE  /\ Progressed(x, Marked(x, state))
           /\ Marked(x, state).mutation = x.mutation
           /\ Marked(x, state).state = IF x.proof = None THEN state ELSE x.state
BY EntryFields DEF EntryTyped, Entry, Progressed, Marked, States

LEMMA MarkWithdrawnKeeps ==
    ASSUME JournalInd, NEW op \in Operations, MarkWithdrawn(op)
    PROVE  JournalInd' /\ AllKept
<1>. DEFINE e == ops[op].entry
            y == Marked(entries[e], "withdrawn")
<1>1. Owns(op) /\ Proper(ops[op]) /\ TypeOK /\ OpInv(op) /\ ops[op].action = "send-now"
  BY DEF MarkWithdrawn, CanMarkWithdrawn, Owns, Proper, JournalInd
<1>2. e # None
  BY <1>1 DEF OpInv
<1>3. /\ EntryTyped(entries[e]) /\ Exact(entries[e]) /\ op # e
      /\ entries[e].mutation = op /\ Answerable(ops[op]) /\ ops[op] \in Operation
      /\ entries[e].state \notin {"refused", "removed"}
      /\ ops[op].effect => ops[op].status \in {"queued", "delivering"}
  BY <1>1, <1>2, OwnsFacts
<1>4. Progressed(entries[e], y) /\ y.mutation = op
      /\ y.state = (IF entries[e].proof = None THEN "withdrawn" ELSE entries[e].state)
  BY <1>3, MarkedProgresses
<1>5. ops[op].status \in {"queued", "delivering"}
  BY DEF MarkWithdrawn, CanMarkWithdrawn, Allowed
<1>6. Owing(op, "delivering", FALSE)
  BY <1>3, <1>5 DEF Owing, Completing, Answerable
<1>7. SetReceipt(op, "delivering", FALSE) /\ entries' = [entries EXCEPT ![e] = y]
  BY DEF MarkWithdrawn, SetEntry
<1>. HIDE DEF e, y
<1>. QED
  BY <1>1, <1>2, <1>3, <1>4, <1>6, <1>7, OwnerProgresses DEF Statuses, e

LEMMA MarkUncertainKeeps ==
    ASSUME JournalInd, NEW op \in Operations, MarkUncertain(op)
    PROVE  JournalInd' /\ AllKept
<1>. DEFINE e == ops[op].entry
            y == Marked(entries[e], "uncertain")
<1>1. Owns(op) /\ Proper(ops[op]) /\ TypeOK
  BY DEF MarkUncertain, CanMarkUncertain, Owns, Proper, JournalInd
<1>2. ops[op].status \in {"queued", "delivering"}
  BY DEF MarkUncertain, CanMarkUncertain, Allowed
<1>3. ~Owing(op, "uncertain", FALSE)
  BY <1>2 DEF Owing, Completing
<1>4. SetReceipt(op, "uncertain", FALSE)
  BY DEF MarkUncertain
<1>5. CASE e = None
  <2>1. PICK o : Wrote(op, "uncertain", FALSE, o)
    BY <1>1, <1>4, ReceiptWritten DEF Statuses
  <2>2. ~o.effect
    BY <1>3, <2>1 DEF Wrote
  <2>. QED
    BY <1>1, <1>5, <2>1, <2>2, ReorderKeeps DEF MarkUncertain
<1>6. CASE e # None
  <2>1. /\ EntryTyped(entries[e]) /\ Exact(entries[e])
        /\ entries[e].mutation = op /\ Truth(e, ops[e], entries[e]) /\ Answerable(ops[op])
        /\ entries[e].state \notin {"refused", "removed"}
    BY <1>1, <1>6, OwnsFacts
  <2>2. Progressed(entries[e], y) /\ y.mutation = op
        /\ y.state = (IF entries[e].proof = None THEN "uncertain" ELSE entries[e].state)
    BY <2>1, MarkedProgresses
  <2>3. entries' = [entries EXCEPT ![e] = y]
    BY <1>6 DEF MarkUncertain, SetEntry
  <2>4. y.state \in {"uncertain", "delivered"}
    BY <2>1, <2>2 DEF Exact
  <2>. HIDE DEF e, y
  <2>. QED
    BY <1>1, <1>3, <1>4, <1>6, <2>1, <2>2, <2>3, <2>4, OwnerProgresses DEF Statuses, e, Settled
<1>. QED
  BY <1>5, <1>6

LEMMA WithdrawSeatKeeps ==
    ASSUME JournalInd, NEW op \in Operations, WithdrawSeat(op)
    PROVE  JournalInd' /\ AllKept
<1>. DEFINE y == [entries[op] EXCEPT !.state = "refused", !.mutation = None]
<1>1. /\ Owns(op) /\ Proper(ops[op]) /\ TypeOK /\ OpInv(op) /\ ops[op].action = "add"
      /\ ops[op].status = "queued" /\ entries[op].proof = None
  BY DEF WithdrawSeat, CanWithdrawSeat, Owns, Proper, JournalInd
<1>2. ops[op].entry # None
  BY <1>1 DEF OpInv
<1>3. ops[op].entry = op /\ EntryTyped(entries[op]) /\ op \in Operations
  BY <1>1, <1>2, OwnsFacts
<1>4. ~Owing(op, "failed", FALSE)
  BY <1>1 DEF Owing, Completing
<1>5. Progressed(entries[op], y) /\ y.mutation = None /\ y.state = "refused"
  BY <1>1, <1>3, EntryFields DEF EntryTyped, Entry, Progressed, States
<1>6. SetReceipt(op, "failed", FALSE) /\ entries' = [entries EXCEPT ![op] = y]
  BY DEF WithdrawSeat, SetEntry
<1>. HIDE DEF y
<1>. QED
  BY <1>1, <1>2, <1>3, <1>4, <1>5, <1>6, OwnerProgresses DEF Statuses, Settled

LEMMA RefuseKeeps ==
    ASSUME JournalInd, NEW op \in Operations, Refuse(op)
    PROVE  JournalInd' /\ AllKept
<1>. DEFINE e == ops[op].entry
            x == entries[e]
            y == Refused(op, x)
<1>1. Owns(op) /\ Proper(ops[op]) /\ TypeOK
  BY DEF Refuse, CanRefuse, Owns, Proper, JournalInd
<1>2. ops[op].status \in {"queued", "delivering"}
  BY DEF Refuse, CanRefuse, Allowed
<1>3. ~Owing(op, "failed", FALSE)
  BY <1>2 DEF Owing, Completing
<1>4. SetReceipt(op, "failed", FALSE)
  BY DEF Refuse
<1>5. CASE e = None
  <2>1. PICK o : Wrote(op, "failed", FALSE, o)
    BY <1>1, <1>4, ReceiptWritten DEF Statuses
  <2>2. ~o.effect
    BY <1>3, <2>1 DEF Wrote
  <2>. QED
    BY <1>1, <1>5, <2>1, <2>2, ReorderKeeps DEF Refuse
<1>6. CASE e # None
  <2>1. /\ EntryTyped(x) /\ Exact(x) /\ Truth(e, ops[e], x) /\ Answerable(ops[op])
        /\ x.state \notin {"refused", "removed"} /\ x.mutation = op
        /\ ops[op].action = "update" => ops[op].revision \in 1..Len(x.versions)
        /\ ops[op].action = "add" <=> e = op
        /\ x.state \in {"admitted", "uncertain", "delivered"} \/ op # e
    BY <1>1, <1>6, OwnsFacts
  <2>. DEFINE state == IF ops[op].action = "add" /\ x.proof = None THEN "refused" ELSE x.state
              revision == IF ops[op].action = "update" /\ x.proof = None
                          THEN ops[op].revision ELSE x.revision
  <2>2. /\ x \in Entry /\ x.revision \in 1..MaxRevision /\ x.versions \in Seq(Version)
        /\ Len(x.versions) \in Nat /\ Len(x.versions) \in x.revision..MaxRevision /\ x.state \in States
    BY <2>1, EntryFields DEF EntryTyped
  <2>3. state \in States /\ revision \in 1..MaxRevision /\ Len(x.versions) \in revision..MaxRevision
    BY <2>1, <2>2 DEF States
  <2>4. y = [x EXCEPT !.mutation = None, !.state = state, !.revision = revision]
    BY DEF Refused
  <2>5. state = "refused" <=> op = e
    BY <2>1, <1>1 DEF Exact, Truth, Proper, Answerable
  <2>. HIDE DEF state, revision, y
  <2>6. EntryTyped(y) /\ y.mutation = None /\ y.state = state /\ y.versions = x.versions
        /\ y.binding = x.binding /\ y.proof = x.proof /\ y.submission = x.submission
        /\ y.dispatched = x.dispatched /\ y.turn = x.turn
    BY <2>2, <2>3, <2>4 DEF Entry, EntryTyped
  <2>7. Progressed(x, y)
    BY <2>6 DEF Progressed, state
  <2>8. entries' = [entries EXCEPT ![e] = y]
    BY <1>6 DEF Refuse, SetEntry, y
  <2>9. op = e => y.state = "refused"
    BY <2>5, <2>6
  <2>10. op # e => y.state = x.state
    BY <2>1, <2>6 DEF state
  <2>. HIDE DEF e
  <2>. QED
    BY <1>1, <1>3, <1>4, <1>6, <2>1, <2>6, <2>7, <2>8, <2>9, <2>10, OwnerProgresses
    DEF Statuses, Settled, e
<1>. QED
  BY <1>5, <1>6

(* An acknowledgement of any kind lifts the fence and ends the effect.     *)
LEMMA AcknowledgedKeeps ==
    ASSUME JournalInd, NEW op \in Operations, Owns(op), ops[op].entry # None,
           NEW e, e = ops[op].entry, NEW y, Progressed(entries[e], y),
           SetReceipt(op, AckStatus(op), TRUE), entries' = [entries EXCEPT ![e] = y],
           y.mutation = None, y.state \notin {"admitted", "refused"},
           op = e => y.state # "removed"
    PROVE  JournalInd' /\ AllKept
<1>1. AckStatus(op) \in Statuses /\ AckStatus(op) \in {"queued", "applied"}
  BY DEF AckStatus, Statuses
<1>2. ~Owing(op, AckStatus(op), TRUE)
  BY DEF Owing
<1>. QED
  BY <1>1, <1>2, OwnerProgresses

LEMMA QueuedProgresses ==
    ASSUME NEW x, EntryTyped(x), Exact(x), x.state \notin {"refused", "removed"},
           NEW s \in Submissions, x.submission \in {None, s}
    PROVE  /\ Progressed(x, Queued(x, s)) /\ Queued(x, s).mutation = None
           /\ Queued(x, s).state \in {"queued", "delivered"}
<1>. DEFINE state == IF x.proof = None THEN "queued" ELSE x.state
            y == [x EXCEPT !.submission = s, !.mutation = None, !.state = state]
<1>1. x \in Entry /\ Len(x.versions) \in x.revision..MaxRevision /\ x.state \in States
  BY EntryFields DEF EntryTyped
<1>2. state \in States /\ state \in {"queued", "delivered"}
  BY <1>1 DEF States, Exact
<1>3. Queued(x, s) = y
  BY DEF Queued
<1>. HIDE DEF state
<1>4. /\ EntryTyped(y) /\ y.mutation = None /\ y.state = state /\ y.versions = x.versions
      /\ y.binding = x.binding /\ y.proof = x.proof /\ y.submission = s
      /\ y.dispatched = x.dispatched /\ y.turn = x.turn
  BY <1>1, <1>2 DEF EntryTyped, Entry
<1>. HIDE DEF y
<1>. QED
  BY <1>2, <1>3, <1>4 DEF Progressed, state

LEMMA AcknowledgeQueuedKeeps ==
    ASSUME JournalInd, NEW op \in Operations, NEW s \in Submissions,
           AcknowledgeQueued(op, s) \/ ObserveQueued(op, s)
    PROVE  JournalInd' /\ AllKept
<1>. DEFINE e == ops[op].entry
            y == Queued(entries[e], s)
<1>1. Owns(op) /\ Proper(ops[op]) /\ OpInv(op) /\ AcceptsSubmission(op, s)
  BY DEF AcknowledgeQueued, ObserveQueued, CanAcknowledge, CanObserveQueued, Owns, Proper, JournalInd
<1>2. e # None /\ entries[e].submission \in {None, s}
  BY <1>1 DEF OpInv, AcceptsSubmission
<1>3. EntryTyped(entries[e]) /\ Exact(entries[e]) /\ entries[e].state \notin {"refused", "removed"}
  BY <1>1, <1>2, OwnsFacts
<1>4. Progressed(entries[e], y) /\ y.mutation = None /\ y.state \in {"queued", "delivered"}
  BY <1>2, <1>3, QueuedProgresses
<1>5. SetReceipt(op, AckStatus(op), TRUE) /\ entries' = [entries EXCEPT ![e] = y]
  BY DEF AcknowledgeQueued, ObserveQueued, SetEntry
<1>. HIDE DEF e, y
<1>. QED
  BY <1>1, <1>2, <1>4, <1>5, AcknowledgedKeeps DEF e

LEMMA DispatchedProgresses ==
    ASSUME NEW x, EntryTyped(x), Exact(x), x.state \notin {"refused", "removed"},
           NEW t \in Turns
    PROVE  /\ Progressed(x, Dispatched(x, t)) /\ Dispatched(x, t).mutation = None
           /\ Dispatched(x, t).state \in {"dispatching", "delivered"}
<1>. DEFINE state == IF x.proof = None THEN "dispatching" ELSE x.state
            dispatched == IF x.dispatched = 0 THEN x.revision ELSE x.dispatched
            turn == IF x.turn = None THEN t ELSE x.turn
            y == [x EXCEPT !.mutation = None, !.state = state, !.dispatched = dispatched,
                           !.turn = turn]
<1>1. x \in Entry /\ Len(x.versions) \in x.revision..MaxRevision /\ x.state \in States
      /\ x.revision \in 1..MaxRevision /\ x.dispatched \in 0..MaxRevision
      /\ x.turn \in Turns \cup {None} /\ x.proof \in Proof \cup {None}
  BY EntryFields DEF EntryTyped
<1>2. state \in States /\ state \in {"dispatching", "delivered"}
      /\ dispatched \in 0..MaxRevision /\ turn \in Turns \cup {None}
  BY <1>1 DEF States, Exact
<1>3. Dispatched(x, t) = y
  BY DEF Dispatched
<1>4. x.proof # None => dispatched = x.dispatched /\ turn = x.turn
  <2>. SUFFICES ASSUME x.proof # None
                PROVE  x.dispatched # 0 /\ x.turn # None
    OBVIOUS
  <2>1. x.dispatched = x.proof.revision /\ x.turn = x.proof.turn
    BY DEF Exact
  <2>. QED
    BY <1>1, <2>1 DEF Proof
<1>. HIDE DEF state, dispatched, turn
<1>5. /\ EntryTyped(y) /\ y.mutation = None /\ y.state = state /\ y.versions = x.versions
      /\ y.binding = x.binding /\ y.proof = x.proof /\ y.submission = x.submission
      /\ y.dispatched = dispatched /\ y.turn = turn
  BY <1>1, <1>2 DEF EntryTyped, Entry
<1>. HIDE DEF y
<1>. QED
  BY <1>2, <1>3, <1>4, <1>5 DEF Progressed, state

LEMMA AcknowledgeDispatchedKeeps ==
    ASSUME JournalInd, NEW op \in Operations, NEW turn \in Turns, AcknowledgeDispatched(op, turn)
    PROVE  JournalInd' /\ AllKept
<1>. DEFINE e == ops[op].entry
            y == Dispatched(entries[e], turn)
<1>1. Owns(op) /\ Proper(ops[op]) /\ OpInv(op) /\ Dispatches(op)
  BY DEF AcknowledgeDispatched, CanAcknowledge, Owns, Proper, JournalInd
<1>2. e # None
  BY <1>1 DEF OpInv, Dispatches
<1>3. EntryTyped(entries[e]) /\ Exact(entries[e]) /\ entries[e].state \notin {"refused", "removed"}
  BY <1>1, <1>2, OwnsFacts
<1>4. Progressed(entries[e], y) /\ y.mutation = None /\ y.state \in {"dispatching", "delivered"}
  BY <1>3, DispatchedProgresses
<1>5. SetReceipt(op, AckStatus(op), TRUE) /\ entries' = [entries EXCEPT ![e] = y]
  BY DEF AcknowledgeDispatched, SetEntry
<1>. HIDE DEF e, y
<1>. QED
  BY <1>1, <1>2, <1>4, <1>5, AcknowledgedKeeps DEF e

LEMMA AcknowledgeDeletedKeeps ==
    ASSUME JournalInd, NEW op \in Operations, NEW deleted \in BOOLEAN,
           AcknowledgeDeleted(op, deleted)
    PROVE  JournalInd' /\ AllKept
<1>. DEFINE e == ops[op].entry
            x == entries[e]
            y == Deleted(x, deleted)
<1>1. Owns(op) /\ Proper(ops[op]) /\ OpInv(op) /\ ops[op].action = "delete"
  BY DEF AcknowledgeDeleted, CanAcknowledge, Owns, Proper, JournalInd
<1>2. e # None
  BY <1>1 DEF OpInv
<1>3. EntryTyped(x) /\ Exact(x) /\ x.state \notin {"refused", "removed"} /\ op # e
  BY <1>1, <1>2, OwnsFacts
<1>4. Progressed(x, y) /\ y.mutation = None /\ y.state \in {"removed", "uncertain", "delivered"}
  <2>. DEFINE state == IF x.proof # None THEN x.state ELSE IF deleted THEN "removed" ELSE "uncertain"
  <2>1. x \in Entry /\ Len(x.versions) \in x.revision..MaxRevision /\ x.state \in States
    BY <1>3, EntryFields DEF EntryTyped
  <2>2. state \in States /\ state \in {"removed", "uncertain", "delivered"}
    BY <1>3, <2>1 DEF States, Exact
  <2>3. y = [x EXCEPT !.mutation = None, !.state = state]
    BY DEF Deleted
  <2>. HIDE DEF state, y
  <2>4. /\ EntryTyped(y) /\ y.mutation = None /\ y.state = state /\ y.versions = x.versions
        /\ y.binding = x.binding /\ y.proof = x.proof /\ y.submission = x.submission
        /\ y.dispatched = x.dispatched /\ y.turn = x.turn
    BY <2>1, <2>2, <2>3 DEF EntryTyped, Entry
  <2>. QED
    BY <2>2, <2>4 DEF Progressed, state
<1>5. SetReceipt(op, AckStatus(op), TRUE) /\ entries' = [entries EXCEPT ![e] = y]
  BY DEF AcknowledgeDeleted, SetEntry
<1>. HIDE DEF e, y
<1>. QED
  BY <1>1, <1>2, <1>3, <1>4, <1>5, AcknowledgedKeeps DEF e

LEMMA AcknowledgeReorderKeeps ==
    ASSUME JournalInd, NEW op \in Operations, AcknowledgeReorder(op)
    PROVE  JournalInd' /\ AllKept
<1>1. Owns(op) /\ Proper(ops[op]) /\ TypeOK /\ OpInv(op) /\ ops[op].action = "reorder"
  BY DEF AcknowledgeReorder, CanAcknowledge, Owns, Proper, JournalInd
<1>2. ops[op].entry = None
  BY <1>1 DEF OpInv
<1>3. PICK o : Wrote(op, AckStatus(op), TRUE, o)
  BY <1>1, ReceiptWritten DEF AcknowledgeReorder, AckStatus, Statuses
<1>4. ~o.effect
  BY <1>3 DEF Wrote, Owing
<1>. QED
  BY <1>1, <1>2, <1>3, <1>4, ReorderKeeps DEF AcknowledgeReorder

(* The discard of a removed entry's add, and canonical proof, may come     *)
(* from anybody: the entry is the operation's own.                         *)
LEMMA OwnEntry ==
    ASSUME JournalInd, NEW e \in Operations, Retained(e), Exists(e)
    PROVE  /\ Proper(ops[e]) /\ ops[e] \in Operation /\ ops[e].entry = e
           /\ EntryTyped(entries[e]) /\ EntryInv(e) /\ OpInv(e) /\ TypeOK
           /\ Linked(e, ops[e], entries[e])
<1>1. EntryInv(e) /\ OpInv(e) /\ TypeOK
  BY DEF JournalInd
<1>2. Proper(ops[e]) /\ ops[e].entry = e
  BY <1>1 DEF EntryInv, Exists, Retained, Truth, Proper
<1>3. ops[e] \in Operation /\ EntryTyped(entries[e])
  BY <1>1, <1>2, ProperType DEF EntryTyped
<1>. QED
  BY <1>1, <1>2, <1>3 DEF OpInv

LEMMA RemoveKeeps ==
    ASSUME JournalInd, NEW e \in Operations, Remove(e)
    PROVE  JournalInd' /\ AllKept
<1>1. /\ Retained(e) /\ Exists(e) /\ entries[e].state = "removed" /\ entries[e].mutation = None
      /\ UNCHANGED entries
  BY DEF Remove, CanRemove
<1>2. /\ Proper(ops[e]) /\ ops[e] \in Operation /\ ops[e].entry = e
      /\ EntryTyped(entries[e]) /\ EntryInv(e) /\ TypeOK /\ Linked(e, ops[e], entries[e])
  BY <1>1, OwnEntry
<1>3. PICK o : Wrote(e, "failed", FALSE, o)
  BY <1>2, ReceiptWritten DEF Remove, Statuses
<1>4. ~ops[e].effect
  BY <1>1, <1>2 DEF Linked, Owed
<1>5. o.status = "failed" /\ ~o.effect /\ o.entry = e /\ o \in Operation
  BY <1>2, <1>3, <1>4 DEF Wrote, Owing
<1>6. Truth(e, o, entries[e])
  BY <1>1, <1>5 DEF Truth, Settled, NoOp, RejectedOp, Operation, Statuses
<1>7. entries' = [entries EXCEPT ![e] = entries[e]]
  BY <1>1, <1>2, EntryUnchanged
<1>8. Exact(entries[e]) /\ ~Owed(o)
  BY <1>1, <1>2, <1>5 DEF EntryInv, Exists, Owed
<1>. QED
  BY <1>1, <1>2, <1>3, <1>5, <1>6, <1>7, <1>8, KeptSame, ReceiptAdvances

LEMMA ProvenAdvances ==
    ASSUME NEW e \in Operations, NEW x, EntryTyped(x), Exact(x), NEW proof \in Proof,
           Proves(x, proof), NEW y, y = Proven(e, x, proof)
    PROVE  /\ EntryTyped(y) /\ Exact(y) /\ Kept(x, y) /\ y.versions = x.versions
           /\ y.state = "delivered"
           /\ y.mutation = IF x.mutation = e THEN None ELSE x.mutation
<1>. DEFINE mutation == IF x.mutation = e THEN None ELSE x.mutation
<1>1. x \in Entry /\ Len(x.versions) \in x.revision..MaxRevision
      /\ x.mutation \in Operations \cup {None} /\ x.versions \in Seq(Version)
  BY EntryFields DEF EntryTyped
<1>2. mutation \in Operations \cup {None}
  BY <1>1
<1>. DEFINE r == proof.revision
            t == proof.turn
<1>3. r \in 0..MaxRevision /\ t \in Turns /\ proof # None
  BY DEF Proof
<1>4. y = [x EXCEPT !.proof = proof, !.dispatched = r, !.turn = t,
                    !.state = "delivered", !.mutation = mutation]
  BY DEF Proven
<1>. HIDE DEF mutation, r, t
<1>5. /\ EntryTyped(y) /\ y.mutation = mutation /\ y.state = "delivered"
      /\ y.versions = x.versions /\ y.binding = x.binding /\ y.proof = proof
      /\ y.submission = x.submission /\ y.dispatched = r /\ y.turn = t
  BY <1>1, <1>2, <1>3, <1>4 DEF EntryTyped, Entry, States
<1>6. proof.revision \in 1..Len(x.versions)
      /\ x.versions[proof.revision].input = proof.input /\ x.proof \in {None, proof}
  BY <1>1 DEF Proves
<1>7. Exact(y)
  BY <1>3, <1>5, <1>6 DEF Exact, r, t
<1>8. Kept(x, y)
  BY <1>5, <1>6 DEF Kept
<1>. QED
  BY <1>5, <1>7, <1>8 DEF mutation

LEMMA ProveKeeps ==
    ASSUME JournalInd, NEW e \in Operations, NEW proof \in Proof, Prove(e, proof)
    PROVE  JournalInd' /\ AllKept
<1>. DEFINE x == entries[e]
            y == Proven(e, x, proof)
<1>1. Retained(e) /\ Exists(e) /\ Proves(x, proof)
  BY DEF Prove, CanProve
<1>2. /\ Proper(ops[e]) /\ ops[e] \in Operation /\ ops[e].entry = e
      /\ EntryTyped(x) /\ EntryInv(e) /\ TypeOK
  BY <1>1, OwnEntry
<1>3. PICK o : Wrote(e, "delivered", TRUE, o)
  BY <1>2, ReceiptWritten DEF Prove, Statuses
<1>4. o.status = "delivered" /\ ~o.effect /\ o.entry = e /\ o \in Operation /\ ~Owed(o)
  BY <1>2, <1>3 DEF Wrote, Owing, Owed
<1>5. Exact(x) /\ (x.mutation # None => x.mutation \in Operations)
  BY <1>1, <1>2, EntryFields DEF EntryInv, Exists
<1>6. /\ EntryTyped(y) /\ Exact(y) /\ Kept(x, y) /\ y.versions = x.versions
      /\ y.state = "delivered" /\ y.mutation = IF x.mutation = e THEN None ELSE x.mutation
  BY <1>1, <1>2, <1>5, ProvenAdvances
<1>7. entries' = [entries EXCEPT ![e] = y]
  BY DEF Prove, SetEntry
<1>. HIDE DEF y
<1>8. Truth(e, o, y)
  BY <1>4, <1>6 DEF Truth, Settled, NoOp, RejectedOp, Operation, Statuses
<1>. QED
  BY <1>2, <1>3, <1>4, <1>5, <1>6, <1>7, <1>8, ReceiptAdvances

(* Prepare alone writes a payload; it rewrites none and moves no entry     *)
(* that has one.                                                           *)
LEMMA PreparedAdvances ==
    ASSUME NEW x, EntryTyped(x), Exact(x), x.state = "admitted" => Len(x.versions) = 1,
           NEW input \in Inputs, NEW b \in Bindings, Current(x).input \in {None, input},
           b # x.binding => x.state = "admitted" /\ Current(x).input = None,
           NEW y, y = Prepared(x, input, b)
    PROVE  /\ EntryTyped(y) /\ Exact(y) /\ Kept(x, y)
           /\ Len(y.versions) = Len(x.versions)
           /\ y.state = x.state /\ y.mutation = x.mutation
<1>. DEFINE r == x.revision
            versions == [x.versions EXCEPT ![r].input = input]
<1>1. /\ x \in Entry /\ Len(x.versions) \in x.revision..MaxRevision
      /\ x.versions \in Seq(Version) /\ r \in 1..Len(x.versions) /\ Len(x.versions) \in Nat
  BY EntryFields DEF EntryTyped
<1>2. \A i \in 1..Len(x.versions) : x.versions[i] \in Version
  BY <1>1
<1>. DEFINE v == [op |-> x.versions[r].op, input |-> input]
<1>3. v \in Version
  BY <1>1, <1>2 DEF Version
<1>4. [x.versions[r] EXCEPT !.input = input] = v
  BY <1>1, <1>2 DEF Version
<1>5. versions = [x.versions EXCEPT ![r] = v]
  BY <1>4
<1>. HIDE DEF v, r
<1>6. versions \in Seq(Version) /\ Len(versions) = Len(x.versions)
      /\ DOMAIN versions = DOMAIN x.versions
      /\ \A i \in 1..Len(x.versions) : versions[i] = IF i = r THEN v ELSE x.versions[i]
  BY <1>1, <1>3, <1>5
<1>7. y = [x EXCEPT !.binding = b, !.versions = versions]
  BY DEF Prepared, r
<1>. HIDE DEF versions
<1>8. /\ EntryTyped(y) /\ y.mutation = x.mutation /\ y.state = x.state
      /\ y.versions = versions /\ y.binding = b /\ y.proof = x.proof
      /\ y.submission = x.submission /\ y.dispatched = x.dispatched /\ y.turn = x.turn
  BY <1>1, <1>6, <1>7 DEF EntryTyped, Entry
<1>9. x.versions[r].input \in {None, input}
  BY DEF Current, r
<1>10. x.proof # None => x.proof \in Proof
  BY EntryFields
<1>11. Exact(y)
  <2>1. ASSUME x.proof # None
        PROVE  versions[x.proof.revision].input = x.proof.input
    <3>1. x.proof.revision \in 1..Len(x.versions) /\ x.proof.input # None
          /\ x.versions[x.proof.revision].input = x.proof.input
      BY <1>10, <2>1 DEF Exact, Proof
    <3>. QED
      BY <1>6, <1>9, <3>1 DEF v
  <2>. QED
    BY <1>6, <1>8, <2>1 DEF Exact
<1>12. Kept(x, y)
  <2>1. DOMAIN x.versions = 1..Len(x.versions)
    BY <1>1
  <2>2. ASSUME NEW i \in DOMAIN x.versions
        PROVE  /\ i \in DOMAIN y.versions /\ x.versions[i].op = y.versions[i].op
               /\ x.versions[i].input # None => y.versions[i].input = x.versions[i].input
    BY <1>6, <1>8, <1>9, <2>1 DEF v
  <2>3. (\E i \in DOMAIN x.versions : x.versions[i].input # None) => b = x.binding
    BY <1>1, <2>1 DEF Current, r
  <2>. QED
    BY <1>8, <2>2, <2>3 DEF Kept
<1>. QED
  BY <1>6, <1>8, <1>11, <1>12

LEMMA PrepareKeeps ==
    ASSUME JournalInd, NEW op \in Operations, NEW input \in Inputs, NEW b \in Bindings,
           Prepare(op, input, b)
    PROVE  JournalInd' /\ AllKept
<1>. DEFINE e == ops[op].entry
            x == entries[e]
            y == Prepared(x, input, b)
<1>1. Owns(op) /\ Proper(ops[op]) /\ TypeOK /\ ops[op].status = "queued"
  BY DEF Prepare, CanPrepare, Owns, Proper, JournalInd
<1>2. ops[op] \in Operation
  BY <1>1, ProperType
<1>3. PICK o : Wrote(op, "delivering", FALSE, o)
  BY <1>1, ReceiptWritten DEF Prepare, Statuses
<1>4. ~Completing(op, "delivering")
  BY DEF Completing
<1>5. o.status = "delivering" /\ o.entry = e /\ o.effect = ops[op].effect /\ o \in Operation
  BY <1>2, <1>3, <1>4 DEF Owing, Operation, Wrote
<1>6. CASE e = None
  BY <1>1, <1>3, <1>5, <1>6, ReorderKeeps DEF Prepare
<1>7. CASE e # None
  <2>1. /\ x.mutation = op /\ Answerable(ops[op]) /\ EntryTyped(x) /\ Exact(x)
        /\ Truth(e, ops[e], x) /\ x.state \notin {"refused", "removed"}
        /\ x.state = "admitted" => Len(x.versions) = 1
        /\ x.state \in {"admitted", "uncertain", "delivered"} \/ op # e
    BY <1>1, <1>7, OwnsFacts
  <2>2. Current(x).input \in {None, input}
        /\ (b # x.binding => x.state = "admitted" /\ Current(x).input = None)
    BY <1>7 DEF Prepare, CanPrepare
  <2>3. /\ EntryTyped(y) /\ Exact(y) /\ Kept(x, y) /\ Len(y.versions) = Len(x.versions)
        /\ y.state = x.state /\ y.mutation = x.mutation
    BY <2>1, <2>2, PreparedAdvances
  <2>4. o.effect
    BY <1>1, <1>5, <2>1 DEF Answerable
  <2>5. entries' = [entries EXCEPT ![e] = y]
    BY <1>7 DEF Prepare, SetEntry
  <2>. HIDE DEF y
  <2>6. Truth(e, IF op = e THEN o ELSE ops[e], y)
    <3>1. CASE op = e
      BY <1>1, <1>5, <2>1, <2>3, <2>4, <3>1 DEF Truth, Settled, NoOp, RejectedOp, Operation, Statuses
    <3>2. CASE op # e
      BY <2>1, <2>3, <3>2 DEF Truth
    <3>. QED
      BY <3>1, <3>2
  <2>7. Answerable(o)
    BY <1>5, <2>4 DEF Answerable
  <2>. QED
    BY <1>1, <1>3, <1>5, <1>7, <2>1, <2>3, <2>5, <2>6, <2>7, ReceiptAdvances
<1>. QED
  BY <1>6, <1>7

-----------------------------------------------------------------------------
(* Admission and compaction                                                *)

(* A new operation with an entry: its fence is free, or the entry is new.  *)
LEMMA AdmissionKeeps ==
    ASSUME JournalInd, NEW op \in Operations, Fresh(op), NEW e \in Operations, NEW o, NEW x,
           ops' = [ops EXCEPT ![op] = o], entries' = [entries EXCEPT ![e] = x],
           o \in Operation, o.entry = e, o.status = "queued", o.effect,
           o.action # "reorder", o.action = "add" <=> e = op,
           o.action = "update" => o.revision \in 1..Len(x.versions),
           EntryTyped(x), x.mutation = op,
           Exists(e) => /\ entries[e].mutation = None
                        /\ Len(entries[e].versions) <= Len(x.versions)
                        /\ Kept(entries[e], x),
           Truth(e, IF op = e THEN o ELSE ops[e], x),
           x.state \notin {"refused", "removed"},
           x.state = "admitted" => Len(x.versions) = 1, Exact(x)
    PROVE  JournalInd' /\ AllKept
<1>1. TypeOK /\ ops \in [Operations -> Operation \cup {NoOp, RejectedOp}]
      /\ entries \in [Operations -> Entry \cup {NoEntry}]
  BY DEF JournalInd, TypeOK
<1>2. /\ \A q \in Operations : ops'[q] = IF q = op THEN o ELSE ops[q]
      /\ \A f \in Operations : entries'[f] = IF f = e THEN x ELSE entries[f]
  BY <1>1
<1>3. x \in Entry /\ Proper(o) /\ x # NoEntry /\ ops[op] = NoOp /\ ~Exists(op)
  BY DEF EntryTyped, Proper, NoOp, RejectedOp, NoEntry, Operation, Entry, Statuses, States,
         Fresh, Retained
<1>4. TypeOK'
  <2>1. /\ ops' \in [Operations -> Operation \cup {NoOp, RejectedOp}]
        /\ entries' \in [Operations -> Entry \cup {NoEntry}]
    BY <1>1, <1>3
  <2>2. ASSUME NEW f \in Operations, entries'[f] # NoEntry
        PROVE  Len(entries'[f].versions) \in entries'[f].revision..MaxRevision
    BY <1>1, <1>2, <2>2 DEF TypeOK, Exists, EntryTyped
  <2>. QED
    BY <2>1, <2>2 DEF TypeOK, Exists
<1>5. ASSUME NEW q \in Operations
      PROVE  OpInv(q)'
  <2>1. OpInv(q)
    BY DEF JournalInd
  <2>2. CASE q = op
    <3>1. ops'[q] = o /\ entries'[e] = x
      BY <1>2, <2>2
    <3>2. Linked(op, o, x)
      BY <1>3 DEF Linked
    <3>. QED
      BY <2>2, <3>1, <3>2 DEF OpInv
  <2>3. CASE q # op
    <3>1. ops'[q] = ops[q]
      BY <1>2, <2>3
    <3>2. ASSUME Proper(ops[q]), ops[q].entry # None
          PROVE  Linked(q, ops[q], entries'[ops[q].entry])
      <4>1. Linked(q, ops[q], entries[ops[q].entry]) /\ ops[q] \in Operation
            /\ ops[q].entry \in Operations
        BY <1>1, <2>1, <3>2, ProperType DEF OpInv, Operation
      <4>2. CASE ops[q].entry # e
        BY <1>2, <4>1, <4>2
      <4>3. CASE ops[q].entry = e
        <5>1. entries'[e] = x /\ Exists(e) /\ entries[e].mutation = None /\ q # None
          BY <1>2, <4>1, <4>3 DEF Linked, Exists
        <5>2. ~Owed(ops[q])
          BY <4>1, <4>3, <5>1 DEF Linked
        <5>3. Len(entries[e].versions) \in Nat /\ Len(x.versions) \in Nat
              /\ Len(entries[e].versions) <= Len(x.versions)
          BY <1>3, <5>1, ProperType, EntryFields DEF EntryTyped, JournalInd
        <5>4. ops[q].action = "update" => ops[q].revision \in 1..Len(x.versions)
          BY <4>1, <4>3, <5>3 DEF Linked
        <5>. QED
          BY <1>3, <4>1, <4>3, <5>1, <5>2, <5>4 DEF Linked
      <4>. QED
        BY <4>2, <4>3
    <3>. QED
      BY <2>1, <3>1, <3>2 DEF OpInv
  <2>. QED
    BY <2>2, <2>3
<1>6. ASSUME NEW f \in Operations
      PROVE  EntryInv(f)'
  <2>1. EntryInv(f)
    BY DEF JournalInd
  <2>2. CASE f = e
    <3>1. entries'[f] = x /\ ops'[f] = IF op = e THEN o ELSE ops[e]
      BY <1>2, <2>2
    <3>2. Fences(e, ops'[x.mutation])
      BY <1>2, <1>3 DEF Fences, Answerable
    <3>. QED
      BY <2>2, <3>1, <3>2 DEF EntryInv
  <2>3. CASE f # e
    <3>1. entries'[f] = entries[f]
      BY <1>2, <2>3
    <3>2. ASSUME Exists(f)
          PROVE  ops'[f] = ops[f]
      BY <1>2, <1>3, <3>2
    <3>3. ASSUME Exists(f), entries[f].mutation # None
          PROVE  ops'[entries[f].mutation] = ops[entries[f].mutation]
      <4>1. entries[f].mutation \in Operations
        BY <1>1, <3>3, ProperType DEF Entry
      <4>2. Proper(ops[entries[f].mutation])
        BY <2>1, <3>3 DEF EntryInv, Exists, Fences
      <4>. QED
        BY <1>2, <1>3, <4>1, <4>2 DEF Proper
    <3>. QED
      BY <2>1, <3>1, <3>2, <3>3 DEF EntryInv, Exists
  <2>. QED
    BY <2>2, <2>3
<1>7. AllKept
  <2>. SUFFICES ASSUME NEW f \in Operations, Exists(f)
                PROVE  entries'[f] # NoEntry /\ Kept(entries[f], entries'[f])
    BY DEF AllKept
  <2>. QED
    BY <1>2, <1>3, KeptSame DEF Exists
<1>. QED
  BY <1>4, <1>5, <1>6, <1>7 DEF JournalInd

LEMMA AdmitAddKeeps ==
    ASSUME JournalInd, NEW op \in Operations, NEW send \in BOOLEAN, NEW b \in Bindings,
           AdmitAdd(op, send, b)
    PROVE  JournalInd' /\ AllKept
<1>. DEFINE o == Admitted("add", send, op, b, 0)
            versions == <<[op |-> op, input |-> None]>>
            x == [binding |-> b, state |-> "admitted", mutation |-> op, submission |-> None,
                  revision |-> 1, versions |-> versions,
                  dispatched |-> 0, turn |-> None, proof |-> None]
<1>1. /\ Fresh(op) /\ ops' = [ops EXCEPT ![op] = o] /\ entries' = [entries EXCEPT ![op] = x]
  BY DEF AdmitAdd
<1>2. o \in Operation /\ o.entry = op /\ o.status = "queued" /\ o.effect /\ o.action = "add"
  BY DEF Admitted, Operation, Actions, Statuses
<1>3. versions \in Seq(Version) /\ Len(versions) = 1
  BY DEF Version
<1>. HIDE DEF o, versions
<1>4. EntryTyped(x)
  <2>1. 1 \in 1..MaxRevision /\ 0 \in 0..MaxRevision
    OBVIOUS
  <2>2. x \in Entry
    BY <1>3, <2>1 DEF Entry, States
  <2>. QED
    BY <1>3, <2>1, <2>2 DEF EntryTyped
<1>5. x.state = "admitted" /\ x.mutation = op /\ x.proof = None /\ x.versions = versions
  OBVIOUS
<1>. HIDE DEF x
<1>6. Truth(op, o, x) /\ Exact(x)
  BY <1>2, <1>5 DEF Truth, Exact, Settled, NoOp, RejectedOp, Operation, Statuses
<1>. QED
  BY <1>1, <1>2, <1>3, <1>4, <1>5, <1>6, AdmissionKeeps DEF Fresh

LEMMA ControlledAdvances ==
    ASSUME NEW x, EntryTyped(x), Exact(x), NEW op \in Operations, NEW action \in Actions,
           x.state \in {"queued", "withdrawn"},
           action = "update" => Len(x.versions) < MaxRevision,
           NEW y, y = Controlled(op, action, x)
    PROVE  /\ EntryTyped(y) /\ Exact(y) /\ Kept(x, y) /\ Len(x.versions) <= Len(y.versions)
           /\ y.state = x.state /\ y.mutation = op
<1>1. /\ x \in Entry /\ Len(x.versions) \in x.revision..MaxRevision /\ Len(x.versions) \in Nat
      /\ x.versions \in Seq(Version)
  BY EntryFields DEF EntryTyped
<1>2. CASE action # "update"
  <2>1. y = [x EXCEPT !.mutation = op]
    BY <1>2 DEF Controlled
  <2>2. /\ EntryTyped(y) /\ y.mutation = op /\ y.state = x.state /\ y.versions = x.versions
        /\ y.binding = x.binding /\ y.proof = x.proof /\ y.submission = x.submission
        /\ y.dispatched = x.dispatched /\ y.turn = x.turn
    BY <1>1, <2>1 DEF EntryTyped, Entry
  <2>. QED
    BY <1>1, <2>2 DEF Exact, Kept
<1>3. CASE action = "update"
  <2>. DEFINE v == [op |-> op, input |-> None]
              versions == Append(x.versions, v)
              r == Len(x.versions) + 1
  <2>1. v \in Version /\ r \in 1..MaxRevision
    BY <1>1, <1>3 DEF Version
  <2>. HIDE DEF v
  <2>2. versions \in Seq(Version) /\ Len(versions) = r
        /\ \A i \in 1..Len(x.versions) : versions[i] = x.versions[i]
        /\ DOMAIN versions = 1..r /\ DOMAIN x.versions = 1..Len(x.versions)
    BY <1>1, <2>1
  <2>3. y = [x EXCEPT !.mutation = op, !.revision = r, !.versions = versions]
    BY <1>3 DEF Controlled, v
  <2>4. r \in r..MaxRevision /\ r \in 1..MaxRevision /\ Len(x.versions) <= r
        /\ 1..Len(x.versions) \subseteq 1..r
    BY <1>1, <2>1
  <2>. HIDE DEF versions, r
  <2>5. /\ EntryTyped(y) /\ y.mutation = op /\ y.state = x.state /\ y.versions = versions
        /\ y.binding = x.binding /\ y.proof = x.proof /\ y.submission = x.submission
        /\ y.dispatched = x.dispatched /\ y.turn = x.turn
    BY <1>1, <2>2, <2>3, <2>4 DEF EntryTyped, Entry
  <2>6. Exact(y) /\ Kept(x, y)
    BY <2>2, <2>4, <2>5 DEF Exact, Kept
  <2>. QED
    BY <2>2, <2>4, <2>5, <2>6
<1>. QED
  BY <1>2, <1>3

LEMMA AdmitControlKeeps ==
    ASSUME JournalInd, NEW op \in Operations, NEW action \in Actions \ {"add", "reorder"},
           NEW e \in Operations, NEW b \in Bindings, NEW revision \in 1..MaxRevision,
           AdmitControl(op, action, e, b, revision)
    PROVE  JournalInd' /\ AllKept
<1>. DEFINE x == entries[e]
            y == Controlled(op, action, x)
            o == Admitted(action, FALSE, e, b, revision)
<1>1. /\ Fresh(op) /\ ops' = [ops EXCEPT ![op] = o] /\ entries' = [entries EXCEPT ![e] = y]
      /\ Exists(e) /\ x.revision = revision /\ x.mutation = None
      /\ x.state \in {"queued", "withdrawn"}
      /\ action = "update" => Len(x.versions) < MaxRevision
  BY DEF AdmitControl, Controllable
<1>2. /\ o \in Operation /\ o.entry = e /\ o.status = "queued" /\ o.effect
      /\ o.action = action /\ o.revision = revision
  BY DEF Admitted, Operation, Actions, Statuses
<1>3. EntryTyped(x) /\ EntryInv(e) /\ e # op
  BY <1>1, ProperType DEF JournalInd, EntryTyped, Fresh
<1>4. Exact(x) /\ Truth(e, ops[e], x) /\ x.revision \in 1..Len(x.versions)
      /\ Len(x.versions) \in Nat
  BY <1>1, <1>3, EntryFields DEF EntryInv, Exists
<1>5. /\ EntryTyped(y) /\ Exact(y) /\ Kept(x, y) /\ Len(x.versions) <= Len(y.versions)
      /\ y.state = x.state /\ y.mutation = op
  BY <1>1, <1>3, <1>4, ControlledAdvances
<1>6. Len(y.versions) \in Nat
  BY <1>5, EntryFields
<1>. HIDE DEF y, o
<1>7. Truth(e, ops[e], y)
  BY <1>1, <1>4, <1>5 DEF Truth
<1>8. o.revision \in 1..Len(y.versions)
  BY <1>1, <1>2, <1>4, <1>5, <1>6
<1>. QED
  BY <1>1, <1>2, <1>3, <1>5, <1>7, <1>8, AdmissionKeeps

(* A receipt without an entry, or a compacted one: the entries stay, and   *)
(* no receipt they are answered through changes.                           *)
LEMMA OpsOnlyKeeps ==
    ASSUME JournalInd, UNCHANGED entries, TypeOK',
           \A q \in Operations : ops'[q] # ops[q] =>
              /\ q \notin Held
              /\ Proper(ops[q]) => ~ops[q].effect
              /\ ops'[q] \in {NoOp, RejectedOp} \/ OpInv(q)'
              /\ ops'[q] # NoOp => ~Exists(q) /\ ops[q] = NoOp
    PROVE  JournalInd' /\ AllKept
<1>1. ASSUME NEW q \in Operations
      PROVE  OpInv(q)'
  <2>1. OpInv(q)
    BY DEF JournalInd
  <2>. QED
    BY <2>1 DEF OpInv, Proper
<1>2. ASSUME NEW f \in Operations
      PROVE  EntryInv(f)'
  <2>1. EntryInv(f) /\ (Exists(f) => EntryTyped(entries[f]))
    BY ProperType DEF JournalInd, EntryTyped
  <2>2. ASSUME Exists(f), entries[f].mutation # None
        PROVE  ops'[entries[f].mutation] = ops[entries[f].mutation]
    <3>. DEFINE m == entries[f].mutation
    <3>1. m \in Operations
      BY <2>1, <2>2, EntryFields
    <3>2. Fences(f, ops[m])
      BY <2>1, <2>2 DEF EntryInv, Exists
    <3>3. CASE m # f
      <4>1. m \in Held
        BY <2>2, <3>3 DEF Held, HeldBy
      <4>. QED
        BY <3>1, <4>1
    <3>4. CASE m = f
      <4>1. CASE ops[m].effect
        BY <3>1, <3>2, <4>1 DEF Fences
      <4>2. CASE ops[m].status = "uncertain"
        <5>1. entries[f].state \notin Settled
          BY <2>1, <2>2, <3>2, <3>4, <4>2 DEF EntryInv, Exists, Truth, Fences, Proper, Settled
        <5>2. f \in Held
          BY <2>2, <5>1 DEF Held, HeldBy
        <5>. QED
          BY <3>1, <3>4, <5>2
      <4>. QED
        BY <3>2, <4>1, <4>2 DEF Fences, Answerable
    <3>. QED
      BY <3>3, <3>4
  <2>3. ASSUME Exists(f)
        PROVE  Truth(f, ops'[f], entries[f])
    <3>1. Truth(f, ops[f], entries[f])
      BY <2>1, <2>3 DEF EntryInv, Exists
    <3>2. CASE ops'[f] = ops[f]
      BY <3>1, <3>2
    <3>3. CASE ops'[f] # ops[f]
      <4>1. ops'[f] = NoOp /\ f \notin Held
        BY <2>3, <3>3
      <4>2. entries[f].state \in Settled
        BY <2>3, <4>1 DEF Held, HeldBy
      <4>. QED
        BY <4>1, <4>2 DEF Truth
    <3>. QED
      BY <3>2, <3>3
  <2>. QED
    BY <2>1, <2>2, <2>3 DEF EntryInv, Exists
<1>3. AllKept
  BY KeptSame DEF AllKept, Exists
<1>. QED
  BY <1>1, <1>2, <1>3 DEF JournalInd

LEMMA FreshUnheld ==
    ASSUME JournalInd, NEW op \in Operations, Fresh(op)
    PROVE  op \notin Held
<1>. SUFFICES ASSUME NEW f \in Operations, op \in HeldBy(f)
              PROVE  FALSE
  BY DEF Held
<1>1. Exists(f) /\ EntryInv(f) /\ ops[op] = NoOp /\ ~Exists(op)
  BY DEF HeldBy, JournalInd, Fresh, Retained
<1>2. entries[f].mutation = op /\ entries[f].mutation # None
  BY <1>1 DEF HeldBy
<1>. QED
  BY <1>1, <1>2 DEF EntryInv, Exists, Fences, Proper

LEMMA AdmitReorderKeeps ==
    ASSUME JournalInd, NEW op \in Operations, NEW b \in Bindings, AdmitReorder(op, b)
    PROVE  JournalInd' /\ AllKept
<1>. DEFINE o == Admitted("reorder", FALSE, None, b, 0)
<1>1. /\ Fresh(op) /\ ops' = [ops EXCEPT ![op] = o] /\ UNCHANGED entries /\ TypeOK
      /\ ops[op] = NoOp /\ ~Exists(op)
  BY DEF AdmitReorder, Fresh, Retained, JournalInd
<1>2. o \in Operation /\ o.entry = None /\ o.status = "queued" /\ o.action = "reorder"
  BY DEF Admitted, Operation, Actions, Statuses
<1>. HIDE DEF o
<1>3. TypeOK'
  BY <1>1, <1>2 DEF TypeOK, Exists
<1>4. \A q \in Operations : ops'[q] = IF q = op THEN o ELSE ops[q]
  BY <1>1 DEF TypeOK
<1>5. OpInv(op)'
  BY <1>2, <1>4 DEF OpInv
<1>6. op \notin Held
  BY <1>1, FreshUnheld DEF Fresh, Retained
<1>. QED
  BY <1>1, <1>3, <1>4, <1>5, <1>6, OpsOnlyKeeps DEF Proper

LEMMA AdmitRejectedKeeps ==
    ASSUME JournalInd, NEW op \in Operations, AdmitRejected(op)
    PROVE  JournalInd' /\ AllKept
<1>1. /\ ops' = [ops EXCEPT ![op] = RejectedOp] /\ UNCHANGED entries /\ TypeOK
      /\ ops[op] = NoOp /\ ~Exists(op)
  BY DEF AdmitRejected, Fresh, Retained, JournalInd
<1>2. TypeOK'
  BY <1>1 DEF TypeOK, Exists
<1>3. \A q \in Operations : ops'[q] = IF q = op THEN RejectedOp ELSE ops[q]
  BY <1>1 DEF TypeOK
<1>4. op \notin Held
  BY <1>1, FreshUnheld DEF Fresh, Retained
<1>. QED
  BY <1>1, <1>2, <1>3, <1>4, OpsOnlyKeeps DEF Proper

LEMMA CompactKeeps ==
    ASSUME JournalInd, NEW gone \in SUBSET Operations, Compact(gone)
    PROVE  JournalInd' /\ AllKept
<1>1. /\ gone \subseteq {op \in Operations : Retained(op) /\ ~ops[op].effect} \ Held
      /\ ops' = [op \in Operations |-> IF op \in gone THEN NoOp ELSE ops[op]]
      /\ UNCHANGED entries /\ TypeOK
  BY DEF Compact, JournalInd
<1>2. TypeOK'
  BY <1>1 DEF TypeOK, Exists
<1>. QED
  BY <1>1, <1>2, OpsOnlyKeeps

-----------------------------------------------------------------------------
(* The theorems                                                            *)

LEMMA StartsRight ==
    ASSUME Init
    PROVE  JournalInd
<1>1. TypeOK
  BY DEF Init, TypeOK, Exists
<1>2. ASSUME NEW q \in Operations
      PROVE  OpInv(q) /\ EntryInv(q)
  BY DEF Init, OpInv, EntryInv, Proper
<1>. QED
  BY <1>1, <1>2 DEF JournalInd

LEMMA StepKeeps ==
    ASSUME JournalInd, Next
    PROVE  JournalInd' /\ AllKept
<1>1. CASE \E op \in Operations : Admit(op)
  BY <1>1, AdmitAddKeeps, AdmitControlKeeps, AdmitReorderKeeps, AdmitRejectedKeeps DEF Admit
<1>2. ASSUME NEW op \in Operations, Transition(op)
      PROVE  JournalInd' /\ AllKept
  <2>1. CASE \E input \in Inputs, b \in Bindings : Prepare(op, input, b)
    BY <2>1, PrepareKeeps
  <2>2. CASE Defer(op) \/ WithdrawSeat(op) \/ MarkWithdrawn(op)
    BY <2>2, DeferKeeps, WithdrawSeatKeeps, MarkWithdrawnKeeps
  <2>3. CASE MarkUncertain(op) \/ Refuse(op)
    BY <2>3, MarkUncertainKeeps, RefuseKeeps
  <2>4. CASE \E s \in Submissions : AcknowledgeQueued(op, s) \/ ObserveQueued(op, s)
    BY <2>4, AcknowledgeQueuedKeeps
  <2>5. CASE \E turn \in Turns : AcknowledgeDispatched(op, turn)
    BY <2>5, AcknowledgeDispatchedKeeps
  <2>6. CASE \E deleted \in BOOLEAN : AcknowledgeDeleted(op, deleted)
    BY <2>6, AcknowledgeDeletedKeeps
  <2>7. CASE AcknowledgeReorder(op) \/ Remove(op)
    BY <2>7, AcknowledgeReorderKeeps, RemoveKeeps
  <2>8. CASE \E proof \in Proof : Prove(op, proof)
    BY <2>8, ProveKeeps
  <2>. QED
    BY <1>2, <2>1, <2>2, <2>3, <2>4, <2>5, <2>6, <2>7, <2>8 DEF Transition
<1>3. CASE \E gone \in SUBSET Operations : Compact(gone)
  BY <1>3, CompactKeeps
<1>. QED
  BY <1>1, <1>2, <1>3 DEF Next

LEMMA IdleKeeps ==
    ASSUME JournalInd, UNCHANGED journalVars
    PROVE  JournalInd'
BY DEF journalVars, JournalInd, TypeOK, OpInv, EntryInv, Exists

LEMMA IndImpliesInv ==
    ASSUME JournalInd
    PROVE  TypeOK /\ FenceLive /\ ReceiptTruth /\ ProofExact
<1>1. TypeOK
  BY DEF JournalInd
<1>2. FenceLive
  <2>1. ASSUME NEW e \in Operations, Exists(e), entries[e].mutation # None
        PROVE  LET m == entries[e].mutation IN
               ops[m] \notin {NoOp, RejectedOp} /\ ops[m].entry = e /\ Unresolved(m)
    <3>1. Fences(e, ops[entries[e].mutation])
      BY <2>1 DEF JournalInd, EntryInv, Exists
    <3>. QED
      BY <3>1 DEF Fences, Proper, Answerable, Unresolved
  <2>2. ASSUME NEW op \in Operations, ops[op] \notin {NoOp, RejectedOp}, ops[op].entry # None
        PROVE  LET e == ops[op].entry IN
               /\ Exists(e)
               /\ ops[op].action = "add" <=> e = op
               /\ Unresolved(op) => entries[e].mutation = op
    <3>1. Linked(op, ops[op], entries[ops[op].entry])
      BY <2>2 DEF JournalInd, OpInv, Proper
    <3>. QED
      BY <3>1 DEF Linked, Exists, Owed, Unresolved
  <2>. QED
    BY <2>1, <2>2 DEF FenceLive
<1>3. ASSUME NEW e \in Operations, Exists(e)
      PROVE  Truth(e, ops[e], entries[e]) /\ Exact(entries[e])
  BY <1>3 DEF JournalInd, EntryInv, Exists
<1>4. ReceiptTruth
  BY <1>3 DEF ReceiptTruth, Truth, Retained, Acked, AckStatus, Unresolved
<1>5. ProofExact
  BY <1>3 DEF ProofExact, Exact
<1>. QED
  BY <1>1, <1>2, <1>4, <1>5

(* The five facts about the journal, for every set of identities and every *)
(* bound on edits.  TypeOK: the tables keep their types and an entry's     *)
(* revision names one of its versions.                                     *)
THEOREM JournalTyped == Spec => []TypeOK
BY StartsRight, StepKeeps, IdleKeeps, IndImpliesInv, PTL DEF Spec

(* A mutation fence is a live operation on its entry and an operation with *)
(* an unknown or owed outcome is the fence: heldOperationIds and `save`.   *)
THEOREM FencesLive == Spec => []FenceLive
BY StartsRight, StepKeeps, IdleKeeps, IndImpliesInv, PTL DEF Spec

(* The receipt an entry is answered through is retained and tells the      *)
(* entry's state, whatever compaction dropped.                             *)
THEOREM ReceiptsTrue == Spec => []ReceiptTruth
BY StartsRight, StepKeeps, IdleKeeps, IndImpliesInv, PTL DEF Spec

(* Delivered means proven, by a version frozen before its write: `prove`.  *)
THEOREM ProofsExact == Spec => []ProofExact
BY StartsRight, StepKeeps, IdleKeeps, IndImpliesInv, PTL DEF Spec

(* No transition, admission or compaction rewrites a prepared payload, a   *)
(* native submission or a proof, or moves an entry that has a payload.     *)
THEOREM HistoryStays == Spec => HistoryFrozen
<1>1. ASSUME JournalInd, [Next]_journalVars
      PROVE  [\A e \in Operations : Exists(e) =>
                 entries'[e] # NoEntry /\ Kept(entries[e], entries'[e])]_journalVars
  BY <1>1, StepKeeps DEF AllKept
<1>. QED
  BY <1>1, StartsRight, StepKeeps, IdleKeeps, PTL DEF Spec, HistoryFrozen
=============================================================================
