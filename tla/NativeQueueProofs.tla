-------------------------- MODULE NativeQueueProofs --------------------------
(***************************************************************************)
(* Theorems about NativeQueue, for all operations, messages and executors  *)
(* and every bound on edits, turns and hosts: executors, admission and     *)
(* reconciliation use the journal by its transitions only, and no two      *)
(* messages share a submission.  NativeQueueCopies counts the copies.      *)
(***************************************************************************)
EXTENDS NativeQueue, FiniteSetTheorems, TLAPS

USE NativeQueueAssumption

(* The theorems of the journal, for the journal of this conversation.      *)
JP == INSTANCE NativeQueueJournalProofs WITH
        Bindings <- {Thread}, Inputs <- 1..MaxRevision

-----------------------------------------------------------------------------
(* The types of what is not the journal's                                  *)

Stages == {"known", "refusing", "read", "ready", "fenced", "prepared", "deferring",
           "sent", "removing", "steering", "caught", "deferred", "checked", "ending"}

Replies == [kind : {"queued"}, sub : Submissions] \cup [kind : {"turn"}, turn : Turns]
           \cup [kind : {"deleted"}, deleted : BOOLEAN] \cup [kind : {"refused"}]

Workers ==
    [pc : Stages, op : Operations, sub : Submissions \cup {None}, withdrawn : BOOLEAN,
     revision : 0..MaxRevision, host : Nat, idle : BOOLEAN, prepared : BOOLEAN,
     method : Methods \cup {None}, reply : Replies \cup {None}, ends : {"failed", "uncertain"}]

Requests ==
    [by : Executors, op : Operations, method : Methods, client : Operations,
     revision : 1..MaxRevision, sub : Submissions \cup {None}, turn : Turns \cup {None}]

Items == [client : Operations, revision : 1..MaxRevision, sub : Submissions]
Messaged == [client : Operations, revision : 1..MaxRevision, turn : Turns]
Sightings == [op : Operations, sub : Submissions, revision : 1..MaxRevision]

IsRow(row) == row \notin {J!NoOp, J!RejectedOp}
Proper(op) == IsRow(ops[op])

(* A call that has read its operation's entry knows a revision of it.      *)
Called(x) ==
    ~At(x, "idle") => /\ Proper(Op(x))
                      /\ exec[x].pc \in Stages \ {"known", "refusing"} => exec[x].revision # 0

JournalTypes == JP!JournalInd /\ \A op \in Operations : Proper(op) => ops[op].action # "reorder"
ExecTypes == exec \in [Executors -> Workers \cup {Idle}] /\ \A x \in Executors : Called(x)
WireTypes == fence \in [Operations -> Turns \cup {None}] /\ wire \in SUBSET Requests
CodexTypes ==
    /\ queue \in SUBSET Items /\ transcript \in SUBSET Messaged
    /\ turns \in 0..MaxTurns /\ active \in {None, turns} /\ (active # None => turns # 0)
    /\ issued \in 0..Cardinality(Operations)
    /\ \A item \in queue : item.sub \in 1..issued
HostTypes == hosts \in 1..MaxHosts /\ host \in {0, hosts} /\ (host = 0 => hosts < MaxHosts)
SeenTypes == seen \in SUBSET Sightings

(* A send-now steers into the turn it was admitted with.                   *)
Steering(x) ==
    \/ At(x, "steering")
    \/ At(x, "sent") /\ exec[x].method = "queue/delete" /\ Action(x) = "send-now"

Aimed ==
    /\ \A r \in wire : r.method = "turn/steer" => r.turn # None
    /\ \A x \in Executors : Steering(x) => fence[Op(x)] # None

Types == JournalTypes /\ ExecTypes /\ WireTypes /\ CodexTypes /\ HostTypes /\ SeenTypes

-----------------------------------------------------------------------------
(* The constants                                                           *)

LEMMA Constants ==
    /\ Cardinality(Operations) \in Nat
    /\ MaxRevision \in Nat \ {0} /\ MaxTurns \in Nat /\ MaxHosts \in Nat \ {0}
    /\ None \notin Operations /\ None # Thread /\ None \notin Nat
    /\ Submissions \subseteq Nat \ {0} /\ Turns \subseteq Nat \ {0}
    /\ None \notin Submissions /\ None \notin Turns
BY FS_CardinalityType DEF NativeQueueAssumption, Submissions, Turns

LEMMA JournalParameters == JP!JournalAssumption
BY Constants DEF NativeQueueAssumption, JP!JournalAssumption, Submissions, Turns

(* The two instances of the journal have the same transitions.             *)
LEMMA SameJournal ==
    /\ J!Init <=> JP!Init
    /\ J!Next <=> JP!Next
<1>1. J!Init <=> JP!Init
  BY DEF J!Init, JP!Init, J!NoOp, JP!NoOp, J!NoEntry, JP!NoEntry
<1>2. J!Next <=> JP!Next
  BY DEF
      J!Next, JP!Next, J!Admit, JP!Admit, J!Transition, JP!Transition, J!AdmitAdd, JP!AdmitAdd,
      J!AdmitControl, JP!AdmitControl, J!AdmitReorder, JP!AdmitReorder,
      J!AdmitRejected, JP!AdmitRejected, J!Admitted, JP!Admitted, J!Fresh, JP!Fresh,
      J!Retained, JP!Retained, J!Exists, JP!Exists, J!Controllable, JP!Controllable,
      J!Controlled, JP!Controlled, J!Prepare, JP!Prepare, J!CanPrepare, JP!CanPrepare,
      J!Prepared, JP!Prepared, J!SetReceipt, JP!SetReceipt, J!Receipt, JP!Receipt,
      J!Owing, JP!Owing, J!Completing, JP!Completing, J!SetEntry, JP!SetEntry, J!Owns, JP!Owns,
      J!Allowed, JP!Allowed, J!Defer, JP!Defer, J!CanWithdrawSeat, JP!CanWithdrawSeat,
      J!WithdrawSeat, JP!WithdrawSeat, J!Marked, JP!Marked,
      J!CanMarkWithdrawn, JP!CanMarkWithdrawn, J!MarkWithdrawn, JP!MarkWithdrawn,
      J!CanMarkUncertain, JP!CanMarkUncertain, J!MarkUncertain, JP!MarkUncertain,
      J!Refused, JP!Refused, J!CanRefuse, JP!CanRefuse, J!Refuse, JP!Refuse,
      J!AckStatus, JP!AckStatus, J!CanAcknowledge, JP!CanAcknowledge, J!Queued, JP!Queued,
      J!AcceptsSubmission, JP!AcceptsSubmission, J!AcknowledgeQueued, JP!AcknowledgeQueued,
      J!Dispatches, JP!Dispatches, J!Dispatched, JP!Dispatched,
      J!AcknowledgeDispatched, JP!AcknowledgeDispatched, J!Deleted, JP!Deleted,
      J!AcknowledgeDeleted, JP!AcknowledgeDeleted, J!AcknowledgeReorder, JP!AcknowledgeReorder,
      J!CanObserveQueued, JP!CanObserveQueued, J!ObserveQueued, JP!ObserveQueued,
      J!CanRemove, JP!CanRemove, J!Remove, JP!Remove, J!Proves, JP!Proves, J!Proven, JP!Proven,
      J!CanProve, JP!CanProve, J!Prove, JP!Prove, J!HeldBy, JP!HeldBy, J!Held, JP!Held,
      J!Compact, JP!Compact, J!NoOp, JP!NoOp, J!RejectedOp, JP!RejectedOp, J!NoEntry, JP!NoEntry,
      J!Current, JP!Current, J!Actions, JP!Actions, J!Settled, JP!Settled, J!Proof, JP!Proof
<1>. QED
  BY <1>1, <1>2

(* A transition of the journal, or none.                                   *)
JournalStep == J!Next \/ UNCHANGED journal

LEMMA JournalKept ==
    ASSUME JP!JournalInd, JournalStep
    PROVE  JP!JournalInd'
<1>1. JP!JournalInd /\ JP!Next => JP!JournalInd'
  BY JournalParameters, JP!StepKeeps
<1>2. JP!JournalInd /\ UNCHANGED <<ops, entries>> => JP!JournalInd'
  BY JournalParameters, JP!IdleKeeps DEF JP!journalVars
<1>. QED
  BY <1>1, <1>2, SameJournal DEF JournalStep, journal

-----------------------------------------------------------------------------
(* The local states of a call                                              *)

Moved(w, pc) == [w EXCEPT !.pc = pc]
Thrown(w, ends) == [w EXCEPT !.pc = "caught", !.ends = ends]
Informed(w, pc, sub, withdrawn, revision, h) ==
    [w EXCEPT !.pc = pc, !.sub = sub, !.withdrawn = withdrawn, !.revision = revision, !.host = h]
Readied(w, idle) == [w EXCEPT !.pc = "ready", !.idle = idle]
Swapped(w) == [w EXCEPT !.pc = "prepared", !.prepared = TRUE]
Unprepared(w) == [w EXCEPT !.pc = "deferred", !.prepared = FALSE, !.ends = "failed"]
Asking(w, method) == [w EXCEPT !.pc = "sent", !.method = method, !.reply = None]
Answered(w, reply) == [w EXCEPT !.reply = reply]


LEMMA Wrote ==
    ASSUME NEW w \in Workers
    PROVE  /\ \A pc \in Stages : [w EXCEPT !.pc = pc] \in Workers
           /\ \A s \in Submissions \cup {None} : [w EXCEPT !.sub = s] \in Workers
           /\ \A b \in BOOLEAN : /\ [w EXCEPT !.withdrawn = b] \in Workers
                                 /\ [w EXCEPT !.idle = b] \in Workers
                                 /\ [w EXCEPT !.prepared = b] \in Workers
           /\ \A r \in 0..MaxRevision : [w EXCEPT !.revision = r] \in Workers
           /\ \A h \in Nat : [w EXCEPT !.host = h] \in Workers
           /\ \A m \in Methods \cup {None} : [w EXCEPT !.method = m] \in Workers
           /\ \A a \in Replies \cup {None} : [w EXCEPT !.reply = a] \in Workers
           /\ \A e \in {"failed", "uncertain"} : [w EXCEPT !.ends = e] \in Workers
BY DEF Workers

LEMMA MovedFields ==
    ASSUME NEW w \in Workers, NEW pc \in Stages
    PROVE  LET v == Moved(w, pc) IN
           /\ v \in Workers /\ v.pc = pc
           /\ v.op = w.op /\ v.sub = w.sub /\ v.withdrawn = w.withdrawn
           /\ v.revision = w.revision /\ v.prepared = w.prepared /\ v.method = w.method
           /\ v.reply = w.reply /\ v.ends = w.ends
BY DEF Moved, Workers

LEMMA ThrownFields ==
    ASSUME NEW w \in Workers, NEW ends \in {"failed", "uncertain"}
    PROVE  LET v == Thrown(w, ends) IN
           /\ v \in Workers /\ v.pc = "caught" /\ v.ends = ends
           /\ v.op = w.op /\ v.sub = w.sub /\ v.withdrawn = w.withdrawn
           /\ v.revision = w.revision /\ v.prepared = w.prepared /\ v.method = w.method
           /\ v.reply = w.reply
<1>1. Thrown(w, ends) \in Workers
  <2>. DEFINE u == [w EXCEPT !.pc = "caught"]
  <2>1. u \in Workers
    BY Wrote DEF Stages
  <2>2. Thrown(w, ends) = [u EXCEPT !.ends = ends]
    BY DEF Thrown
  <2>. HIDE DEF u
  <2>. QED
    BY <2>1, <2>2, Wrote
<1>. QED
  BY <1>1 DEF Thrown, Workers

LEMMA InformedFields ==
    ASSUME NEW w \in Workers, NEW pc \in Stages, NEW sub \in Submissions \cup {None},
           NEW withdrawn \in BOOLEAN, NEW revision \in 0..MaxRevision, NEW h \in Nat
    PROVE  LET v == Informed(w, pc, sub, withdrawn, revision, h) IN
           /\ v \in Workers /\ v.pc = pc /\ v.sub = sub /\ v.withdrawn = withdrawn
           /\ v.revision = revision
           /\ v.op = w.op /\ v.prepared = w.prepared /\ v.method = w.method
           /\ v.reply = w.reply /\ v.ends = w.ends
<1>1. Informed(w, pc, sub, withdrawn, revision, h) \in Workers
  <2>. DEFINE w1 == [w EXCEPT !.pc = pc]
              w2 == [w1 EXCEPT !.sub = sub]
              w3 == [w2 EXCEPT !.withdrawn = withdrawn]
              w4 == [w3 EXCEPT !.revision = revision]
              w5 == [w4 EXCEPT !.host = h]
  <2>1. Informed(w, pc, sub, withdrawn, revision, h) = w5
    BY DEF Informed
  <2>2. w1 \in Workers
    BY Wrote
  <2>. HIDE DEF w1
  <2>3. w2 \in Workers
    BY <2>2, Wrote
  <2>. HIDE DEF w2
  <2>4. w3 \in Workers
    BY <2>3, Wrote
  <2>. HIDE DEF w3
  <2>5. w4 \in Workers
    BY <2>4, Wrote
  <2>. HIDE DEF w4
  <2>6. w5 \in Workers
    BY <2>5, Wrote
  <2>. QED
    BY <2>1, <2>6
<1>. QED
  BY <1>1 DEF Informed, Workers

LEMMA ReadiedFields ==
    ASSUME NEW w \in Workers, NEW idle \in BOOLEAN
    PROVE  LET v == Readied(w, idle) IN
           /\ v \in Workers /\ v.pc = "ready"
           /\ v.op = w.op /\ v.sub = w.sub /\ v.withdrawn = w.withdrawn
           /\ v.revision = w.revision /\ v.prepared = w.prepared /\ v.method = w.method
           /\ v.reply = w.reply /\ v.ends = w.ends
<1>1. Readied(w, idle) \in Workers
  <2>. DEFINE u == [w EXCEPT !.pc = "ready"]
  <2>1. u \in Workers
    BY Wrote DEF Stages
  <2>2. Readied(w, idle) = [u EXCEPT !.idle = idle]
    BY DEF Readied
  <2>. HIDE DEF u
  <2>. QED
    BY <2>1, <2>2, Wrote
<1>. QED
  BY <1>1 DEF Readied, Workers

LEMMA SwappedFields ==
    ASSUME NEW w \in Workers
    PROVE  LET v == Swapped(w) IN
           /\ v \in Workers /\ v.pc = "prepared" /\ v.prepared
           /\ v.op = w.op /\ v.sub = w.sub /\ v.withdrawn = w.withdrawn
           /\ v.revision = w.revision /\ v.method = w.method
           /\ v.reply = w.reply /\ v.ends = w.ends
<1>1. Swapped(w) \in Workers
  <2>. DEFINE u == [w EXCEPT !.pc = "prepared"]
  <2>1. u \in Workers
    BY Wrote DEF Stages
  <2>2. Swapped(w) = [u EXCEPT !.prepared = TRUE]
    BY DEF Swapped
  <2>. HIDE DEF u
  <2>. QED
    BY <2>1, <2>2, Wrote
<1>. QED
  BY <1>1 DEF Swapped, Workers

LEMMA UnpreparedFields ==
    ASSUME NEW w \in Workers
    PROVE  LET v == Unprepared(w) IN
           /\ v \in Workers /\ v.pc = "deferred" /\ ~v.prepared /\ v.ends = "failed"
           /\ v.op = w.op /\ v.sub = w.sub /\ v.withdrawn = w.withdrawn
           /\ v.revision = w.revision /\ v.method = w.method /\ v.reply = w.reply
<1>1. Unprepared(w) \in Workers
  <2>. DEFINE w1 == [w EXCEPT !.pc = "deferred"]
              w2 == [w1 EXCEPT !.prepared = FALSE]
              w3 == [w2 EXCEPT !.ends = "failed"]
  <2>1. Unprepared(w) = w3
    BY DEF Unprepared
  <2>2. w1 \in Workers
    BY Wrote DEF Stages
  <2>. HIDE DEF w1
  <2>3. w2 \in Workers
    BY <2>2, Wrote
  <2>. HIDE DEF w2
  <2>4. w3 \in Workers
    BY <2>3, Wrote
  <2>. QED
    BY <2>1, <2>4
<1>. QED
  BY <1>1 DEF Unprepared, Workers

LEMMA AskingFields ==
    ASSUME NEW w \in Workers, NEW method \in Methods
    PROVE  LET v == Asking(w, method) IN
           /\ v \in Workers /\ v.pc = "sent" /\ v.method = method /\ v.reply = None
           /\ v.op = w.op /\ v.sub = w.sub /\ v.withdrawn = w.withdrawn
           /\ v.revision = w.revision /\ v.prepared = w.prepared /\ v.ends = w.ends
<1>1. Asking(w, method) \in Workers
  <2>. DEFINE w1 == [w EXCEPT !.pc = "sent"]
              w2 == [w1 EXCEPT !.method = method]
              w3 == [w2 EXCEPT !.reply = None]
  <2>1. Asking(w, method) = w3
    BY DEF Asking
  <2>2. w1 \in Workers
    BY Wrote DEF Stages
  <2>. HIDE DEF w1
  <2>3. w2 \in Workers
    BY <2>2, Wrote
  <2>. HIDE DEF w2
  <2>4. w3 \in Workers
    BY <2>3, Wrote
  <2>. QED
    BY <2>1, <2>4
<1>. QED
  BY <1>1 DEF Asking, Workers

LEMMA AnsweredFields ==
    ASSUME NEW w \in Workers, NEW reply \in Replies
    PROVE  LET v == Answered(w, reply) IN
           /\ v \in Workers /\ v.reply = reply
           /\ v.pc = w.pc /\ v.op = w.op /\ v.sub = w.sub /\ v.withdrawn = w.withdrawn
           /\ v.revision = w.revision /\ v.prepared = w.prepared /\ v.method = w.method
           /\ v.ends = w.ends
BY DEF Answered, Workers

-----------------------------------------------------------------------------
(* What the journal says                                                   *)

EntryFor(op) == ops[op].entry
Mutation(e) == entries[e].mutation

LEMMA RowFields ==
    ASSUME JournalTypes, NEW op \in Operations
    PROVE  /\ ops[op] \in J!Operation \cup {J!NoOp, J!RejectedOp}
           /\ J!NoOp.status = "absent" /\ J!RejectedOp.status = "rejected"
           /\ J!NoOp.effect = FALSE /\ J!RejectedOp.effect = FALSE
           /\ Proper(op) <=> ops[op].status \in J!Statuses
           /\ Proper(op) =>
                 /\ ops[op] \in J!Operation /\ ops[op].action \in J!Actions \ {"reorder"}
                 /\ ops[op].send \in BOOLEAN
                 /\ EntryFor(op) \in Operations /\ J!Exists(EntryFor(op))
                 /\ ops[op].action = "add" <=> EntryFor(op) = op
                 /\ ops[op].status \in {"delivering", "uncertain"} => Mutation(EntryFor(op)) = op
                 /\ ops[op].effect => Mutation(EntryFor(op)) = op
<1>1. ops[op] \in J!Operation \cup {J!NoOp, J!RejectedOp}
  BY DEF JournalTypes, JP!JournalInd, JP!TypeOK, JP!Operation, JP!NoOp, JP!RejectedOp, JP!Actions,
         JP!Statuses, J!Operation, J!NoOp, J!RejectedOp, J!Actions, J!Statuses
<1>2. /\ J!NoOp.status = "absent" /\ J!RejectedOp.status = "rejected"
      /\ J!NoOp.effect = FALSE /\ J!RejectedOp.effect = FALSE
  BY DEF J!NoOp, J!RejectedOp
<1>3. ops[op] \in J!Operation => ops[op].status \in J!Statuses
  BY DEF J!Operation
<1>4. Proper(op) <=> ops[op].status \in J!Statuses
  BY <1>1, <1>2, <1>3 DEF Proper, IsRow, J!Statuses
<1>5. ASSUME Proper(op)
      PROVE  /\ ops[op] \in J!Operation /\ ops[op].action \in J!Actions \ {"reorder"}
             /\ ops[op].send \in BOOLEAN
             /\ EntryFor(op) \in Operations /\ J!Exists(EntryFor(op))
             /\ ops[op].action = "add" <=> EntryFor(op) = op
             /\ ops[op].status \in {"delivering", "uncertain"} => Mutation(EntryFor(op)) = op
             /\ ops[op].effect => Mutation(EntryFor(op)) = op
  <2>1. ops[op] \in J!Operation
    BY <1>1, <1>5 DEF Proper, IsRow
  <2>2. ops[op].action \in J!Actions \ {"reorder"} /\ ops[op].send \in BOOLEAN
    BY <2>1, <1>5 DEF J!Operation, JournalTypes
  <2>3. JP!Proper(ops[op])
    BY <1>5 DEF JP!Proper, Proper, IsRow, JP!NoOp, JP!RejectedOp, J!NoOp, J!RejectedOp
  <2>4. JP!OpInv(op)
    BY DEF JournalTypes, JP!JournalInd
  <2>5. ops[op].entry # None /\ JP!Linked(op, ops[op], entries[ops[op].entry])
    BY <2>2, <2>3, <2>4 DEF JP!OpInv
  <2>6. EntryFor(op) \in Operations
    BY <2>1, <2>5 DEF J!Operation, EntryFor
  <2>. QED
    BY <2>1, <2>2, <2>5, <2>6
       DEF JP!Linked, JP!Owed, EntryFor, Mutation, J!Exists, JP!NoEntry, J!NoEntry
<1>. QED
  BY <1>1, <1>2, <1>4, <1>5

LEMMA EntryFields ==
    ASSUME JournalTypes, NEW e \in Operations, J!Exists(e)
    PROVE  /\ entries[e] \in J!Entry
           /\ entries[e].binding = Thread
           /\ entries[e].state \in J!States
           /\ Mutation(e) \in Operations \cup {None}
           /\ entries[e].submission \in Submissions \cup {None}
           /\ entries[e].revision \in 1..MaxRevision
           /\ entries[e].proof # None <=> entries[e].state = "delivered"
           /\ entries[e].state \in {"refused", "removed"} => Mutation(e) = None
           /\ Mutation(e) # None => Proper(Mutation(e)) /\ EntryFor(Mutation(e)) = e
<1>1. entries[e] \in J!Entry
  BY DEF JournalTypes, JP!JournalInd, JP!TypeOK, JP!Entry, JP!NoEntry, JP!Version, JP!Proof,
         JP!States, J!Entry, J!NoEntry, J!Version, J!Proof, J!States, J!Exists
<1>2. JP!EntryInv(e) /\ entries[e] # JP!NoEntry
  BY DEF JournalTypes, JP!JournalInd, J!Exists, J!NoEntry, JP!NoEntry
<1>3. Mutation(e) # None => Proper(Mutation(e)) /\ EntryFor(Mutation(e)) = e
  BY <1>2 DEF JP!EntryInv, JP!Fences, JP!Proper, Mutation, EntryFor, Proper, IsRow,
              JP!NoOp, JP!RejectedOp, J!NoOp, J!RejectedOp
<1>4. /\ entries[e].proof # None <=> entries[e].state = "delivered"
      /\ entries[e].state \in {"refused", "removed"} => Mutation(e) = None
  BY <1>2 DEF JP!EntryInv, JP!Exact, Mutation
<1>. QED
  BY <1>1, <1>3, <1>4 DEF J!Entry, Mutation

-----------------------------------------------------------------------------
(* What a transition does to its operation's row and to the entry          *)

(* Only the row of op changes, and of it the status and what is owed.      *)
RowStep(op, status) ==
    /\ \A q \in Operations \ {op} : ops'[q] = ops[q]
    /\ ops'[op].status = status
    /\ ops'[op].action = ops[op].action /\ ops'[op].entry = ops[op].entry
    /\ Proper(op) /\ Proper(op)'

(* Only entry e changes.                                                   *)
EntryStep(e, state, mutation, submission) ==
    /\ \A f \in Operations \ {e} : entries'[f] = entries[f]
    /\ J!Exists(e)'
    /\ entries'[e].state = state
    /\ entries'[e].mutation = mutation
    /\ entries'[e].submission = submission

Waiting(op) ==
    Proper(op) /\ ops[op].status = "queued" /\ Mutation(EntryFor(op)) = op

LEMMA ReceiptRow ==
    ASSUME JournalTypes, NEW op \in Operations, Proper(op), NEW status \in J!Statuses,
           NEW done \in BOOLEAN, J!SetReceipt(op, status, done)
    PROVE  RowStep(op, status)
<1>. DEFINE row == [ops[op] EXCEPT !.status = status]
            owed == J!Owing(op, status, done)
<1>1. ops[op] \in J!Operation
  BY RowFields
<1>2. row \in J!Operation /\ row.status = status /\ row.action = ops[op].action
      /\ row.entry = ops[op].entry
  BY <1>1 DEF J!Operation
<1>3. owed \in BOOLEAN
  BY <1>1 DEF J!Owing, J!Operation
<1>. HIDE DEF row, owed
<1>4. /\ [row EXCEPT !.effect = owed].status = status
      /\ [row EXCEPT !.effect = owed].action = ops[op].action
      /\ [row EXCEPT !.effect = owed].entry = ops[op].entry
  BY <1>2, <1>3 DEF J!Operation
<1>5. ops' = [ops EXCEPT ![op] = [row EXCEPT !.effect = owed]]
  BY DEF J!SetReceipt, J!Receipt, row, owed
<1>6. DOMAIN ops = Operations
  BY DEF JournalTypes, JP!JournalInd, JP!TypeOK
<1>7. ops'[op] = [row EXCEPT !.effect = owed] /\ \A q \in Operations \ {op} : ops'[q] = ops[q]
  BY <1>5, <1>6
<1>8. ops'[op].status # "absent" /\ ops'[op].status # "rejected"
  BY <1>4, <1>7 DEF J!Statuses
<1>9. Proper(op)'
  BY <1>8, RowFields DEF Proper, IsRow, J!NoOp, J!RejectedOp
<1>. QED
  BY <1>4, <1>7, <1>9 DEF RowStep

(* An entry that is written keeps its other fields.                        *)
LEMMA EntryWritten ==
    ASSUME JournalTypes, NEW e \in Operations, NEW x, J!SetEntry(e, x), x.state \in J!States
    PROVE  EntryStep(e, x.state, x.mutation, x.submission)
<1>1. DOMAIN entries = Operations
  BY DEF JournalTypes, JP!JournalInd, JP!TypeOK
<1>2. entries'[e] = x /\ \A f \in Operations \ {e} : entries'[f] = entries[f]
  BY <1>1 DEF J!SetEntry
<1>3. J!NoEntry.state = "absent" /\ "absent" \notin J!States
  BY DEF J!NoEntry, J!States
<1>4. J!Exists(e)'
  BY <1>2, <1>3 DEF J!Exists, J!NoEntry
<1>. QED
  BY <1>2, <1>4 DEF EntryStep

LEMMA OwnsFacts ==
    ASSUME JournalTypes, NEW op \in Operations, J!Owns(op)
    PROVE  /\ Proper(op) /\ EntryFor(op) \in Operations /\ J!Exists(EntryFor(op))
           /\ Mutation(EntryFor(op)) = op
           /\ entries[EntryFor(op)] \in J!Entry
           /\ ops[op].entry # None
<1>1. Proper(op)
  BY DEF J!Owns, Proper, IsRow
<1>2. EntryFor(op) \in Operations /\ J!Exists(EntryFor(op))
  BY <1>1, RowFields
<1>3. ops[op].entry # None
  BY <1>2, Constants DEF EntryFor
<1>4. Mutation(EntryFor(op)) = op
  BY <1>3 DEF J!Owns, EntryFor, Mutation
<1>5. entries[EntryFor(op)] \in J!Entry
  BY <1>2, EntryFields
<1>. QED
  BY <1>1, <1>2, <1>3, <1>4, <1>5

(* The status of a receipt and of an acknowledgement.                      *)
LEMMA StatusFacts ==
    ASSUME JournalTypes, NEW op \in Operations, Proper(op)
    PROVE  /\ J!AckStatus(op) \in {"queued", "applied"}
           /\ {"queued", "delivering", "failed", "uncertain", "delivered", "applied"} = J!Statuses
           /\ J!Allowed(op, "failed", FALSE) => ops[op].status \in {"queued", "delivering"}
           /\ J!Allowed(op, "uncertain", FALSE) => ops[op].status \in {"queued", "delivering"}
           /\ J!Allowed(op, "queued", FALSE) => ops[op].status = "delivering"
           /\ J!Allowed(op, "delivering", ops[op].status = "delivering")
                 => ops[op].status \in {"queued", "delivering"}
BY RowFields DEF J!AckStatus, J!Statuses, J!Allowed

LEMMA PrepareEffect ==
    ASSUME JournalTypes, NEW op \in Operations, NEW input, J!Prepare(op, input, Thread)
    PROVE  LET e == EntryFor(op) IN
           /\ Waiting(op)
           /\ RowStep(op, "delivering")
           /\ EntryStep(e, entries[e].state, op, entries[e].submission)
<1>. DEFINE e == EntryFor(op)
<1>1. J!Owns(op) /\ ops[op].status = "queued"
  BY DEF J!Prepare, J!CanPrepare
<1>2. Proper(op) /\ e \in Operations /\ Mutation(e) = op /\ entries[e] \in J!Entry
      /\ ops[op].entry # None
  BY <1>1, OwnsFacts
<1>3. RowStep(op, "delivering")
  BY <1>2, ReceiptRow DEF J!Prepare, J!Statuses
<1>. DEFINE x == [entries[e] EXCEPT !.binding = Thread]
            v == [entries[e].versions EXCEPT ![entries[e].revision].input = input]
            y == [x EXCEPT !.versions = v]
<1>4. J!SetEntry(e, y)
  BY <1>2 DEF J!Prepare, J!Prepared, EntryFor
<1>5. x \in J!Entry /\ x.state = entries[e].state /\ x.mutation = op
      /\ x.submission = entries[e].submission
  BY <1>2 DEF J!Entry, Mutation
<1>. HIDE DEF x, v
<1>6. y.state = entries[e].state /\ y.mutation = op /\ y.submission = entries[e].submission
  BY <1>5 DEF J!Entry
<1>7. entries[e].state \in J!States
  BY <1>2 DEF J!Entry
<1>. HIDE DEF y
<1>8. EntryStep(e, entries[e].state, op, entries[e].submission)
  BY <1>2, <1>4, <1>6, <1>7, EntryWritten
<1>. QED
  BY <1>1, <1>2, <1>3, <1>8 DEF Waiting

(* The state an entry gets by a transition that spares proven entries.     *)
Spared(e, state) == IF entries[e].state = "delivered" THEN "delivered" ELSE state

LEMMA SparedFacts ==
    ASSUME JournalTypes, NEW e \in Operations, J!Exists(e), NEW state \in J!States
    PROVE  /\ Spared(e, state) \in J!States
           /\ (IF entries[e].proof = None THEN state ELSE entries[e].state) = Spared(e, state)
BY EntryFields DEF Spared

LEMMA DeferEffect ==
    ASSUME JournalTypes, NEW op \in Operations, J!Defer(op)
    PROVE  /\ ops[op].status = "delivering" /\ Mutation(EntryFor(op)) = op
           /\ RowStep(op, "queued") /\ UNCHANGED entries
<1>1. J!Owns(op) /\ J!Allowed(op, "queued", FALSE) /\ UNCHANGED entries
  BY DEF J!Defer
<1>2. Proper(op) /\ Mutation(EntryFor(op)) = op
  BY <1>1, OwnsFacts
<1>3. RowStep(op, "queued")
  BY <1>2, ReceiptRow DEF J!Defer, J!Statuses
<1>. QED
  BY <1>1, <1>2, <1>3, StatusFacts

LEMMA WithdrawSeatEffect ==
    ASSUME JournalTypes, NEW op \in Operations, J!WithdrawSeat(op)
    PROVE  /\ Waiting(op) /\ ops[op].action = "add" /\ EntryFor(op) = op
           /\ RowStep(op, "failed")
           /\ EntryStep(op, "refused", None, entries[op].submission)
<1>1. J!Owns(op) /\ ops[op].action = "add" /\ ops[op].status = "queued"
  BY DEF J!WithdrawSeat, J!CanWithdrawSeat
<1>2. Proper(op) /\ Mutation(EntryFor(op)) = op /\ EntryFor(op) = op /\ entries[op] \in J!Entry
  BY <1>1, OwnsFacts, RowFields
<1>3. RowStep(op, "failed")
  BY <1>2, ReceiptRow DEF J!WithdrawSeat, J!Statuses
<1>. DEFINE x == [entries[op] EXCEPT !.state = "refused", !.mutation = None]
<1>4. x.state = "refused" /\ x.mutation = None /\ x.submission = entries[op].submission
  BY <1>2 DEF J!Entry
<1>5. J!SetEntry(op, x)
  BY DEF J!WithdrawSeat
<1>. HIDE DEF x
<1>6. EntryStep(op, "refused", None, entries[op].submission)
  BY <1>4, <1>5, EntryWritten DEF J!States
<1>. QED
  BY <1>1, <1>2, <1>3, <1>6 DEF Waiting

LEMMA MarkedEffect ==
    ASSUME JournalTypes, NEW e \in Operations, J!Exists(e), NEW state \in J!States,
           J!SetEntry(e, J!Marked(entries[e], state))
    PROVE  EntryStep(e, Spared(e, state), Mutation(e), entries[e].submission)
<1>. DEFINE x == J!Marked(entries[e], state)
<1>1. entries[e] \in J!Entry /\ Spared(e, state) \in J!States
  BY EntryFields, SparedFacts
<1>2. x = [entries[e] EXCEPT !.state = Spared(e, state)]
  BY SparedFacts DEF J!Marked
<1>3. x.state = Spared(e, state) /\ x.mutation = Mutation(e)
      /\ x.submission = entries[e].submission
  BY <1>1, <1>2 DEF J!Entry, Mutation
<1>. HIDE DEF x
<1>. QED
  BY <1>1, <1>3, EntryWritten DEF x

LEMMA MarkWithdrawnEffect ==
    ASSUME JournalTypes, NEW op \in Operations, J!MarkWithdrawn(op)
    PROVE  LET e == EntryFor(op) IN
           /\ ops[op].action = "send-now" /\ Mutation(e) = op
           /\ RowStep(op, "delivering")
           /\ EntryStep(e, Spared(e, "withdrawn"), op, entries[e].submission)
<1>. DEFINE e == EntryFor(op)
<1>1. J!Owns(op) /\ ops[op].action = "send-now"
  BY DEF J!MarkWithdrawn, J!CanMarkWithdrawn
<1>2. Proper(op) /\ e \in Operations /\ J!Exists(e) /\ Mutation(e) = op
  BY <1>1, OwnsFacts
<1>3. RowStep(op, "delivering")
  BY <1>2, ReceiptRow DEF J!MarkWithdrawn, J!Statuses
<1>4. J!SetEntry(e, J!Marked(entries[e], "withdrawn")) /\ "withdrawn" \in J!States
  BY DEF J!MarkWithdrawn, EntryFor, J!States
<1>5. EntryStep(e, Spared(e, "withdrawn"), Mutation(e), entries[e].submission)
  BY <1>2, <1>4, MarkedEffect
<1>. QED
  BY <1>1, <1>2, <1>3, <1>5

LEMMA MarkUncertainEffect ==
    ASSUME JournalTypes, NEW op \in Operations, J!MarkUncertain(op)
    PROVE  LET e == EntryFor(op) IN
           /\ Mutation(e) = op
           /\ RowStep(op, "uncertain")
           /\ EntryStep(e, Spared(e, "uncertain"), op, entries[e].submission)
<1>. DEFINE e == EntryFor(op)
<1>1. J!Owns(op)
  BY DEF J!MarkUncertain, J!CanMarkUncertain
<1>2. Proper(op) /\ e \in Operations /\ J!Exists(e) /\ Mutation(e) = op /\ ops[op].entry # None
  BY <1>1, OwnsFacts
<1>3. RowStep(op, "uncertain")
  BY <1>2, ReceiptRow DEF J!MarkUncertain, J!Statuses
<1>4. J!SetEntry(e, J!Marked(entries[e], "uncertain")) /\ "uncertain" \in J!States
  BY <1>2 DEF J!MarkUncertain, EntryFor, J!States
<1>5. EntryStep(e, Spared(e, "uncertain"), Mutation(e), entries[e].submission)
  BY <1>2, <1>4, MarkedEffect
<1>. QED
  BY <1>2, <1>3, <1>5

(* A refusal ends a message for good only when it refuses its add.         *)
RefusedState(op) ==
    IF ops[op].action = "add" THEN Spared(EntryFor(op), "refused") ELSE entries[EntryFor(op)].state

LEMMA RefuseEffect ==
    ASSUME JournalTypes, NEW op \in Operations, J!Refuse(op)
    PROVE  LET e == EntryFor(op) IN
           /\ Mutation(e) = op /\ ops[op].status \in {"queued", "delivering"} /\ Proper(op)
           /\ RowStep(op, "failed")
           /\ EntryStep(e, RefusedState(op), None, entries[e].submission)
<1>. DEFINE e == EntryFor(op)
            x == J!Refused(op, entries[e])
<1>1. J!Owns(op) /\ J!Allowed(op, "failed", FALSE)
  BY DEF J!Refuse, J!CanRefuse
<1>2. /\ Proper(op) /\ e \in Operations /\ J!Exists(e) /\ Mutation(e) = op
      /\ ops[op].entry # None /\ entries[e] \in J!Entry
  BY <1>1, OwnsFacts
<1>3. RowStep(op, "failed")
  BY <1>2, ReceiptRow DEF J!Refuse, J!Statuses
<1>4. J!SetEntry(e, x)
  BY <1>2 DEF J!Refuse, EntryFor
<1>5. x.mutation = None /\ x.submission = entries[e].submission
  BY <1>2 DEF J!Refused, J!Entry
<1>6. x.state = RefusedState(op) /\ x.state \in J!States
  <2>1. x.state = IF ops[op].action = "add" /\ entries[e].proof = None
                  THEN "refused" ELSE entries[e].state
    BY <1>2 DEF J!Refused, J!Entry
  <2>2. entries[e].proof # None <=> entries[e].state = "delivered"
    BY <1>2, EntryFields
  <2>3. entries[e].state \in J!States /\ "refused" \in J!States
    BY <1>2 DEF J!Entry, J!States
  <2>. QED
    BY <2>1, <2>2, <2>3 DEF RefusedState, Spared
<1>. HIDE DEF x
<1>7. EntryStep(e, RefusedState(op), None, entries[e].submission)
  BY <1>2, <1>4, <1>5, <1>6, EntryWritten
<1>. QED
  BY <1>1, <1>2, <1>3, <1>7, StatusFacts

(* Any acknowledgement, and an observation, resolves the mutation.         *)
LEMMA QueuedEffect ==
    ASSUME JournalTypes, NEW op \in Operations, NEW s \in Submissions,
           J!AcknowledgeQueued(op, s) \/ J!ObserveQueued(op, s)
    PROVE  LET e == EntryFor(op) IN
           /\ Mutation(e) = op /\ ops[op].action \in {"add", "update"}
           /\ entries[e].submission \in {None, s}
           /\ RowStep(op, J!AckStatus(op))
           /\ EntryStep(e, Spared(e, "queued"), None, s)
<1>. DEFINE e == EntryFor(op)
            x == J!Queued(entries[e], s)
<1>1. J!Owns(op) /\ J!AcceptsSubmission(op, s)
  BY DEF J!AcknowledgeQueued, J!CanAcknowledge, J!ObserveQueued, J!CanObserveQueued
<1>2. /\ Proper(op) /\ e \in Operations /\ J!Exists(e) /\ Mutation(e) = op
      /\ entries[e] \in J!Entry
  BY <1>1, OwnsFacts
<1>3. RowStep(op, J!AckStatus(op))
  BY <1>2, ReceiptRow, StatusFacts DEF J!AcknowledgeQueued, J!ObserveQueued
<1>4. J!SetEntry(e, x)
  BY DEF J!AcknowledgeQueued, J!ObserveQueued, EntryFor
<1>5. "queued" \in J!States
  BY DEF J!States
<1>6. x = [entries[e] EXCEPT !.submission = s, !.mutation = None, !.state = Spared(e, "queued")]
  BY <1>2, <1>5, SparedFacts DEF J!Queued
<1>7. Spared(e, "queued") \in J!States
  BY <1>2, <1>5, SparedFacts
<1>8. x.mutation = None /\ x.submission = s /\ x.state = Spared(e, "queued")
  BY <1>2, <1>6 DEF J!Entry
<1>. HIDE DEF x
<1>9. EntryStep(e, Spared(e, "queued"), None, s)
  BY <1>2, <1>4, <1>7, <1>8, EntryWritten
<1>. QED
  BY <1>1, <1>2, <1>3, <1>9 DEF J!AcceptsSubmission, EntryFor

LEMMA DispatchedEffect ==
    ASSUME JournalTypes, NEW op \in Operations, NEW turn, J!AcknowledgeDispatched(op, turn)
    PROVE  LET e == EntryFor(op) IN
           /\ Mutation(e) = op
           /\ RowStep(op, J!AckStatus(op))
           /\ EntryStep(e, Spared(e, "dispatching"), None, entries[e].submission)
<1>. DEFINE e == EntryFor(op)
            x == J!Dispatched(entries[e], turn)
<1>1. J!Owns(op)
  BY DEF J!AcknowledgeDispatched, J!CanAcknowledge
<1>2. /\ Proper(op) /\ e \in Operations /\ J!Exists(e) /\ Mutation(e) = op
      /\ entries[e] \in J!Entry
  BY <1>1, OwnsFacts
<1>3. RowStep(op, J!AckStatus(op))
  BY <1>2, ReceiptRow, StatusFacts DEF J!AcknowledgeDispatched
<1>4. J!SetEntry(e, x)
  BY DEF J!AcknowledgeDispatched, EntryFor
<1>5. "dispatching" \in J!States
  BY DEF J!States
<1>6. x.mutation = None /\ x.submission = entries[e].submission
  BY <1>2 DEF J!Dispatched, J!Entry
<1>7. x.state = IF entries[e].proof = None THEN "dispatching" ELSE entries[e].state
  BY <1>2 DEF J!Dispatched, J!Entry
<1>8. x.state = Spared(e, "dispatching") /\ x.state \in J!States
  BY <1>2, <1>5, <1>7, SparedFacts
<1>. HIDE DEF x
<1>9. EntryStep(e, Spared(e, "dispatching"), None, entries[e].submission)
  BY <1>2, <1>4, <1>6, <1>8, EntryWritten
<1>. QED
  BY <1>2, <1>3, <1>9

DeletedState(deleted) == IF deleted THEN "removed" ELSE "uncertain"

LEMMA DeletedEffect ==
    ASSUME JournalTypes, NEW op \in Operations, NEW deleted \in BOOLEAN,
           J!AcknowledgeDeleted(op, deleted)
    PROVE  LET e == EntryFor(op) IN
           /\ Mutation(e) = op /\ ops[op].action = "delete"
           /\ RowStep(op, J!AckStatus(op))
           /\ EntryStep(e, Spared(e, DeletedState(deleted)), None, entries[e].submission)
<1>. DEFINE e == EntryFor(op)
            x == J!Deleted(entries[e], deleted)
<1>1. J!Owns(op) /\ ops[op].action = "delete"
  BY DEF J!AcknowledgeDeleted, J!CanAcknowledge
<1>2. /\ Proper(op) /\ e \in Operations /\ J!Exists(e) /\ Mutation(e) = op
      /\ entries[e] \in J!Entry
  BY <1>1, OwnsFacts
<1>3. RowStep(op, J!AckStatus(op))
  BY <1>2, ReceiptRow, StatusFacts DEF J!AcknowledgeDeleted
<1>4. J!SetEntry(e, x)
  BY DEF J!AcknowledgeDeleted, EntryFor
<1>5. DeletedState(deleted) \in J!States
  BY DEF J!States, DeletedState
<1>6. x.mutation = None /\ x.submission = entries[e].submission
  BY <1>2 DEF J!Deleted, J!Entry
<1>7. x.state = IF entries[e].proof = None THEN DeletedState(deleted) ELSE entries[e].state
  BY <1>2 DEF J!Deleted, J!Entry, DeletedState
<1>8. x.state = Spared(e, DeletedState(deleted)) /\ x.state \in J!States
  BY <1>2, <1>5, <1>7, SparedFacts
<1>. HIDE DEF x
<1>9. EntryStep(e, Spared(e, DeletedState(deleted)), None, entries[e].submission)
  BY <1>2, <1>4, <1>6, <1>8, EntryWritten
<1>. QED
  BY <1>1, <1>2, <1>3, <1>9

LEMMA RemoveEffect ==
    ASSUME JournalTypes, NEW e \in Operations, J!Remove(e)
    PROVE  /\ entries[e].state = "removed" /\ Mutation(e) = None /\ J!Exists(e)
           /\ RowStep(e, "failed") /\ EntryFor(e) = e /\ UNCHANGED entries
<1>1. J!Retained(e) /\ J!Exists(e) /\ entries[e].state = "removed" /\ Mutation(e) = None
      /\ UNCHANGED entries /\ J!SetReceipt(e, "failed", FALSE)
  BY DEF J!Remove, J!CanRemove, Mutation
<1>2. Proper(e) /\ EntryFor(e) = e
  <2>1. JP!EntryInv(e) /\ entries[e] # JP!NoEntry
    BY <1>1 DEF JournalTypes, JP!JournalInd, J!Exists, J!NoEntry, JP!NoEntry
  <2>. QED
    BY <1>1, <2>1 DEF JP!EntryInv, JP!Truth, JP!NoOp, JP!RejectedOp, J!Retained, J!NoOp,
                      J!RejectedOp, Proper, IsRow, EntryFor
<1>3. RowStep(e, "failed")
  BY <1>1, <1>2, ReceiptRow DEF J!Statuses
<1>. QED
  BY <1>1, <1>2, <1>3

LEMMA ProveEffect ==
    ASSUME JournalTypes, NEW e \in Operations, NEW proof, J!Prove(e, proof)
    PROVE  /\ J!Exists(e) /\ EntryFor(e) = e
           /\ RowStep(e, "delivered")
           /\ EntryStep(e, "delivered", IF Mutation(e) = e THEN None ELSE Mutation(e),
                        entries[e].submission)
<1>1. J!Retained(e) /\ J!Exists(e) /\ J!SetReceipt(e, "delivered", TRUE)
      /\ J!SetEntry(e, J!Proven(e, entries[e], proof))
  BY DEF J!Prove, J!CanProve
<1>2. Proper(e) /\ EntryFor(e) = e /\ entries[e] \in J!Entry
  <2>1. JP!EntryInv(e) /\ entries[e] # JP!NoEntry
    BY <1>1 DEF JournalTypes, JP!JournalInd, J!Exists, J!NoEntry, JP!NoEntry
  <2>. QED
    BY <1>1, <2>1, EntryFields
       DEF JP!EntryInv, JP!Truth, JP!NoOp, JP!RejectedOp, J!Retained, J!NoOp,
           J!RejectedOp, Proper, IsRow, EntryFor
<1>3. RowStep(e, "delivered")
  BY <1>1, <1>2, ReceiptRow DEF J!Statuses
<1>. DEFINE x == J!Proven(e, entries[e], proof)
<1>4. /\ x.state = "delivered" /\ x.submission = entries[e].submission
      /\ x.mutation = IF Mutation(e) = e THEN None ELSE Mutation(e)
  BY <1>2 DEF J!Proven, J!Entry, Mutation
<1>. HIDE DEF x
<1>5. EntryStep(e, "delivered", IF Mutation(e) = e THEN None ELSE Mutation(e),
                entries[e].submission)
  BY <1>1, <1>4, EntryWritten DEF J!States, x
<1>. QED
  BY <1>1, <1>2, <1>3, <1>5

(* A new operation has a row of its own.                                   *)
RowAdmitted(op, action, e) ==
    /\ \A q \in Operations \ {op} : ops'[q] = ops[q]
    /\ ~Proper(op) /\ Proper(op)'
    /\ ops'[op].status = "queued"
    /\ ops'[op].action = action /\ ops'[op].entry = e

LEMMA FreshFacts ==
    ASSUME JournalTypes, NEW op \in Operations, NEW action \in J!Actions, NEW send \in BOOLEAN,
           NEW e \in Operations, NEW revision \in Nat, J!Fresh(op),
           ops' = [ops EXCEPT ![op] = J!Admitted(action, send, e, Thread, revision)]
    PROVE  RowAdmitted(op, action, e) /\ ~J!Exists(op)
<1>1. DOMAIN ops = Operations
  BY DEF JournalTypes, JP!JournalInd, JP!TypeOK
<1>2. ops[op] = J!NoOp /\ ~J!Exists(op)
  BY DEF J!Fresh, J!Retained
<1>3. ops'[op] = J!Admitted(action, send, e, Thread, revision)
      /\ \A q \in Operations \ {op} : ops'[q] = ops[q]
  BY <1>1
<1>4. ops'[op].status = "queued" /\ ops'[op].action = action /\ ops'[op].entry = e
  BY <1>3 DEF J!Admitted
<1>5. Proper(op)'
  BY <1>4, RowFields DEF Proper, IsRow, J!NoOp, J!RejectedOp
<1>. QED
  BY <1>2, <1>3, <1>4, <1>5 DEF RowAdmitted, Proper, IsRow

LEMMA AdmitAddEffect ==
    ASSUME JournalTypes, NEW op \in Operations, NEW send \in BOOLEAN,
           J!AdmitAdd(op, send, Thread)
    PROVE  /\ RowAdmitted(op, "add", op) /\ ~J!Exists(op)
           /\ EntryStep(op, "admitted", op, None)
<1>1. RowAdmitted(op, "add", op) /\ ~J!Exists(op)
  BY FreshFacts DEF J!AdmitAdd, J!Actions
<1>. DEFINE x == [binding |-> Thread, state |-> "admitted", mutation |-> op, submission |-> None,
                  revision |-> 1, versions |-> <<[op |-> op, input |-> None]>>,
                  dispatched |-> 0, turn |-> None, proof |-> None]
<1>2. J!SetEntry(op, x)
  BY DEF J!AdmitAdd, J!SetEntry
<1>3. x.state = "admitted" /\ x.mutation = op /\ x.submission = None
  OBVIOUS
<1>. HIDE DEF x
<1>4. EntryStep(op, "admitted", op, None)
  BY <1>2, <1>3, EntryWritten DEF J!States
<1>. QED
  BY <1>1, <1>4

LEMMA AdmitControlEffect ==
    ASSUME JournalTypes, NEW op \in Operations, NEW e \in Operations,
           NEW action \in {"update", "delete", "start", "send-now"},
           J!Exists(e), J!AdmitControl(op, action, e, Thread, entries[e].revision)
    PROVE  /\ RowAdmitted(op, action, e) /\ ~J!Exists(op)
           /\ Mutation(e) = None
           /\ entries[e].state \in {"queued", "withdrawn"}
           /\ entries[e].state = "withdrawn" => action = "start"
           /\ EntryStep(e, entries[e].state, op, entries[e].submission)
<1>1. J!Controllable(action, e, Thread, entries[e].revision)
  BY DEF J!AdmitControl
<1>2. entries[e] \in J!Entry /\ entries[e].revision \in Nat /\ entries[e].state \in J!States
  BY EntryFields, Constants
<1>3. RowAdmitted(op, action, e) /\ ~J!Exists(op)
  <2>1. action \in J!Actions
    BY DEF J!Actions
  <2>2. /\ J!Fresh(op)
        /\ ops' = [ops EXCEPT ![op] = J!Admitted(action, FALSE, e, Thread, entries[e].revision)]
    BY DEF J!AdmitControl
  <2>. QED
    BY <1>2, <2>1, <2>2, FreshFacts
<1>. DEFINE x == J!Controlled(op, action, entries[e])
<1>4. J!SetEntry(e, x)
  BY DEF J!AdmitControl, J!SetEntry
<1>5. x.state = entries[e].state /\ x.mutation = op /\ x.submission = entries[e].submission
  BY <1>2 DEF J!Controlled, J!Entry
<1>. HIDE DEF x
<1>6. EntryStep(e, entries[e].state, op, entries[e].submission)
  BY <1>2, <1>4, <1>5, EntryWritten
<1>. QED
  BY <1>1, <1>3, <1>6 DEF J!Controllable, Mutation

-----------------------------------------------------------------------------
(* The frame of a step                                                     *)

(* No row is dropped or rewritten into another operation.                  *)
RowsKept ==
    \A q \in Operations : Proper(q) =>
        /\ IsRow(ops'[q])
        /\ ops'[q].action = ops[q].action /\ ops'[q].entry = ops[q].entry

LEMMA RowsStay ==
    ASSUME JournalTypes, JournalStep,
           \/ UNCHANGED ops
           \/ \E op \in Operations, status \in J!Statuses : RowStep(op, status)
           \/ \E op, e \in Operations, action \in J!Actions \ {"reorder"} :
                 RowAdmitted(op, action, e)
    PROVE  JournalTypes' /\ RowsKept
<1>1. JP!JournalInd'
  BY JournalKept DEF JournalTypes
<1>2. CASE UNCHANGED ops
  BY <1>1, <1>2 DEF JournalTypes, RowsKept, Proper, IsRow
<1>3. ASSUME NEW op \in Operations, NEW status \in J!Statuses, RowStep(op, status)
      PROVE  JournalTypes' /\ RowsKept
  <2>1. ASSUME NEW q \in Operations
        PROVE  /\ Proper(q) => /\ Proper(q)'
                               /\ ops'[q].action = ops[q].action /\ ops'[q].entry = ops[q].entry
               /\ Proper(q)' => ops'[q].action # "reorder"
    <3>1. CASE q = op
      BY <1>3, <3>1 DEF RowStep, JournalTypes
    <3>2. CASE q # op
      BY <1>3, <3>2 DEF RowStep, JournalTypes, Proper, IsRow
    <3>. QED
      BY <3>1, <3>2
  <2>. QED
    BY <1>1, <2>1 DEF RowsKept, JournalTypes, Proper
<1>4. ASSUME NEW op \in Operations, NEW e \in Operations,
             NEW action \in J!Actions \ {"reorder"}, RowAdmitted(op, action, e)
      PROVE  JournalTypes' /\ RowsKept
  <2>1. ASSUME NEW q \in Operations
        PROVE  /\ Proper(q) => /\ Proper(q)'
                               /\ ops'[q].action = ops[q].action /\ ops'[q].entry = ops[q].entry
               /\ Proper(q)' => ops'[q].action # "reorder"
    <3>1. CASE q = op
      BY <1>4, <3>1 DEF RowAdmitted, JournalTypes
    <3>2. CASE q # op
      BY <1>4, <3>2 DEF RowAdmitted, JournalTypes, Proper, IsRow
    <3>. QED
      BY <3>1, <3>2
  <2>. QED
    BY <1>1, <2>1 DEF RowsKept, JournalTypes, Proper
<1>. QED
  BY <1>2, <1>3, <1>4

(* An executor at work.                                                    *)
LEMMA AtWork ==
    ASSUME ExecTypes, NEW x \in Executors, ~At(x, "idle")
    PROVE  /\ exec[x] \in Workers /\ exec[x].pc \in Stages
           /\ Op(x) \in Operations /\ Proper(Op(x))
           /\ exec[x].pc \in Stages \ {"known", "refusing"} => exec[x].revision \in 1..MaxRevision
<1>1. exec[x] \in Workers
  BY DEF ExecTypes, At, Idle
<1>2. exec[x].pc \in Stages /\ Op(x) \in Operations /\ exec[x].revision \in 0..MaxRevision
  BY <1>1 DEF Workers, Op
<1>3. Called(x)
  BY DEF ExecTypes
<1>. QED
  BY <1>1, <1>2, <1>3, Constants DEF Called

LEMMA AtStage ==
    ASSUME ExecTypes, NEW x \in Executors, NEW pc \in Stages, At(x, pc)
    PROVE  /\ ~At(x, "idle") /\ exec[x] \in Workers /\ exec[x].pc = pc
           /\ Op(x) \in Operations /\ Proper(Op(x))
           /\ pc \notin {"known", "refusing"} => exec[x].revision \in 1..MaxRevision
<1>1. ~At(x, "idle") /\ exec[x].pc = pc
  BY DEF At, Stages
<1>. QED
  BY <1>1, AtWork

(* One executor takes a step.                                              *)
ExecStep(x, v) ==
    exec'[x] = v /\ \A y \in Executors \ {x} : exec'[y] = exec[y]

LEMMA ExecTyped ==
    ASSUME ExecTypes, RowsKept, NEW x \in Executors, NEW v,
           \/ v = Idle
           \/ /\ v \in Workers /\ IsRow(ops'[v.op])
              /\ v.pc \in Stages \ {"known", "refusing"} => v.revision # 0,
           exec' = [exec EXCEPT ![x] = v]
    PROVE  ExecTypes' /\ ExecStep(x, v)
<1>1. exec' \in [Executors -> Workers \cup {Idle}]
  BY DEF ExecTypes
<1>2. ExecStep(x, v)
  BY DEF ExecTypes, ExecStep
<1>3. ASSUME NEW y \in Executors
      PROVE  Called(y)'
  <2>1. CASE y = x
    BY <1>2, <2>1 DEF ExecStep, Called, Proper, At, Op, Idle
  <2>2. CASE y # x
    <3>1. exec'[y] = exec[y] /\ Called(y)
      BY <1>2, <2>2 DEF ExecStep, ExecTypes
    <3>2. ~At(y, "idle") => Op(y) \in Operations
      BY AtWork
    <3>. QED
      BY <3>1, <3>2 DEF Called, Proper, At, Op, RowsKept
  <2>. QED
    BY <2>1, <2>2
<1>. QED
  BY <1>1, <1>2, <1>3 DEF ExecTypes

LEMMA StopTyped ==
    ASSUME ExecTypes, RowsKept, NEW x \in Executors, Stop(x)
    PROVE  ExecTypes' /\ ExecStep(x, Idle)
BY ExecTyped DEF Stop

LEMMA MoveTyped ==
    ASSUME ExecTypes, RowsKept, NEW x \in Executors, NEW pc \in Stages, ~At(x, "idle"),
           pc \notin {"known", "refusing"} => exec[x].revision # 0, Move(x, pc)
    PROVE  ExecTypes' /\ ExecStep(x, Moved(exec[x], pc))
<1>1. exec[x] \in Workers /\ Op(x) \in Operations /\ Proper(Op(x))
  BY AtWork
<1>2. /\ Moved(exec[x], pc) \in Workers /\ Moved(exec[x], pc).pc = pc
      /\ Moved(exec[x], pc).op = Op(x) /\ Moved(exec[x], pc).revision = exec[x].revision
  BY <1>1, MovedFields DEF Op
<1>3. IsRow(ops'[Op(x)])
  BY <1>1 DEF RowsKept
<1>4. exec' = [exec EXCEPT ![x] = Moved(exec[x], pc)]
  BY DEF Move, Moved
<1>. QED
  BY <1>2, <1>3, <1>4, ExecTyped

LEMMA ThrowTyped ==
    ASSUME ExecTypes, RowsKept, NEW x \in Executors, NEW ends \in {"failed", "uncertain"},
           ~At(x, "idle"), exec[x].revision # 0, Throw(x, ends)
    PROVE  ExecTypes' /\ ExecStep(x, Thrown(exec[x], ends))
<1>1. exec[x] \in Workers /\ Op(x) \in Operations /\ Proper(Op(x))
  BY AtWork
<1>2. /\ Thrown(exec[x], ends) \in Workers
      /\ Thrown(exec[x], ends).op = Op(x) /\ Thrown(exec[x], ends).revision = exec[x].revision
  BY <1>1, ThrownFields DEF Op
<1>3. IsRow(ops'[Op(x)])
  BY <1>1 DEF RowsKept
<1>4. exec' = [exec EXCEPT ![x] = Thrown(exec[x], ends)]
  BY DEF Throw, Thrown
<1>. QED
  BY <1>2, <1>3, <1>4, ExecTyped

-----------------------------------------------------------------------------
(* The transitions the system makes are transitions of the journal.        *)

Journaled == JournalStep /\ JournalTypes' /\ RowsKept

LEMMA JournalIdles ==
    ASSUME JournalTypes, UNCHANGED journal
    PROVE  Journaled
BY RowsStay DEF journal, JournalStep, Journaled

LEMMA Transitions ==
    ASSUME NEW op \in Operations, J!Transition(op)
    PROVE  JournalStep
BY DEF J!Next, JournalStep

LEMMA Rows ==
    ASSUME JournalTypes, NEW op \in Operations, NEW status \in J!Statuses, RowStep(op, status),
           J!Transition(op)
    PROVE  Journaled
BY RowsStay, Transitions DEF Journaled

LEMMA PrepareJournaled ==
    ASSUME JournalTypes, NEW op \in Operations, NEW input \in 1..MaxRevision,
           J!Prepare(op, input, Thread)
    PROVE  Journaled
<1>1. J!Transition(op)
  BY DEF J!Transition
<1>. QED
  BY <1>1, PrepareEffect, Rows DEF J!Statuses

LEMMA DeferJournaled ==
    ASSUME JournalTypes, NEW op \in Operations, J!Defer(op)
    PROVE  Journaled
<1>1. J!Transition(op)
  BY DEF J!Transition
<1>. QED
  BY <1>1, DeferEffect, Rows DEF J!Statuses

LEMMA WithdrawSeatJournaled ==
    ASSUME JournalTypes, NEW op \in Operations, J!WithdrawSeat(op)
    PROVE  Journaled
<1>1. J!Transition(op)
  BY DEF J!Transition
<1>. QED
  BY <1>1, WithdrawSeatEffect, Rows DEF J!Statuses

LEMMA MarkJournaled ==
    ASSUME JournalTypes, NEW op \in Operations, J!MarkWithdrawn(op) \/ J!MarkUncertain(op)
    PROVE  Journaled
<1>1. J!Transition(op)
  BY DEF J!Transition
<1>. QED
  BY <1>1, MarkWithdrawnEffect, MarkUncertainEffect, Rows DEF J!Statuses

LEMMA RefuseJournaled ==
    ASSUME JournalTypes, NEW op \in Operations, J!Refuse(op)
    PROVE  Journaled
<1>1. J!Transition(op)
  BY DEF J!Transition
<1>. QED
  BY <1>1, RefuseEffect, Rows DEF J!Statuses

LEMMA AcknowledgeJournaled ==
    ASSUME JournalTypes, NEW op \in Operations,
           \/ \E s \in Submissions : J!AcknowledgeQueued(op, s) \/ J!ObserveQueued(op, s)
           \/ \E turn \in Turns : J!AcknowledgeDispatched(op, turn)
           \/ \E deleted \in BOOLEAN : J!AcknowledgeDeleted(op, deleted)
    PROVE  Journaled
<1>1. J!Transition(op)
  BY DEF J!Transition
<1>2. RowStep(op, J!AckStatus(op))
  BY QueuedEffect, DispatchedEffect, DeletedEffect
<1>3. J!AckStatus(op) \in J!Statuses
  BY <1>2, StatusFacts DEF RowStep
<1>. QED
  BY <1>1, <1>2, <1>3, Rows

LEMMA RemoveJournaled ==
    ASSUME JournalTypes, NEW e \in Operations, J!Remove(e)
    PROVE  Journaled
<1>1. J!Transition(e)
  BY DEF J!Transition
<1>. QED
  BY <1>1, RemoveEffect, Rows DEF J!Statuses

LEMMA ProveJournaled ==
    ASSUME JournalTypes, NEW e \in Operations, NEW proof \in J!Proof, J!Prove(e, proof)
    PROVE  Journaled
<1>1. J!Transition(e)
  BY DEF J!Transition
<1>. QED
  BY <1>1, ProveEffect, Rows DEF J!Statuses

LEMMA AdmitJournaled ==
    ASSUME JournalTypes, NEW op \in Operations,
           \/ \E send \in BOOLEAN : J!AdmitAdd(op, send, Thread)
           \/ \E action \in {"update", "delete", "start", "send-now"}, e \in Operations :
                 J!Exists(e) /\ J!AdmitControl(op, action, e, Thread, entries[e].revision)
    PROVE  Journaled
<1>1. CASE \E send \in BOOLEAN : J!AdmitAdd(op, send, Thread)
  <2>1. J!Admit(op)
    BY <1>1 DEF J!Admit
  <2>2. RowAdmitted(op, "add", op)
    BY <1>1, AdmitAddEffect
  <2>. QED
    BY <2>1, <2>2, RowsStay DEF J!Actions, J!Next, JournalStep, Journaled
<1>2. ASSUME NEW action \in {"update", "delete", "start", "send-now"}, NEW e \in Operations,
             J!Exists(e), J!AdmitControl(op, action, e, Thread, entries[e].revision)
      PROVE  Journaled
  <2>1. entries[e].revision \in 1..MaxRevision
    BY <1>2, EntryFields
  <2>2. J!Admit(op)
    BY <1>2, <2>1 DEF J!Admit, J!Actions
  <2>3. RowAdmitted(op, action, e)
    BY <1>2, AdmitControlEffect
  <2>4. action \in J!Actions \ {"reorder"}
    BY DEF J!Actions
  <2>. QED
    BY <2>2, <2>3, <2>4, RowsStay DEF J!Next, JournalStep, Journaled
<1>. QED
  BY <1>1, <1>2

(* The four kinds of reply.                                                *)
LEMMA ReplyTypes ==
    /\ \A s \in Submissions : [kind |-> "queued", sub |-> s] \in Replies
    /\ \A t \in Turns : [kind |-> "turn", turn |-> t] \in Replies
    /\ \A b \in BOOLEAN : [kind |-> "deleted", deleted |-> b] \in Replies
    /\ [kind |-> "refused"] \in Replies
    /\ \A r \in Replies : /\ r.kind \in {"queued", "turn", "deleted", "refused"}
                          /\ r.kind = "queued" => r.sub \in Submissions
                          /\ r.kind = "turn" => r.turn \in Turns
                          /\ r.kind = "deleted" => r.deleted \in BOOLEAN
BY DEF Replies

-----------------------------------------------------------------------------
(* Types: the executors                                                    *)

(* All that an executor's step but a write leaves alone.                   *)
LEMMA ExecOnly ==
    ASSUME Types, Journaled, ExecTypes', UNCHANGED <<fence, wire, codex, hosting, seen>>
    PROVE  Types'
<1>1. WireTypes' /\ SeenTypes'
  BY DEF Types, WireTypes, SeenTypes
<1>2. CodexTypes' /\ HostTypes'
  BY DEF Types, CodexTypes, HostTypes, codex, hosting
<1>. QED
  BY <1>1, <1>2 DEF Types, Journaled

LEMMA PickTyped ==
    ASSUME Types, NEW x \in Executors, NEW op \in Operations, Pick(x, op)
    PROVE  Journaled /\ ExecTypes'
<1>1. Journaled
  BY JournalIdles DEF Types, Pick
<1>2. Working(op) \in Workers /\ Working(op).pc = "known" /\ Working(op).op = op
  BY Constants DEF Working, Workers, Stages
<1>3. Proper(op)
  BY RowFields DEF Pick, Types, J!Statuses
<1>4. IsRow(ops'[op])
  BY <1>1, <1>3 DEF Journaled, RowsKept
<1>5. exec' = [exec EXCEPT ![x] = Working(op)]
  BY DEF Pick
<1>. QED
  BY <1>1, <1>2, <1>4, <1>5, ExecTyped DEF Types, Journaled

LEMMA ReadEntryTyped ==
    ASSUME Types, NEW x \in Executors, ReadEntry(x)
    PROVE  Journaled /\ ExecTypes'
<1>. DEFINE e == EntryOf(x)
            v == Informed(exec[x], IF host = 0 THEN "refusing" ELSE "read",
                          entries[e].submission, entries[e].state = "withdrawn",
                          entries[e].revision, host)
<1>1. Journaled
  BY JournalIdles DEF Types, ReadEntry
<1>2. exec[x] \in Workers /\ Op(x) \in Operations /\ Proper(Op(x))
  BY AtStage DEF Types, ReadEntry, Stages
<1>3. e \in Operations /\ J!Exists(e)
  BY <1>2, RowFields DEF Types, EntryOf, EntryFor
<1>4. /\ entries[e].submission \in Submissions \cup {None}
      /\ entries[e].revision \in 1..MaxRevision
  BY <1>3, EntryFields DEF Types
<1>5. host \in Nat
  BY Constants DEF Types, HostTypes
<1>6. entries[e].revision \in 0..MaxRevision /\ entries[e].revision # 0
  BY <1>4, Constants
<1>7. v \in Workers /\ v.op = exec[x].op /\ v.revision = entries[e].revision
  <2>. DEFINE pc == IF host = 0 THEN "refusing" ELSE "read"
              withdrawn == entries[e].state = "withdrawn"
              sub == entries[e].submission
              revision == entries[e].revision
              w == exec[x]
  <2>1. pc \in Stages
    BY DEF Stages
  <2>2. withdrawn \in BOOLEAN
    OBVIOUS
  <2>3. sub \in Submissions \cup {None} /\ revision \in 0..MaxRevision /\ w \in Workers
    BY <1>2, <1>4, <1>6
  <2>4. v = Informed(w, pc, sub, withdrawn, revision, host)
    OBVIOUS
  <2>. HIDE DEF v, pc, withdrawn, sub, revision, w
  <2>5. v \in Workers /\ v.op = w.op /\ v.revision = revision
    BY <1>5, <2>1, <2>2, <2>3, <2>4, InformedFields
  <2>. QED
    BY <2>5 DEF w, revision
<1>8. IsRow(ops'[exec[x].op])
  BY <1>1, <1>2 DEF Journaled, RowsKept, Op
<1>9. Stop(x) \/ exec' = [exec EXCEPT ![x] = v]
  BY DEF ReadEntry, Informed
<1>. HIDE DEF v
<1>10. CASE Stop(x)
  BY <1>1, <1>10, StopTyped DEF Types, Journaled
<1>11. CASE exec' = [exec EXCEPT ![x] = v]
  BY <1>1, <1>6, <1>7, <1>8, <1>11, ExecTyped DEF Types, Journaled
<1>. QED
  BY <1>1, <1>9, <1>10, <1>11

LEMMA HealthAllowsTyped ==
    ASSUME Types, NEW x \in Executors, HealthAllows(x)
    PROVE  Journaled /\ ExecTypes'
<1>. DEFINE v == Readied(exec[x], active = None)
<1>1. Journaled
  BY JournalIdles DEF Types, HealthAllows
<1>2. exec[x] \in Workers /\ Op(x) \in Operations /\ Proper(Op(x)) /\ exec[x].revision # 0
  BY AtStage DEF Types, HealthAllows, Stages
<1>3. v \in Workers /\ v.op = exec[x].op /\ v.revision = exec[x].revision
  BY <1>2, ReadiedFields
<1>4. IsRow(ops'[exec[x].op])
  BY <1>1, <1>2 DEF Journaled, RowsKept, Op
<1>5. exec' = [exec EXCEPT ![x] = v]
  BY DEF HealthAllows, Readied
<1>. HIDE DEF v
<1>. QED
  BY <1>1, <1>2, <1>3, <1>4, <1>5, ExecTyped DEF Types, Journaled

(* Steps that touch nothing but the call.                                  *)
LEMMA LocalTyped ==
    ASSUME Types, NEW x \in Executors,
           \/ Terminate(x) \/ HealthRefuses(x) \/ HealthWaits(x)
           \/ FenceUnreadable(x) \/ FenceSettled(x)
           \/ Unauthorized(x) \/ Postpone(x) \/ LoseReply(x) \/ ReceiveRefusal(x)
           \/ CatchStatus(x) \/ CatchDeferred(x) \/ CatchEntry(x) \/ Crash(x)
    PROVE  Journaled /\ ExecTypes'
<1>1. Journaled
  BY JournalIdles DEF Types, Terminate, HealthRefuses, HealthWaits, FenceUnreadable, FenceSettled,
                      Unauthorized, Postpone, LoseReply, ReceiveRefusal, CatchStatus, CatchDeferred, CatchEntry,
                      Crash
<1>2. ExecTypes /\ RowsKept
  BY <1>1 DEF Types, Journaled
<1>3. CASE Terminate(x)
  <2>1. At(x, "known") /\ Move(x, "refusing")
    BY <1>3 DEF Terminate
  <2>. QED
    BY <1>1, <1>2, <2>1, AtStage, MoveTyped DEF Stages
<1>4. CASE HealthRefuses(x) \/ Unauthorized(x) \/ ReceiveRefusal(x)
  <2>1. \E pc \in {"read", "prepared", "sent"} : At(x, pc)
    BY <1>4 DEF HealthRefuses, Unauthorized, ReceiveRefusal
  <2>2. Throw(x, "failed")
    BY <1>4 DEF HealthRefuses, Unauthorized, ReceiveRefusal
  <2>3. ~At(x, "idle") /\ exec[x].revision # 0
    BY <1>2, <2>1, AtStage DEF Stages
  <2>. QED
    BY <1>1, <1>2, <2>2, <2>3, ThrowTyped
<1>5. CASE LoseReply(x)
  <2>1. At(x, "sent") /\ Throw(x, "uncertain")
    BY <1>5 DEF LoseReply
  <2>2. ~At(x, "idle") /\ exec[x].revision # 0
    BY <1>2, <2>1, AtStage DEF Stages
  <2>. QED
    BY <1>1, <1>2, <2>1, <2>2, ThrowTyped
<1>6. CASE HealthWaits(x) \/ FenceUnreadable(x) \/ Crash(x)
  <2>1. Stop(x)
    BY <1>6 DEF HealthWaits, FenceUnreadable, Crash
  <2>. QED
    BY <1>1, <1>2, <2>1, StopTyped
<1>7. CASE FenceSettled(x) \/ Postpone(x) \/ CatchStatus(x) \/ CatchDeferred(x) \/ CatchEntry(x)
  <2>1. \E pc \in {"ready", "prepared", "caught", "deferred", "checked"} : At(x, pc)
    BY <1>7 DEF FenceSettled, Postpone, CatchStatus, CatchDeferred, CatchEntry
  <2>2. Stop(x) \/ \E pc \in {"fenced", "deferring", "checked", "ending"} : Move(x, pc)
    BY <1>7 DEF FenceSettled, Postpone, CatchStatus, CatchDeferred, CatchEntry
  <2>3. ~At(x, "idle") /\ exec[x].revision # 0
    BY <1>2, <2>1, AtStage DEF Stages
  <2>4. {"fenced", "deferring", "checked", "ending"} \subseteq Stages
    BY DEF Stages
  <2>. QED
    BY <1>1, <1>2, <2>2, <2>3, <2>4, StopTyped, MoveTyped
<1>. QED
  BY <1>3, <1>4, <1>5, <1>6, <1>7

LEMMA PrepareTyped ==
    ASSUME Types, NEW x \in Executors, Prepare(x)
    PROVE  Journaled /\ ExecTypes'
<1>. DEFINE v == Swapped(exec[x])
<1>1. /\ ~At(x, "idle") /\ exec[x] \in Workers /\ Op(x) \in Operations /\ Proper(Op(x))
      /\ exec[x].revision \in 1..MaxRevision
  BY AtStage DEF Types, Prepare, Stages
<1>2. Journaled
  <2>1. CASE J!Prepare(Op(x), exec[x].revision, Thread)
    BY <1>1, <2>1, PrepareJournaled DEF Types
  <2>2. CASE UNCHANGED journal
    BY <2>2, JournalIdles DEF Types
  <2>. QED
    BY <2>1, <2>2 DEF Prepare
<1>3. v \in Workers /\ v.op = exec[x].op /\ v.revision = exec[x].revision
  BY <1>1, SwappedFields
<1>4. IsRow(ops'[exec[x].op])
  BY <1>1, <1>2 DEF Journaled, RowsKept, Op
<1>5. exec[x].revision # 0
  BY <1>1
<1>6. Throw(x, "failed") \/ exec' = [exec EXCEPT ![x] = v]
  BY DEF Prepare, Swapped
<1>. HIDE DEF v
<1>7. CASE Throw(x, "failed")
  BY <1>1, <1>2, <1>5, <1>7, ThrowTyped DEF Types, Journaled
<1>8. CASE exec' = [exec EXCEPT ![x] = v]
  BY <1>2, <1>3, <1>4, <1>5, <1>8, ExecTyped DEF Types, Journaled
<1>. QED
  BY <1>2, <1>6, <1>7, <1>8

LEMMA SettlesTyped ==
    ASSUME Types, NEW x \in Executors,
           RefuseNow(x) \/ RefuseFenced(x) \/ Defer(x) \/ RemoveEntry(x) \/ End(x)
    PROVE  Journaled /\ ExecTypes'
<1>1. ~At(x, "idle") /\ Op(x) \in Operations /\ Proper(Op(x))
  BY AtStage DEF Types, RefuseNow, RefuseFenced, Defer, RemoveEntry, End, Stages
<1>2. EntryOf(x) \in Operations
  BY <1>1, RowFields DEF Types, EntryOf, EntryFor
<1>3. \/ UNCHANGED journal
      \/ J!Refuse(Op(x)) \/ J!Defer(Op(x)) \/ J!Remove(EntryOf(x)) \/ J!MarkUncertain(Op(x))
  BY DEF RefuseNow, RefuseFenced, Defer, RemoveEntry, End
<1>4. Journaled
  BY <1>1, <1>2, <1>3, JournalIdles, RefuseJournaled, DeferJournaled, RemoveJournaled,
     MarkJournaled DEF Types
<1>5. ExecTypes /\ RowsKept
  BY <1>4 DEF Types, Journaled
<1>6. \/ Stop(x)
      \/ /\ \E ends \in {"failed", "uncertain"} : Throw(x, ends)
         /\ \E pc \in {"fenced", "deferring", "removing"} : At(x, pc)
      \/ At(x, "deferring") /\ exec' = [exec EXCEPT ![x] = Unprepared(exec[x])]
  BY DEF RefuseNow, RefuseFenced, Defer, RemoveEntry, End, Unprepared
<1>7. CASE Stop(x)
  BY <1>4, <1>5, <1>7, StopTyped
<1>8. ASSUME NEW ends \in {"failed", "uncertain"}, Throw(x, ends),
             NEW pc \in {"fenced", "deferring", "removing"}, At(x, pc)
      PROVE  ExecTypes'
  <2>1. exec[x].revision # 0
    BY <1>5, <1>8, AtStage DEF Stages
  <2>. QED
    BY <1>1, <1>5, <1>8, <2>1, ThrowTyped
<1>9. CASE At(x, "deferring") /\ exec' = [exec EXCEPT ![x] = Unprepared(exec[x])]
  <2>. DEFINE v == Unprepared(exec[x])
  <2>1. exec[x] \in Workers /\ exec[x].revision # 0
    BY <1>5, <1>9, AtStage DEF Stages
  <2>2. v \in Workers /\ v.op = Op(x) /\ v.revision # 0
    BY <2>1, UnpreparedFields DEF Op
  <2>3. IsRow(ops'[v.op])
    BY <1>1, <1>5, <2>2 DEF RowsKept
  <2>4. exec' = [exec EXCEPT ![x] = v]
    BY <1>9
  <2>. HIDE DEF v
  <2>. QED
    BY <1>4, <1>5, <2>2, <2>3, <2>4, ExecTyped
<1>. QED
  BY <1>4, <1>6, <1>7, <1>8, <1>9

LEMMA ReplyTyped ==
    ASSUME Types, NEW x \in Executors, ReceiveReply(x) \/ ReceiveWithdrawal(x)
    PROVE  Journaled /\ ExecTypes'
<1>1. /\ ~At(x, "idle") /\ exec[x] \in Workers /\ Op(x) \in Operations /\ Proper(Op(x))
      /\ exec[x].revision # 0
  BY AtStage DEF Types, ReceiveReply, ReceiveWithdrawal, Stages
<1>. DEFINE reply == exec[x].reply
<1>2. reply # None => reply \in Replies
  BY <1>1 DEF Workers
<1>3. Journaled
  <2>1. CASE UNCHANGED journal
    BY <2>1, JournalIdles DEF Types
  <2>2. CASE J!MarkWithdrawn(Op(x)) \/ J!MarkUncertain(Op(x))
    BY <1>1, <2>2, MarkJournaled DEF Types
  <2>3. CASE reply # None /\ reply.kind # "refused" /\ Acknowledge(x, reply)
    <3>1. reply.kind \in {"queued", "turn", "deleted"}
      BY <1>2, <2>3, ReplyTypes
    <3>2. CASE reply.kind = "queued"
      <4>1. J!AcknowledgeQueued(Op(x), reply.sub) /\ reply.sub \in Submissions
        BY <1>2, <2>3, <3>2, ReplyTypes DEF Acknowledge
      <4>. QED
        BY <1>1, <4>1, AcknowledgeJournaled DEF Types
    <3>3. CASE reply.kind = "turn"
      <4>1. J!AcknowledgeDispatched(Op(x), reply.turn) /\ reply.turn \in Turns
        BY <1>2, <2>3, <3>3, ReplyTypes DEF Acknowledge
      <4>. QED
        BY <1>1, <4>1, AcknowledgeJournaled DEF Types
    <3>4. CASE reply.kind = "deleted"
      <4>1. J!AcknowledgeDeleted(Op(x), reply.deleted) /\ reply.deleted \in BOOLEAN
        BY <1>2, <2>3, <3>4, ReplyTypes DEF Acknowledge
      <4>. QED
        BY <1>1, <4>1, AcknowledgeJournaled DEF Types
    <3>. QED
      BY <3>1, <3>2, <3>3, <3>4
  <2>. QED
    BY <2>1, <2>2, <2>3 DEF ReceiveReply, ReceiveWithdrawal
<1>4. ExecTypes /\ RowsKept
  BY <1>3 DEF Types, Journaled
<1>5. \/ Stop(x)
      \/ Throw(x, "uncertain")
      \/ \E pc \in {"removing", "steering"} : Move(x, pc)
  BY DEF ReceiveReply, ReceiveWithdrawal
<1>. HIDE DEF reply
<1>6. {"removing", "steering"} \subseteq Stages
  BY DEF Stages
<1>. QED
  BY <1>1, <1>3, <1>4, <1>5, <1>6, StopTyped, ThrowTyped, MoveTyped

(* The request of a write.                                                 *)
Request(x, method) ==
    [by |-> x, op |-> Op(x), method |-> method, client |-> EntryOf(x),
     revision |-> exec[x].revision, sub |-> exec[x].sub, turn |-> fence[Op(x)]]

LEMMA SendTyped ==
    ASSUME Types, NEW x \in Executors, NEW method \in Methods,
           At(x, "prepared") \/ At(x, "steering"), Send(x, method), UNCHANGED journal
    PROVE  /\ Journaled /\ ExecTypes'
           /\ Request(x, method) \in Requests
           /\ wire' = wire \cup {Request(x, method)}
           /\ ExecStep(x, Asking(exec[x], method))
<1>. DEFINE v == Asking(exec[x], method)
<1>1. Journaled
  BY JournalIdles DEF Types
<1>2. /\ exec[x] \in Workers /\ Op(x) \in Operations /\ Proper(Op(x))
      /\ exec[x].revision \in 1..MaxRevision
  BY AtStage DEF Types, Stages
<1>3. v \in Workers /\ v.op = exec[x].op /\ v.revision = exec[x].revision
  BY <1>2, AskingFields
<1>4. IsRow(ops'[exec[x].op])
  BY <1>1, <1>2 DEF Journaled, RowsKept, Op
<1>5. exec' = [exec EXCEPT ![x] = v] /\ wire' = wire \cup {Request(x, method)}
  BY DEF Send, Asking, Request
<1>6. EntryOf(x) \in Operations
  BY <1>2, RowFields DEF Types, EntryOf, EntryFor
<1>7. exec[x].sub \in Submissions \cup {None} /\ fence[Op(x)] \in Turns \cup {None}
  BY <1>2 DEF Workers, Types, WireTypes
<1>8. Request(x, method) \in Requests
  BY <1>2, <1>6, <1>7 DEF Request, Requests
<1>9. exec[x].revision # 0
  BY <1>2
<1>. HIDE DEF v
<1>10. ExecTypes' /\ ExecStep(x, v)
  BY <1>1, <1>3, <1>4, <1>5, <1>9, ExecTyped DEF Types, Journaled
<1>. QED
  BY <1>1, <1>5, <1>8, <1>10 DEF v

LEMMA MethodTyped ==
    ASSUME NEW x, NEW guarded \in BOOLEAN
    PROVE  MethodFor(x, guarded) \in Methods
BY DEF MethodFor, Methods

LEMMA ActuateTyped ==
    ASSUME Types, NEW x \in Executors, Actuate(x)
    PROVE  Journaled /\ Types'
<1>1. PICK guarded \in BOOLEAN :
         LET method == MethodFor(x, guarded) IN
         \/ Send(x, method)
         \/ Throw(x, "failed") /\ UNCHANGED wire
  BY DEF Actuate
<1>2. MethodFor(x, guarded) \in Methods
  BY MethodTyped
<1>3. At(x, "prepared") /\ UNCHANGED <<journal, fence, codex, hosting, seen>>
  BY DEF Actuate
<1>4. CASE Send(x, MethodFor(x, guarded))
  <2>1. Journaled /\ ExecTypes' /\ wire' \in SUBSET Requests
    BY <1>2, <1>3, <1>4, SendTyped DEF Types, WireTypes
  <2>2. WireTypes' /\ SeenTypes' /\ CodexTypes' /\ HostTypes'
    BY <1>3, <2>1 DEF Types, WireTypes, SeenTypes, CodexTypes, HostTypes, codex, hosting
  <2>. QED
    BY <2>1, <2>2 DEF Types, Journaled
<1>5. CASE Throw(x, "failed") /\ UNCHANGED wire
  <2>1. Journaled
    BY <1>3, JournalIdles DEF Types
  <2>2. ~At(x, "idle") /\ exec[x].revision # 0
    BY <1>3, AtStage DEF Types, Stages
  <2>3. ExecTypes'
    BY <1>5, <2>1, <2>2, ThrowTyped DEF Types, Journaled
  <2>. QED
    BY <1>3, <1>5, <2>1, <2>3, ExecOnly
<1>. QED
  BY <1>1, <1>4, <1>5

LEMMA SteerTyped ==
    ASSUME Types, NEW x \in Executors, Steer(x)
    PROVE  Journaled /\ Types'
<1>3. At(x, "steering") /\ UNCHANGED <<journal, fence, codex, hosting, seen>>
  BY DEF Steer
<1>4. CASE Send(x, "turn/steer")
  <2>1. Journaled /\ ExecTypes' /\ wire' \in SUBSET Requests
    BY <1>3, <1>4, SendTyped DEF Types, WireTypes, Methods
  <2>2. WireTypes' /\ SeenTypes' /\ CodexTypes' /\ HostTypes'
    BY <1>3, <2>1 DEF Types, WireTypes, SeenTypes, CodexTypes, HostTypes, codex, hosting
  <2>. QED
    BY <2>1, <2>2 DEF Types, Journaled
<1>5. ASSUME NEW ends \in {"failed", "uncertain"}, Throw(x, ends), UNCHANGED wire
      PROVE  Journaled /\ Types'
  <2>1. Journaled
    BY <1>3, JournalIdles DEF Types
  <2>2. ~At(x, "idle") /\ exec[x].revision # 0
    BY <1>3, AtStage DEF Types, Stages
  <2>3. ExecTypes'
    BY <1>5, <2>1, <2>2, ThrowTyped DEF Types, Journaled
  <2>. QED
    BY <1>3, <1>5, <2>1, <2>3, ExecOnly
<1>. QED
  BY <1>4, <1>5 DEF Steer

LEMMA ExecuteTyped ==
    ASSUME Types, NEW x \in Executors, Execute(x)
    PROVE  Journaled /\ Types'
<1>1. CASE Actuate(x) \/ Steer(x)
  BY <1>1, ActuateTyped, SteerTyped
<1>2. ASSUME Journaled, ExecTypes', UNCHANGED <<fence, wire, codex, hosting, seen>>
      PROVE  Journaled /\ Types'
  BY <1>2, ExecOnly
<1>3. CASE \E op \in Operations : Pick(x, op)
  BY <1>2, <1>3, PickTyped DEF Pick
<1>4. CASE ReadEntry(x) \/ HealthAllows(x) \/ Prepare(x)
  BY <1>2, <1>4, ReadEntryTyped, HealthAllowsTyped, PrepareTyped
     DEF ReadEntry, HealthAllows, Prepare
<1>5. CASE \/ Terminate(x) \/ HealthRefuses(x) \/ HealthWaits(x)
           \/ FenceUnreadable(x) \/ FenceSettled(x)
           \/ Unauthorized(x) \/ Postpone(x) \/ LoseReply(x) \/ ReceiveRefusal(x)
           \/ CatchStatus(x) \/ CatchDeferred(x) \/ CatchEntry(x) \/ Crash(x)
  <2>1. UNCHANGED <<fence, wire, codex, hosting, seen>>
    BY <1>5 DEF Terminate, HealthRefuses, HealthWaits, FenceUnreadable, FenceSettled,
                Unauthorized, Postpone, LoseReply, ReceiveRefusal, CatchStatus, CatchDeferred, CatchEntry, Crash
  <2>. QED
    BY <1>2, <1>5, <2>1, LocalTyped
<1>6. CASE RefuseNow(x) \/ RefuseFenced(x) \/ Defer(x) \/ RemoveEntry(x) \/ End(x)
  <2>1. UNCHANGED <<fence, wire, codex, hosting, seen>>
    BY <1>6 DEF RefuseNow, RefuseFenced, Defer, RemoveEntry, End
  <2>. QED
    BY <1>2, <1>6, <2>1, SettlesTyped
<1>7. CASE ReceiveReply(x) \/ ReceiveWithdrawal(x)
  <2>1. UNCHANGED <<fence, wire, codex, hosting, seen>>
    BY <1>7 DEF ReceiveReply, ReceiveWithdrawal
  <2>. QED
    BY <1>2, <1>7, <2>1, ReplyTyped
<1>. QED
  BY <1>1, <1>3, <1>4, <1>5, <1>6, <1>7 DEF Execute

-----------------------------------------------------------------------------
(* Types: Codex, the host, admission and reconciliation                    *)

(* A reply reaches its executor, or nobody.                                *)
Reached(r, reply) ==
    \/ UNCHANGED exec
    \/ /\ r.by \in Executors /\ At(r.by, "sent")
       /\ exec[r.by].op = r.op /\ exec[r.by].method = r.method
       /\ ExecStep(r.by, Answered(exec[r.by], reply))

LEMMA AnswerTyped ==
    ASSUME Types, UNCHANGED journal, NEW r \in wire, NEW reply \in Replies, Answer(r, reply)
    PROVE  ExecTypes' /\ wire' = wire \ {r} /\ Reached(r, reply)
<1>. DEFINE x == r.by
            v == Answered(exec[x], reply)
<1>1. wire' = wire \ {r}
  BY DEF Answer
<1>2. x \in Executors
  BY DEF Types, WireTypes, Requests
<1>3. CASE UNCHANGED exec
  <2>1. ExecTypes'
    BY <1>3 DEF Types, ExecTypes, Called, At, Op, Proper, journal
  <2>. QED
    BY <1>1, <1>3, <2>1 DEF Reached
<1>4. CASE /\ At(x, "sent") /\ exec[x].op = r.op /\ exec[x].method = r.method
           /\ exec' = [exec EXCEPT ![x].reply = reply]
  <2>1. exec[x] \in Workers /\ Proper(Op(x)) /\ exec[x].revision # 0
    BY <1>2, <1>4, AtStage DEF Types, Stages
  <2>2. v \in Workers /\ v.op = exec[x].op /\ v.revision = exec[x].revision
    BY <2>1, AnsweredFields
  <2>3. exec' = [exec EXCEPT ![x] = v]
    BY <1>4 DEF Answered
  <2>4. IsRow(ops'[exec[x].op]) /\ RowsKept
    BY <2>1, JournalIdles DEF Proper, Op, Types, Journaled, journal
  <2>. HIDE DEF v
  <2>5. ExecTypes' /\ ExecStep(x, v)
    BY <1>2, <2>1, <2>2, <2>3, <2>4, ExecTyped DEF Types
  <2>. QED
    BY <1>1, <1>2, <1>4, <2>5 DEF Reached, v
<1>. QED
  BY <1>3, <1>4 DEF Answer

LEMMA StartTurnTyped ==
    ASSUME CodexTypes, StartTurn
    PROVE  /\ turns' \in 0..MaxTurns /\ active' = turns' /\ active' # 0
           /\ active' \in Turns
BY Constants DEF CodexTypes, StartTurn, Turns

(* Serving a request changes Codex in one of these ways.                   *)
LEMMA ServeTyped ==
    ASSUME Types, Aimed, NEW r \in wire, Serve(r)
    PROVE  Journaled /\ Types' /\ wire' = wire \ {r} /\ \E reply \in Replies : Reached(r, reply)
<1>1. UNCHANGED <<journal, fence, hosting, seen>> /\ Journaled
  BY JournalIdles DEF Serve, Types
<1>2. /\ r.client \in Operations /\ r.revision \in 1..MaxRevision /\ r.op \in Operations
      /\ r.sub \in Submissions \cup {None} /\ r.turn \in Turns \cup {None}
  BY DEF Types, WireTypes, Requests
<1>3. ASSUME NEW reply \in Replies, Answer(r, reply), CodexTypes'
      PROVE  Journaled /\ Types' /\ wire' = wire \ {r} /\ \E p \in Replies : Reached(r, p)
  <2>1. ExecTypes' /\ wire' = wire \ {r} /\ Reached(r, reply)
    BY <1>1, <1>3, AnswerTyped
  <2>2. WireTypes' /\ HostTypes' /\ SeenTypes'
    BY <1>1, <2>1 DEF Types, WireTypes, HostTypes, SeenTypes, hosting
  <2>. QED
    BY <1>1, <1>3, <2>1, <2>2 DEF Types, Journaled
<1>4. CASE ServeAdd(r)
  <2>. DEFINE item == [client |-> r.client, revision |-> r.revision, sub |-> issued + 1]
  <2>1. /\ issued < Cardinality(Operations) /\ issued' = issued + 1
        /\ queue' = queue \cup {item}
        /\ Answer(r, [kind |-> "queued", sub |-> issued + 1])
        /\ UNCHANGED <<transcript, active, turns>>
    BY <1>4 DEF ServeAdd
  <2>2. issued \in Nat /\ Cardinality(Operations) \in Nat /\ issued + 1 \in Submissions
    BY <2>1, Constants DEF Types, CodexTypes, Submissions
  <2>3. item \in Items /\ item.sub = issued + 1
    BY <1>2, <2>2 DEF Items
  <2>. HIDE DEF item
  <2>4. CodexTypes'
    <3>1. queue' \in SUBSET Items
      BY <2>1, <2>3 DEF Types, CodexTypes
    <3>2. issued' \in 0..Cardinality(Operations)
      BY <2>1, <2>2
    <3>3. ASSUME NEW i \in queue'
          PROVE  i.sub \in 1..issued'
      BY <2>1, <2>2, <2>3 DEF Types, CodexTypes
    <3>. QED
      BY <2>1, <3>1, <3>2, <3>3 DEF Types, CodexTypes
  <2>. QED
    BY <1>3, <2>1, <2>2, <2>4, ReplyTypes
<1>5. CASE ServeUpdate(r)
  <2>1. PICK item \in queue :
           /\ item.sub = r.sub
           /\ queue' = (queue \ {item}) \cup {[item EXCEPT !.revision = r.revision]}
    BY <1>5 DEF ServeUpdate
  <2>2. item \in Items /\ item.sub \in Submissions
    BY DEF Types, CodexTypes, Items
  <2>3. /\ [item EXCEPT !.revision = r.revision] \in Items
        /\ [item EXCEPT !.revision = r.revision].sub = item.sub
    BY <1>2, <2>2 DEF Items
  <2>4. CodexTypes'
    BY <1>5, <2>1, <2>3 DEF ServeUpdate, Types, CodexTypes
  <2>5. Answer(r, [kind |-> "queued", sub |-> r.sub]) /\ r.sub \in Submissions
    BY <1>5, <2>1, <2>2 DEF ServeUpdate
  <2>. QED
    BY <1>3, <2>4, <2>5, ReplyTypes
<1>6. CASE ServeDelete(r)
  <2>1. CodexTypes'
    BY <1>6 DEF ServeDelete, Types, CodexTypes
  <2>2. Answer(r, [kind |-> "deleted", deleted |-> queue' # queue]) /\ (queue' # queue) \in BOOLEAN
    BY <1>6 DEF ServeDelete
  <2>. QED
    BY <1>3, <2>1, <2>2, ReplyTypes
<1>7. CASE ServeQueueStart(r)
  <2>1. PICK item \in queue :
           /\ queue' = queue \ {item}
           /\ transcript' = transcript \cup {Delivered(item, active')}
    BY <1>7 DEF ServeQueueStart
  <2>2. turns' \in 0..MaxTurns /\ active' = turns' /\ active' # 0 /\ active' \in Turns
    BY <1>7, StartTurnTyped DEF ServeQueueStart, Types
  <2>3. item \in Items
    BY DEF Types, CodexTypes
  <2>4. Delivered(item, active') \in Messaged
    BY <2>2, <2>3 DEF Delivered, Items, Messaged
  <2>5. CodexTypes'
    BY <1>7, <2>1, <2>2, <2>4 DEF ServeQueueStart, Types, CodexTypes
  <2>6. Answer(r, [kind |-> "turn", turn |-> active'])
    BY <1>7 DEF ServeQueueStart
  <2>. QED
    BY <1>3, <2>2, <2>5, <2>6, ReplyTypes
<1>8. CASE ServeTurnStart(r)
  <2>1. turns' \in 0..MaxTurns /\ active' = turns' /\ active' # 0 /\ active' \in Turns
    BY <1>8, StartTurnTyped DEF ServeTurnStart, Types
  <2>2. Delivered(r, active') \in Messaged
    BY <1>2, <2>1 DEF Delivered, Messaged
  <2>3. CodexTypes'
    BY <1>8, <2>1, <2>2 DEF ServeTurnStart, Types, CodexTypes
  <2>4. Answer(r, [kind |-> "turn", turn |-> active'])
    BY <1>8 DEF ServeTurnStart
  <2>. QED
    BY <1>3, <2>1, <2>3, <2>4, ReplyTypes
<1>9. CASE ServeSteer(r)
  <2>1. active \in Turns /\ active = r.turn
    BY <1>2, <1>9 DEF ServeSteer, Aimed
  <2>2. Delivered(r, active) \in Messaged
    BY <1>2, <2>1 DEF Delivered, Messaged
  <2>3. CodexTypes'
    BY <1>9, <2>2 DEF ServeSteer, Types, CodexTypes
  <2>4. Answer(r, [kind |-> "turn", turn |-> active])
    BY <1>9 DEF ServeSteer
  <2>. QED
    BY <1>3, <2>1, <2>3, <2>4, ReplyTypes
<1>10. CASE RefuseRequest(r)
  <2>1. CodexTypes'
    BY <1>10 DEF RefuseRequest, Types, CodexTypes, codex
  <2>2. Answer(r, [kind |-> "refused"])
    BY <1>10 DEF RefuseRequest
  <2>. QED
    BY <1>3, <2>1, <2>2, ReplyTypes
<1>. QED
  BY <1>4, <1>5, <1>6, <1>7, <1>8, <1>9, <1>10 DEF Serve

(* A call keeps its type when only rows are written.                       *)
LEMMA ExecKept ==
    ASSUME ExecTypes, RowsKept, UNCHANGED exec
    PROVE  ExecTypes'
<1>1. ASSUME NEW x \in Executors
      PROVE  Called(x)'
  <2>1. Called(x) /\ (~At(x, "idle") => Op(x) \in Operations)
    BY AtWork DEF ExecTypes
  <2>. QED
    BY <2>1 DEF Called, Proper, At, Op, RowsKept
<1>. QED
  BY <1>1 DEF ExecTypes

LEMMA CodexMovesTyped ==
    ASSUME Types, Dispatch \/ OtherTurn \/ EndTurn
    PROVE  Journaled /\ Types'
<1>1. UNCHANGED <<journal, exec, fence, wire, hosting, seen>>
  BY DEF Dispatch, OtherTurn, EndTurn
<1>2. Journaled
  BY <1>1, JournalIdles DEF Types
<1>3. ExecTypes' /\ WireTypes' /\ HostTypes' /\ SeenTypes'
  BY <1>1, <1>2, ExecKept DEF Types, Journaled, WireTypes, HostTypes, SeenTypes, hosting
<1>4. CodexTypes'
  <2>1. CASE Dispatch
    <3>1. PICK item \in queue :
             /\ queue' = queue \ {item}
             /\ transcript' = transcript \cup {Delivered(item, active')}
      BY <2>1 DEF Dispatch
    <3>2. turns' \in 0..MaxTurns /\ active' = turns' /\ active' # 0 /\ active' \in Turns
      BY <2>1, StartTurnTyped DEF Dispatch, Types
    <3>3. item \in Items
      BY DEF Types, CodexTypes
    <3>4. Delivered(item, active') \in Messaged
      BY <3>2, <3>3 DEF Delivered, Items, Messaged
    <3>. QED
      BY <2>1, <3>1, <3>2, <3>4 DEF Dispatch, Types, CodexTypes
  <2>2. CASE OtherTurn
    <3>1. turns' \in 0..MaxTurns /\ active' = turns' /\ active' # 0
      BY <2>2, StartTurnTyped DEF OtherTurn, Types
    <3>. QED
      BY <2>2, <3>1 DEF OtherTurn, Types, CodexTypes
  <2>3. CASE EndTurn
    BY <2>3 DEF EndTurn, Types, CodexTypes
  <2>. QED
    BY <2>1, <2>2, <2>3
<1>. QED
  BY <1>2, <1>3, <1>4 DEF Types, Journaled

LEMMA HostMovesTyped ==
    ASSUME Types, LoseHost \/ ReplaceHost
    PROVE  Journaled /\ Types'
<1>1. UNCHANGED <<journal, exec, fence, wire, queue, transcript, turns, issued, seen>>
  BY DEF LoseHost, ReplaceHost, codex
<1>2. Journaled
  BY <1>1, JournalIdles DEF Types
<1>3. ExecTypes' /\ WireTypes' /\ SeenTypes'
  BY <1>1, <1>2, ExecKept DEF Types, Journaled, WireTypes, SeenTypes
<1>4. CodexTypes'
  BY <1>1 DEF LoseHost, ReplaceHost, Types, CodexTypes, codex
<1>5. HostTypes'
  BY Constants DEF LoseHost, ReplaceHost, Types, HostTypes
<1>. QED
  BY <1>2, <1>3, <1>4, <1>5 DEF Types, Journaled

LEMMA ReadQueueTyped ==
    ASSUME Types, ReadQueue
    PROVE  Journaled /\ Types'
<1>1. UNCHANGED <<journal, exec, fence, wire, codex, hosting>>
  BY DEF ReadQueue
<1>2. Journaled
  BY <1>1, JournalIdles DEF Types
<1>3. ExecTypes' /\ WireTypes' /\ HostTypes' /\ CodexTypes'
  BY <1>1, <1>2, ExecKept
     DEF Types, Journaled, WireTypes, HostTypes, CodexTypes, hosting, codex
<1>4. SeenTypes'
  BY DEF ReadQueue, SeenTypes, Sightings
<1>. QED
  BY <1>2, <1>3, <1>4 DEF Types, Journaled

(* Steps that write the journal and leave executors and Codex alone.       *)
LEMMA JournalOnly ==
    ASSUME Types, Journaled, UNCHANGED <<exec, wire, codex, hosting>>,
           fence' \in [Operations -> Turns \cup {None}], seen' \subseteq seen
    PROVE  Types'
<1>1. ExecTypes' /\ WireTypes' /\ HostTypes' /\ CodexTypes' /\ SeenTypes'
  BY ExecKept DEF Types, Journaled, WireTypes, HostTypes, CodexTypes, SeenTypes, hosting, codex
<1>. QED
  BY <1>1 DEF Types, Journaled

LEMMA RecordQueuedTyped ==
    ASSUME Types, NEW o \in seen, RecordQueued(o)
    PROVE  Journaled /\ Types'
<1>1. o.op \in Operations /\ o.sub \in Submissions
  BY DEF Types, SeenTypes, Sightings
<1>2. Journaled
  <2>1. CASE J!ObserveQueued(o.op, o.sub)
    BY <1>1, <2>1, AcknowledgeJournaled DEF Types
  <2>2. CASE UNCHANGED journal
    BY <2>2, JournalIdles DEF Types
  <2>. QED
    BY <2>1, <2>2 DEF RecordQueued
<1>3. UNCHANGED <<exec, fence, wire, codex, hosting>> /\ seen' \subseteq seen
  BY DEF RecordQueued
<1>. QED
  BY <1>2, <1>3, JournalOnly DEF Types, WireTypes

LEMMA RecordsTyped ==
    ASSUME Types,
           \/ \E e \in Operations : RecordRemoved(e)
           \/ \E item \in transcript : RecordProof(item)
    PROVE  Journaled /\ Types'
<1>1. Journaled
  <2>1. ASSUME NEW e \in Operations, RecordRemoved(e)
        PROVE  Journaled
    BY <2>1, RemoveJournaled DEF Types, RecordRemoved
  <2>2. ASSUME NEW item \in transcript, RecordProof(item)
        PROVE  Journaled
    <3>. DEFINE e == item.client
                proof == [revision |-> item.revision, turn |-> item.turn, input |-> item.revision]
    <3>1. /\ item.client \in Operations
          /\ item.revision \in 1..MaxRevision /\ item.turn \in Turns
      BY DEF Types, CodexTypes, Messaged
    <3>2. proof \in J!Proof
      BY <3>1 DEF J!Proof
    <3>3. J!Prove(e, proof)
      BY <2>2 DEF RecordProof
    <3>. HIDE DEF proof, e
    <3>4. e \in Operations
      BY <3>1 DEF e
    <3>. QED
      BY <3>2, <3>3, <3>4, ProveJournaled DEF Types
  <2>. QED
    BY <2>1, <2>2
<1>2. UNCHANGED <<exec, fence, wire, codex, hosting, seen>>
  BY DEF RecordRemoved, RecordProof
<1>. QED
  BY <1>1, <1>2, JournalOnly DEF Types, WireTypes

(* A fresh operation names the turn that runs, or none.                    *)
FenceStep(op) ==
    /\ fence' \in [Operations -> Turns \cup {None}]
    /\ \A q \in Operations \ {op} : fence'[q] = fence[q]

LEMMA AdmitTyped ==
    ASSUME Types, NEW op \in Operations, AdmitAdd(op) \/ AdmitControl(op) \/ WithdrawSeat(op)
    PROVE  Journaled /\ Types'
<1>1. Journaled
  <2>1. CASE AdmitAdd(op) \/ AdmitControl(op)
    BY <2>1, AdmitJournaled DEF Types, AdmitAdd, AdmitControl
  <2>2. CASE WithdrawSeat(op)
    BY <2>2, WithdrawSeatJournaled DEF Types, WithdrawSeat
  <2>. QED
    BY <2>1, <2>2
<1>2. UNCHANGED <<exec, wire, codex, hosting, seen>>
  BY DEF AdmitAdd, AdmitControl, WithdrawSeat
<1>3. fence' \in [Operations -> Turns \cup {None}]
  <2>1. active \in Turns \cup {None}
    BY Constants DEF Types, CodexTypes, Turns
  <2>2. UNCHANGED fence
        \/ \E t \in {active, None} : fence' = [fence EXCEPT ![op] = t]
    BY DEF AdmitAdd, AdmitControl, WithdrawSeat
  <2>. QED
    BY <2>1, <2>2 DEF Types, WireTypes
<1>. QED
  BY <1>1, <1>2, <1>3, JournalOnly

-----------------------------------------------------------------------------
(* A steer has a turn to steer into                                        *)

LEMMA AimedKept ==
    ASSUME Types, Aimed, RowsKept,
           \A q \in Operations : Proper(q) => fence'[q] = fence[q],
           \A r \in wire' \ wire : r.method = "turn/steer" => r.turn # None,
           \A x \in Executors : Steering(x)' =>
              \/ Steering(x) /\ exec'[x].op = exec[x].op
              \/ Proper(exec'[x].op) /\ exec'[x].op \in Operations /\ fence[exec'[x].op] # None
    PROVE  Aimed'
<1>1. ASSUME NEW x \in Executors, Steering(x)'
      PROVE  fence'[exec'[x].op] # None
  <2>1. CASE Steering(x) /\ exec'[x].op = exec[x].op
    <3>1. ~At(x, "idle")
      BY <2>1 DEF Steering, At
    <3>2. Op(x) \in Operations /\ Proper(Op(x))
      BY <3>1, AtWork DEF Types
    <3>. QED
      BY <2>1, <3>2 DEF Aimed, Op
  <2>2. CASE Proper(exec'[x].op) /\ exec'[x].op \in Operations /\ fence[exec'[x].op] # None
    BY <2>2
  <2>. QED
    BY <1>1, <2>1, <2>2
<1>. QED
  BY <1>1 DEF Aimed, Op

(* Who is not at a write or between withdrawal and steer aims at nothing.  *)
LEMMA AsideSteers ==
    ASSUME Types, NEW x \in Executors,
           \/ \E op \in Operations : Pick(x, op)
           \/ Terminate(x) \/ ReadEntry(x)
           \/ HealthRefuses(x) \/ HealthWaits(x) \/ HealthAllows(x)
           \/ FenceUnreadable(x) \/ FenceSettled(x) \/ RefuseFenced(x) \/ RefuseNow(x)
           \/ Prepare(x) \/ Unauthorized(x) \/ Postpone(x) \/ Defer(x)
           \/ LoseReply(x) \/ ReceiveRefusal(x) \/ ReceiveReply(x) \/ RemoveEntry(x)
           \/ CatchStatus(x) \/ CatchDeferred(x) \/ CatchEntry(x) \/ End(x)
           \/ Crash(x)
    PROVE  /\ \E v : /\ exec' = [exec EXCEPT ![x] = v]
                     /\ v.pc \notin {"sent", "steering"}
           /\ UNCHANGED <<fence, wire>>
<1>1. UNCHANGED <<fence, wire>>
  BY DEF Pick, Terminate, ReadEntry, HealthRefuses, HealthWaits, HealthAllows, FenceUnreadable,
         FenceSettled, RefuseFenced, RefuseNow, Prepare, Unauthorized, Postpone, Defer, LoseReply,
         ReceiveRefusal, ReceiveReply, RemoveEntry, CatchStatus, CatchDeferred, CatchEntry, End, Crash
<1>2. Idle.pc \notin {"sent", "steering"}
      /\ \A op \in Operations : Working(op).pc \notin {"sent", "steering"}
  BY DEF Idle, Working
<1>3. CASE \/ \E op \in Operations : Pick(x, op)
           \/ Stop(x)
  BY <1>1, <1>2, <1>3 DEF Pick, Stop
<1>4. CASE ~At(x, "idle")
  <2>1. exec[x] \in Workers
    BY <1>4, AtWork DEF Types
  <2>2. CASE \E ends \in {"failed", "uncertain"} : Throw(x, ends)
    <3>1. PICK ends \in {"failed", "uncertain"} : Throw(x, ends)
      BY <2>2
    <3>2. Thrown(exec[x], ends).pc = "caught"
      BY <2>1, ThrownFields
    <3>. QED
      BY <1>1, <3>1, <3>2 DEF Throw, Thrown
  <2>3. CASE \E pc \in Stages \ {"sent", "steering"} : Move(x, pc)
    <3>1. PICK pc \in Stages \ {"sent", "steering"} : Move(x, pc)
      BY <2>3
    <3>2. Moved(exec[x], pc).pc = pc
      BY <2>1, MovedFields
    <3>. QED
      BY <1>1, <3>1, <3>2 DEF Move, Moved
  <2>4. CASE Prepare(x)
    <3>1. Swapped(exec[x]).pc = "prepared"
      BY <2>1, SwappedFields
    <3>. QED
      BY <1>1, <2>2, <2>4, <3>1 DEF Prepare, Swapped
  <2>8. CASE Defer(x)
    <3>1. Unprepared(exec[x]).pc = "deferred"
      BY <2>1, UnpreparedFields
    <3>2. \/ Stop(x) \/ Throw(x, "failed")
          \/ exec' = [exec EXCEPT ![x] = Unprepared(exec[x])]
      BY <2>8 DEF Defer, Unprepared
    <3>. QED
      BY <1>1, <1>3, <2>2, <3>1, <3>2
  <2>5. CASE HealthAllows(x)
    <3>1. Readied(exec[x], active = None).pc = "ready"
      BY <2>1, ReadiedFields
    <3>. QED
      BY <1>1, <2>5, <3>1 DEF HealthAllows, Readied
  <2>6. CASE ReadEntry(x)
    <3>1. CASE Stop(x)
      BY <1>3, <3>1
    <3>. DEFINE entry == entries[EntryOf(x)]
                v == [exec[x] EXCEPT !.pc = IF host = 0 THEN "refusing" ELSE "read",
                        !.sub = entry.submission,
                        !.withdrawn = entry.state = "withdrawn",
                        !.revision = entry.revision,
                        !.host = host]
    <3>2. CASE exec' = [exec EXCEPT ![x] = v]
      <4>1. v.pc \notin {"sent", "steering"}
        BY <2>1 DEF Workers
      <4>. HIDE DEF v
      <4>. QED
        BY <1>1, <3>2, <4>1
    <3>. QED
      BY <2>6, <3>1, <3>2 DEF ReadEntry
  <2>7. CASE \/ Terminate(x) \/ HealthRefuses(x) \/ HealthWaits(x)
             \/ FenceUnreadable(x) \/ FenceSettled(x) \/ RefuseFenced(x) \/ RefuseNow(x)
             \/ Unauthorized(x) \/ Postpone(x)
             \/ LoseReply(x) \/ ReceiveRefusal(x) \/ ReceiveReply(x) \/ RemoveEntry(x)
             \/ CatchStatus(x) \/ CatchDeferred(x) \/ CatchEntry(x) \/ End(x)
             \/ Crash(x)
    <3>1. \/ Stop(x)
          \/ \E ends \in {"failed", "uncertain"} : Throw(x, ends)
          \/ \E pc \in {"refusing", "fenced", "deferring", "removing", "checked", "ending"} :
                Move(x, pc)
      BY <2>7 DEF Terminate, HealthRefuses, HealthWaits, FenceUnreadable, FenceSettled,
                  RefuseFenced, RefuseNow, Unauthorized, Postpone, LoseReply,
                  ReceiveRefusal, ReceiveReply, RemoveEntry, CatchStatus, CatchDeferred, CatchEntry, End, Crash
    <3>2. {"refusing", "fenced", "deferring", "removing", "checked", "ending"}
             \subseteq Stages \ {"sent", "steering"}
      BY DEF Stages
    <3>. QED
      BY <1>3, <2>2, <2>3, <3>1, <3>2
  <2>. QED
    BY <1>3, <2>4, <2>5, <2>6, <2>7, <2>8
<1>. QED
  BY <1>3, <1>4 DEF Terminate, ReadEntry, HealthRefuses, HealthWaits, HealthAllows,
     FenceUnreadable, FenceSettled, RefuseFenced, RefuseNow, Prepare, Unauthorized, Postpone,
     Defer, LoseReply, ReceiveRefusal, ReceiveReply, RemoveEntry, CatchStatus, CatchDeferred, CatchEntry, End,
     Crash, At

(* Nobody but the executor that steps changes its aim.                     *)
LEMMA OthersSteer ==
    ASSUME Types, RowsKept, NEW x \in Executors, NEW v, exec' = [exec EXCEPT ![x] = v],
           NEW y \in Executors, y # x, Steering(y)'
    PROVE  Steering(y) /\ exec'[y].op = exec[y].op
<1>1. exec'[y] = exec[y]
  BY DEF Types, ExecTypes
<1>2. ~At(y, "idle")
  BY <1>1 DEF Steering, At
<1>3. Op(y) \in Operations /\ Proper(Op(y))
  BY <1>2, AtWork DEF Types
<1>. QED
  BY <1>1, <1>3 DEF Steering, At, Action, Op, RowsKept

LEMMA ExecuteAimed ==
    ASSUME Types, Aimed, NEW x \in Executors, Execute(x)
    PROVE  Aimed'
<1>1. Journaled /\ RowsKept
  BY ExecuteTyped DEF Journaled
<1>2. CASE UNCHANGED <<fence, wire>> /\ \E v : /\ exec' = [exec EXCEPT ![x] = v]
                                              /\ v.pc \notin {"sent", "steering"}
  <2>1. PICK v : exec' = [exec EXCEPT ![x] = v] /\ v.pc \notin {"sent", "steering"}
    BY <1>2
  <2>2. ~Steering(x)'
    BY <2>1 DEF Types, ExecTypes, Steering, At
  <2>3. ASSUME NEW y \in Executors, Steering(y)'
        PROVE  Steering(y) /\ exec'[y].op = exec[y].op
    BY <1>1, <2>1, <2>2, <2>3, OthersSteer
  <2>. QED
    BY <1>1, <1>2, <2>3, AimedKept
<1>3. CASE Actuate(x)
  <2>1. ~At(x, "idle") /\ exec[x] \in Workers /\ Op(x) \in Operations /\ Proper(Op(x))
    BY <1>3, AtStage DEF Types, Actuate, Stages
  <2>2. PICK guarded \in BOOLEAN :
           \/ Send(x, MethodFor(x, guarded))
           \/ Throw(x, "failed") /\ UNCHANGED wire
    BY <1>3 DEF Actuate
  <2>3. UNCHANGED fence
    BY <1>3 DEF Actuate
  <2>4. CASE Throw(x, "failed") /\ UNCHANGED wire
    <3>1. Thrown(exec[x], "failed").pc = "caught"
      BY <2>1, ThrownFields
    <3>. QED
      BY <1>2, <2>3, <2>4, <3>1 DEF Throw, Thrown
  <2>5. CASE Send(x, MethodFor(x, guarded))
    <3>. DEFINE method == MethodFor(x, guarded)
                v == Asking(exec[x], method)
    <3>1. /\ exec' = [exec EXCEPT ![x] = v]
          /\ wire' = wire \cup {Request(x, method)}
      BY <2>5 DEF Send, Asking, Request
    <3>2. method # "turn/steer" /\ method \in Methods
      BY MethodTyped DEF MethodFor
    <3>3. method = "queue/delete" /\ Action(x) = "send-now" => fence[Op(x)] # None
      BY DEF MethodFor, StartsTurn
    <3>. HIDE DEF method
    <3>4. v.pc = "sent" /\ v.method = method /\ v.op = Op(x)
      BY <2>1, <3>2, AskingFields DEF Op
    <3>. HIDE DEF v
    <3>5. exec'[x] = v
      BY <3>1 DEF Types, ExecTypes
    <3>6. Steering(x)' => fence[Op(x)] # None
      BY <1>1, <2>1, <3>3, <3>4, <3>5 DEF Steering, At, Action, Op, RowsKept
    <3>7. Request(x, method).method = method
      BY DEF Request
    <3>8. \A r \in wire' \ wire : r.method # "turn/steer"
      BY <3>1, <3>2, <3>7
    <3>9. ASSUME NEW y \in Executors, Steering(y)'
          PROVE  \/ Steering(y) /\ exec'[y].op = exec[y].op
                 \/ Proper(exec'[y].op) /\ exec'[y].op \in Operations /\ fence[exec'[y].op] # None
      <4>1. CASE y = x
        BY <2>1, <3>4, <3>5, <3>6, <3>9, <4>1
      <4>2. CASE y # x
        BY <1>1, <3>1, <3>9, <4>2, OthersSteer
      <4>. QED
        BY <4>1, <4>2
    <3>. QED
      BY <1>1, <2>3, <3>8, <3>9, AimedKept
  <2>. QED
    BY <2>2, <2>4, <2>5
<1>4. CASE Steer(x)
  <2>1. ~At(x, "idle") /\ exec[x] \in Workers /\ Op(x) \in Operations /\ Proper(Op(x))
    BY <1>4, AtStage DEF Types, Steer, Stages
  <2>2. UNCHANGED fence /\ fence[Op(x)] # None
    BY <1>4 DEF Steer, Aimed, Steering
  <2>3. ASSUME NEW ends \in {"failed", "uncertain"}, Throw(x, ends), UNCHANGED wire
        PROVE  Aimed'
    <3>1. Thrown(exec[x], ends).pc = "caught"
      BY <2>1, ThrownFields
    <3>. QED
      BY <1>2, <2>2, <2>3, <3>1 DEF Throw, Thrown
  <2>4. CASE Send(x, "turn/steer")
    <3>. DEFINE v == Asking(exec[x], "turn/steer")
    <3>1. /\ exec' = [exec EXCEPT ![x] = v]
          /\ wire' = wire \cup {Request(x, "turn/steer")}
      BY <2>4 DEF Send, Asking, Request
    <3>2. v.op = Op(x)
      BY <2>1, AskingFields DEF Op, Methods
    <3>. HIDE DEF v
    <3>3. exec'[x] = v
      BY <3>1 DEF Types, ExecTypes
    <3>4. Request(x, "turn/steer").turn # None
      BY <2>2 DEF Request
    <3>5. ASSUME NEW y \in Executors, Steering(y)'
          PROVE  \/ Steering(y) /\ exec'[y].op = exec[y].op
                 \/ Proper(exec'[y].op) /\ exec'[y].op \in Operations /\ fence[exec'[y].op] # None
      <4>1. CASE y = x
        BY <2>1, <2>2, <3>2, <3>3, <4>1
      <4>2. CASE y # x
        BY <1>1, <3>1, <3>5, <4>2, OthersSteer
      <4>. QED
        BY <4>1, <4>2
    <3>. QED
      BY <1>1, <2>2, <3>1, <3>4, <3>5, AimedKept
  <2>. QED
    BY <1>4, <2>3, <2>4 DEF Steer
<1>5. CASE ReceiveWithdrawal(x)
  <2>1. ~At(x, "idle") /\ exec[x] \in Workers
    BY <1>5, AtStage DEF Types, ReceiveWithdrawal, Stages
  <2>2. UNCHANGED <<fence, wire>> /\ Steering(x)
    BY <1>5 DEF ReceiveWithdrawal, Steering, Halfway
  <2>3. \E v : exec' = [exec EXCEPT ![x] = v] /\ (v = Idle \/ v.op = exec[x].op)
    <3>1. Moved(exec[x], "steering").op = exec[x].op /\ Thrown(exec[x], "uncertain").op = exec[x].op
      BY <2>1, MovedFields, ThrownFields DEF Stages
    <3>2. \/ exec' = [exec EXCEPT ![x] = Idle]
          \/ exec' = [exec EXCEPT ![x] = Moved(exec[x], "steering")]
          \/ exec' = [exec EXCEPT ![x] = Thrown(exec[x], "uncertain")]
      BY <1>5 DEF ReceiveWithdrawal, Stop, Move, Throw, Moved, Thrown
    <3>. QED
      BY <3>1, <3>2
  <2>4. PICK v : exec' = [exec EXCEPT ![x] = v] /\ (v = Idle \/ v.op = exec[x].op)
    BY <2>3
  <2>5. exec'[x] = v
    BY <2>4 DEF Types, ExecTypes
  <2>6. ASSUME NEW y \in Executors, Steering(y)'
        PROVE  Steering(y) /\ exec'[y].op = exec[y].op
    <3>1. CASE y = x
      BY <2>2, <2>4, <2>5, <2>6, <3>1 DEF Steering, At, Idle
    <3>2. CASE y # x
      BY <1>1, <2>4, <2>6, <3>2, OthersSteer
    <3>. QED
      BY <3>1, <3>2
  <2>. QED
    BY <1>1, <2>2, <2>6, AimedKept
<1>. QED
  BY <1>2, <1>3, <1>4, <1>5, AsideSteers DEF Execute

LEMMA ServeAimed ==
    ASSUME Types, Aimed, NEW r \in wire, Serve(r)
    PROVE  Aimed'
<1>1. /\ Journaled /\ wire' = wire \ {r} /\ UNCHANGED fence
      /\ \E reply \in Replies : Reached(r, reply)
  BY ServeTyped DEF Serve
<1>2. PICK reply \in Replies : Reached(r, reply)
  BY <1>1
<1>3. ASSUME NEW y \in Executors, Steering(y)'
      PROVE  Steering(y) /\ exec'[y].op = exec[y].op
  <2>1. CASE exec'[y] = exec[y]
    <3>1. ~At(y, "idle")
      BY <1>3, <2>1 DEF Steering, At
    <3>2. Op(y) \in Operations /\ Proper(Op(y))
      BY <3>1, AtWork DEF Types
    <3>. QED
      BY <1>1, <1>3, <2>1, <3>2 DEF Steering, At, Action, Op, RowsKept, Journaled
  <2>2. CASE exec'[y] # exec[y]
    <3>1. y = r.by /\ At(y, "sent") /\ exec'[y] = Answered(exec[y], reply)
      BY <1>2, <2>2 DEF Reached, ExecStep
    <3>2. exec[y] \in Workers /\ Op(y) \in Operations /\ Proper(Op(y))
      BY <3>1, AtStage DEF Types, Stages
    <3>3. exec'[y].pc = exec[y].pc /\ exec'[y].op = exec[y].op /\ exec'[y].method = exec[y].method
      BY <3>1, <3>2, AnsweredFields
    <3>. QED
      BY <1>1, <1>3, <3>2, <3>3 DEF Steering, At, Action, Op, RowsKept, Journaled
  <2>. QED
    BY <2>1, <2>2
<1>. QED
  BY <1>1, <1>3, AimedKept DEF Journaled

LEMMA AdmitAimed ==
    ASSUME Types, Aimed, NEW op \in Operations, AdmitAdd(op) \/ AdmitControl(op) \/ WithdrawSeat(op)
    PROVE  Aimed'
<1>1. Journaled
  BY AdmitTyped
<1>2. \A q \in Operations : Proper(q) => fence'[q] = fence[q]
  <2>1. \/ UNCHANGED fence
        \/ J!Fresh(op) /\ \E t \in {active, None} : fence' = [fence EXCEPT ![op] = t]
    BY DEF AdmitAdd, AdmitControl, WithdrawSeat, J!AdmitControl
  <2>. QED
    BY <2>1 DEF J!Fresh, J!Retained, Proper, IsRow, Types, WireTypes
<1>3. UNCHANGED <<exec, wire>>
  BY DEF AdmitAdd, AdmitControl, WithdrawSeat
<1>4. ASSUME NEW y \in Executors, Steering(y)'
      PROVE  Steering(y) /\ exec'[y].op = exec[y].op
  <2>1. ~At(y, "idle")
    BY <1>3, <1>4 DEF Steering, At
  <2>2. Op(y) \in Operations /\ Proper(Op(y))
    BY <2>1, AtWork DEF Types
  <2>. QED
    BY <1>1, <1>3, <1>4, <2>2 DEF Steering, At, Action, Op, RowsKept, Journaled
<1>. QED
  BY <1>1, <1>2, <1>3, <1>4, AimedKept DEF Journaled

LEMMA RestAimed ==
    ASSUME Types, Aimed, Journaled, UNCHANGED <<exec, fence, wire>>
    PROVE  Aimed'
<1>1. ASSUME NEW y \in Executors, Steering(y)'
      PROVE  Steering(y) /\ exec'[y].op = exec[y].op
  <2>1. ~At(y, "idle")
    BY <1>1 DEF Steering, At
  <2>2. Op(y) \in Operations /\ Proper(Op(y))
    BY <2>1, AtWork DEF Types
  <2>. QED
    BY <1>1, <2>2 DEF Steering, At, Action, Op, RowsKept, Journaled
<1>. QED
  BY <1>1, AimedKept DEF Journaled

-----------------------------------------------------------------------------
(* Types: the whole system                                                 *)

LEMMA TypesStart ==
    ASSUME Init
    PROVE  Types /\ Aimed
<1>1. JP!JournalInd
  BY JournalParameters, SameJournal, JP!StartsRight DEF Init
<1>2. \A op \in Operations : ~Proper(op)
  BY DEF Init, J!Init, Proper, IsRow
<1>3. \A x \in Executors : At(x, "idle")
  BY DEF Init, At, Idle
<1>4. JournalTypes /\ ExecTypes
  BY <1>1, <1>2, <1>3 DEF JournalTypes, ExecTypes, Called, Init
<1>5. WireTypes /\ CodexTypes /\ HostTypes /\ SeenTypes
  BY Constants DEF Init, WireTypes, CodexTypes, HostTypes, SeenTypes
<1>6. Aimed
  BY <1>3 DEF Init, Aimed, Steering, At
<1>. QED
  BY <1>4, <1>5, <1>6 DEF Types

LEMMA TypesStep ==
    ASSUME Types, Aimed, [Next]_vars
    PROVE  Journaled /\ Types' /\ Aimed'
<1>1. CASE \/ \E op \in Messages : AdmitAdd(op)
           \/ \E op \in Operations \ Messages : AdmitControl(op)
           \/ \E op \in Operations : WithdrawSeat(op)
  <2>1. PICK op \in Operations : AdmitAdd(op) \/ AdmitControl(op) \/ WithdrawSeat(op)
    BY <1>1 DEF NativeQueueAssumption
  <2>. QED
    BY <2>1, AdmitTyped, AdmitAimed
<1>2. CASE \E x \in Executors : Execute(x)
  BY <1>2, ExecuteTyped, ExecuteAimed
<1>3. CASE \E r \in wire : Serve(r)
  BY <1>3, ServeTyped, ServeAimed
<1>4. CASE Dispatch \/ OtherTurn \/ EndTurn
  BY <1>4, CodexMovesTyped, RestAimed DEF Dispatch, OtherTurn, EndTurn
<1>5. CASE LoseHost \/ ReplaceHost
  BY <1>5, HostMovesTyped, RestAimed DEF LoseHost, ReplaceHost
<1>6. CASE ReadQueue
  BY <1>6, ReadQueueTyped, RestAimed DEF ReadQueue
<1>7. CASE \E o \in seen : RecordQueued(o)
  BY <1>7, RecordQueuedTyped, RestAimed DEF RecordQueued
<1>8. CASE \/ \E e \in Operations : RecordRemoved(e)
           \/ \E item \in transcript : RecordProof(item)
  BY <1>8, RecordsTyped, RestAimed DEF RecordRemoved, RecordProof
<1>9. CASE UNCHANGED vars
  <2>1. UNCHANGED <<journal, exec, fence, wire, codex, hosting, seen>>
    BY <1>9 DEF vars
  <2>2. Journaled
    BY <2>1, JournalIdles DEF Types
  <2>3. seen' \subseteq seen /\ fence' \in [Operations -> Turns \cup {None}]
    BY <2>1 DEF Types, WireTypes
  <2>4. UNCHANGED <<exec, wire, codex, hosting>>
    BY <2>1
  <2>. QED
    BY <2>1, <2>2, <2>3, <2>4, JournalOnly, RestAimed
<1>. QED
  BY <1>1, <1>2, <1>3, <1>4, <1>5, <1>6, <1>7, <1>8, <1>9 DEF Next

LEMMA TypesImply ==
    ASSUME Types
    PROVE  TypeOK
<1>1. JP!TypeOK
  BY DEF Types, JournalTypes, JP!JournalInd
<1>2. J!TypeOK
  BY <1>1 DEF J!TypeOK, JP!TypeOK, J!Operation, JP!Operation, J!NoOp, JP!NoOp,
              J!RejectedOp, JP!RejectedOp, J!Entry, JP!Entry, J!NoEntry, JP!NoEntry,
              J!Exists, JP!Exists, J!Actions, JP!Actions, J!Statuses, JP!Statuses,
              J!States, JP!States, J!Version, JP!Version, J!Proof, JP!Proof
<1>3. \A x \in Executors : At(x, "idle") \/ Op(x) \in Operations
  BY AtWork DEF Types
<1>. QED
  BY <1>2, <1>3 DEF TypeOK, Types, CodexTypes, HostTypes, Items

LEMMA TypesHold == Spec => [](Types /\ Aimed)
BY TypesStart, TypesStep, PTL DEF Spec

(* The rows, calls, requests, submissions, turns and hosts of the composed *)
(* system keep their types, whatever executors, Codex and reconciliation   *)
(* interleave: an executor never works for an operation the journal does   *)
(* not know, and Codex's queue holds issued submissions only.              *)
THEOREM SystemTyped == Spec => []TypeOK
BY TypesHold, TypesImply, PTL

(* Executors, admission, the seat's withdrawal and reconciliation touch the*)
(* journal by its own transitions only: the system is the journal's        *)
(* environment, and what is proved of the journal alone holds in it.       *)
THEOREM UsesJournal == Spec => J!Spec
<1>1. Init => J!Init
  BY DEF Init
<1>2. Types /\ Aimed /\ [Next]_vars => [J!Next]_(J!journalVars)
  BY TypesStep DEF Journaled, JournalStep, journal, J!journalVars
<1>. QED
  BY <1>1, <1>2, TypesHold, PTL DEF Spec, J!Spec

(* No step of the system rewrites what an entry has handed over: prepared   *)
(* payloads, the native submission and the proof, whatever the calls, the   *)
(* host and the observations do.                                            *)
THEOREM SystemHistory == Spec => J!HistoryFrozen
<1>1. ASSUME Types, Aimed, [Next]_vars
      PROVE  [\A e \in Operations : J!Exists(e) =>
                 entries'[e] # J!NoEntry /\ J!Kept(entries[e], entries'[e])]_(J!journalVars)
  <2>1. J!Next \/ UNCHANGED J!journalVars
    BY <1>1, TypesStep DEF Journaled, JournalStep, journal, J!journalVars
  <2>2. ASSUME J!Next
        PROVE  \A e \in Operations : J!Exists(e) =>
                   entries'[e] # J!NoEntry /\ J!Kept(entries[e], entries'[e])
    <3>1. JP!JournalInd /\ JP!Next
      BY <1>1, <2>2, SameJournal DEF Types, JournalTypes
    <3>2. JP!AllKept
      BY <3>1, JournalParameters, JP!StepKeeps
    <3>. QED
      BY <3>2 DEF JP!AllKept, JP!Exists, J!Exists, JP!NoEntry, J!NoEntry, JP!Kept, J!Kept
  <2>. QED
    BY <2>1, <2>2
<1>. QED
  BY <1>1, TypesHold, PTL DEF Spec, J!HistoryFrozen

LEMMA TypesImplyJournal ==
    ASSUME Types
    PROVE  J!JournalInv
<1>1. JP!TypeOK /\ JP!FenceLive /\ JP!ReceiptTruth /\ JP!ProofExact
  BY JournalParameters, JP!IndImpliesInv DEF Types, JournalTypes
<1>. QED
  BY <1>1, TypesImply
     DEF J!JournalInv, TypeOK, J!FenceLive, JP!FenceLive, J!ReceiptTruth, JP!ReceiptTruth,
         J!ProofExact, JP!ProofExact, J!Unresolved, JP!Unresolved, J!Exists, JP!Exists,
         J!Retained, JP!Retained, J!NoOp, JP!NoOp, J!RejectedOp, JP!RejectedOp,
         J!NoEntry, JP!NoEntry, J!Settled, JP!Settled, J!AckStatus, JP!AckStatus

(* So the journal's invariants hold in the system as it really calls it: an*)
(* unresolved mutation is a live operation and freezes its entry, receipts *)
(* tell their entry's story and delivered means proven, whatever rival     *)
(* executors, lost replies and late reconciliations do.                    *)
THEOREM SystemJournal == Spec => []J!JournalInv
BY TypesHold, TypesImplyJournal, PTL

-----------------------------------------------------------------------------
(* Submission ids                                                          *)

(* Everything that names submission s as the one of message e.             *)
QueueClaims(e, s) == \E i \in queue : i.client = e /\ i.sub = s
EntryClaims(e, s) == J!Exists(e) /\ entries[e].submission = s
WireClaims(e, s) == \E r \in wire : r.client = e /\ r.sub = s
Names(w, s) ==
    \/ w.sub = s
    \/ w.reply # None /\ w.reply.kind = "queued" /\ w.reply.sub = s
CallClaims(e, s) ==
    \E x \in Executors : ~At(x, "idle") /\ EntryFor(Op(x)) = e /\ Names(exec[x], s)
SeenClaims(e, s) == \E o \in seen : EntryFor(o.op) = e /\ o.sub = s
Claims(e, s) ==
    \/ QueueClaims(e, s) \/ EntryClaims(e, s) \/ WireClaims(e, s)
    \/ CallClaims(e, s) \/ SeenClaims(e, s)

(* No two messages share a submission, and Codex issued every one.         *)
Claimed ==
    \A e \in Operations, s \in Submissions : Claims(e, s) =>
        /\ s <= issued
        /\ \A f \in Operations : Claims(f, s) => f = e

(* A request and a sighting are of an operation on their entry.            *)
Wired == \A r \in wire : Proper(r.op) /\ r.client = EntryFor(r.op)
Sighted == \A o \in seen : Proper(o.op)

(* A step may add one claim: that of the submission Codex issues in it.    *)
LEMMA ClaimedKept ==
    ASSUME Types, Claimed, NEW f, issued' \in {issued, issued + 1},
           \A e \in Operations, s \in Submissions :
              Claims(e, s)' => Claims(e, s) \/ (e = f /\ s = issued + 1 /\ issued' = issued + 1)
    PROVE  Claimed'
<1>1. issued \in Nat /\ Submissions \subseteq Nat
  BY Constants DEF Types, CodexTypes
<1>2. ASSUME NEW e \in Operations, NEW s \in Submissions, Claims(e, s)'
      PROVE  s <= issued'
  BY <1>1, <1>2 DEF Claimed
<1>3. ASSUME NEW e \in Operations, NEW s \in Submissions, Claims(e, s)',
             NEW g \in Operations, Claims(g, s)'
      PROVE  g = e
  <2>1. CASE s <= issued
    <3>1. s # issued + 1
      BY <1>1, <2>1
    <3>. QED
      BY <1>3, <3>1 DEF Claimed
  <2>2. CASE ~(s <= issued)
    <3>1. ~Claims(e, s) /\ ~Claims(g, s)
      BY <2>2 DEF Claimed
    <3>. QED
      BY <1>3, <3>1
  <2>. QED
    BY <2>1, <2>2
<1>. QED
  BY <1>2, <1>3 DEF Claimed

(* The sources of claims a step leaves alone.                              *)
LEMMA SourcesKept ==
    ASSUME Types, RowsKept, Sighted, NEW e \in Operations, NEW s \in Submissions
    PROVE  /\ queue' \subseteq queue /\ QueueClaims(e, s)' => QueueClaims(e, s)
           /\ UNCHANGED entries /\ EntryClaims(e, s)' => EntryClaims(e, s)
           /\ wire' \subseteq wire /\ WireClaims(e, s)' => WireClaims(e, s)
           /\ UNCHANGED exec /\ CallClaims(e, s)' => CallClaims(e, s)
           /\ seen' \subseteq seen /\ SeenClaims(e, s)' => SeenClaims(e, s)
<1>1. ASSUME UNCHANGED exec, CallClaims(e, s)'
      PROVE  CallClaims(e, s)
  <2>1. PICK x \in Executors : /\ ~At(x, "idle")' /\ EntryFor(Op(x))' = e
                               /\ Names(exec'[x], s)
    BY <1>1 DEF CallClaims
  <2>2. ~At(x, "idle") /\ Names(exec[x], s)
    BY <1>1, <2>1 DEF At
  <2>3. Op(x) \in Operations /\ Proper(Op(x))
    BY <2>2, AtWork DEF Types
  <2>4. EntryFor(Op(x)) = e
    BY <1>1, <2>1, <2>3 DEF RowsKept, EntryFor, Op
  <2>. QED
    BY <2>2, <2>4 DEF CallClaims
<1>2. ASSUME seen' \subseteq seen, SeenClaims(e, s)'
      PROVE  SeenClaims(e, s)
  <2>1. PICK o \in seen : ops'[o.op].entry = e /\ o.sub = s
    BY <1>2 DEF SeenClaims, EntryFor
  <2>2. o.op \in Operations /\ Proper(o.op)
    BY DEF Types, SeenTypes, Sightings, Sighted
  <2>. QED
    BY <2>1, <2>2 DEF RowsKept, SeenClaims, EntryFor
<1>. QED
  BY <1>1, <1>2 DEF QueueClaims, EntryClaims, WireClaims, J!Exists

(* What a call may name after its step.                                    *)
LEMMA CallClaimed ==
    ASSUME Types, RowsKept, NEW x \in Executors, NEW v, ExecStep(x, v),
           \/ v = Idle
           \/ /\ v.op \in Operations /\ Proper(v.op)
              /\ \A s \in Submissions : Names(v, s) => Claims(EntryFor(v.op), s),
           NEW e \in Operations, NEW s \in Submissions, CallClaims(e, s)'
    PROVE  Claims(e, s)
<1>1. PICK y \in Executors : /\ exec'[y].pc # "idle" /\ ops'[exec'[y].op].entry = e
                             /\ Names(exec'[y], s)
  BY DEF CallClaims, At, Op, EntryFor
<1>2. CASE y = x
  <2>1. exec'[y] = v /\ v # Idle
    BY <1>1, <1>2 DEF ExecStep, Idle
  <2>2. ops'[v.op].entry = EntryFor(v.op)
    BY <2>1 DEF RowsKept, EntryFor
  <2>. QED
    BY <1>1, <2>1, <2>2
<1>3. CASE y # x
  <2>1. exec'[y] = exec[y]
    BY <1>3 DEF ExecStep
  <2>2. ~At(y, "idle")
    BY <1>1, <2>1 DEF At
  <2>3. Op(y) \in Operations /\ Proper(Op(y))
    BY <2>2, AtWork DEF Types
  <2>4. EntryFor(Op(y)) = e
    BY <1>1, <2>1, <2>3 DEF RowsKept, EntryFor, Op
  <2>. QED
    BY <1>1, <2>1, <2>2, <2>4 DEF CallClaims, Claims
<1>. QED
  BY <1>2, <1>3

LEMMA EntryClaimed ==
    ASSUME NEW e \in Operations, J!Exists(e), NEW state, NEW mutation, NEW sub,
           EntryStep(e, state, mutation, sub),
           sub = entries[e].submission \/ Claims(e, sub),
           NEW f \in Operations, NEW s \in Submissions, EntryClaims(f, s)'
    PROVE  Claims(f, s)
BY DEF EntryStep, EntryClaims, Claims, J!Exists

(* After most steps a call names what it named.                            *)
Echoes(w, v) == v.op = w.op /\ v.sub = w.sub /\ v.reply \in {w.reply, None}

LEMMA ExecuteCall ==
    ASSUME Types, NEW x \in Executors, Execute(x)
    PROVE  \E v : /\ exec' = [exec EXCEPT ![x] = v]
                  /\ \/ v = Idle
                     \/ \E op \in Operations : v = Working(op) /\ Proper(op)
                     \/ ~At(x, "idle") /\ Echoes(exec[x], v)
                     \/ /\ ~At(x, "idle")
                        /\ v.op = Op(x) /\ v.reply = exec[x].reply
                        /\ v.sub = entries[EntryFor(Op(x))].submission
<1>1. CASE \E op \in Operations : Pick(x, op)
  <2>1. PICK op \in Operations : Pick(x, op)
    BY <1>1
  <2>2. Proper(op)
    BY <2>1, RowFields DEF Pick, Types, J!Statuses
  <2>. QED
    BY <2>1, <2>2 DEF Pick
<1>2. CASE Stop(x)
  BY <1>2 DEF Stop
<1>3. CASE ~At(x, "idle")
  <2>1. exec[x] \in Workers
    BY <1>3, AtWork DEF Types
  <2>2. ASSUME NEW ends \in {"failed", "uncertain"}, Throw(x, ends)
        PROVE  exec' = [exec EXCEPT ![x] = Thrown(exec[x], ends)]
               /\ Echoes(exec[x], Thrown(exec[x], ends))
    <3>1. Echoes(exec[x], Thrown(exec[x], ends))
      BY <2>1, ThrownFields DEF Echoes
    <3>2. exec' = [exec EXCEPT ![x] = Thrown(exec[x], ends)]
      BY <2>2 DEF Throw, Thrown
    <3>. QED
      BY <3>1, <3>2
  <2>3. ASSUME NEW pc \in Stages, Move(x, pc)
        PROVE  exec' = [exec EXCEPT ![x] = Moved(exec[x], pc)]
               /\ Echoes(exec[x], Moved(exec[x], pc))
    BY <2>1, <2>3, MovedFields DEF Move, Moved, Echoes
  <2>4. CASE Prepare(x)
    <3>1. Throw(x, "failed") \/ exec' = [exec EXCEPT ![x] = Swapped(exec[x])]
      BY <2>4 DEF Prepare, Swapped
    <3>2. Echoes(exec[x], Swapped(exec[x]))
      BY <2>1, SwappedFields DEF Echoes
    <3>. QED
      BY <1>3, <2>2, <3>1, <3>2
  <2>9. CASE Defer(x)
    <3>1. \/ Stop(x) \/ Throw(x, "failed")
          \/ exec' = [exec EXCEPT ![x] = Unprepared(exec[x])]
      BY <2>9 DEF Defer, Unprepared
    <3>2. Echoes(exec[x], Unprepared(exec[x]))
      BY <2>1, UnpreparedFields DEF Echoes
    <3>. QED
      BY <1>2, <1>3, <2>2, <3>1, <3>2
  <2>5. CASE HealthAllows(x)
    <3>1. exec' = [exec EXCEPT ![x] = Readied(exec[x], active = None)]
      BY <2>5 DEF HealthAllows, Readied
    <3>2. Echoes(exec[x], Readied(exec[x], active = None))
      BY <2>1, ReadiedFields DEF Echoes
    <3>. QED
      BY <1>3, <3>1, <3>2
  <2>6. CASE ReadEntry(x)
    <3>. DEFINE entry == entries[EntryOf(x)]
                v == [exec[x] EXCEPT !.pc = IF host = 0 THEN "refusing" ELSE "read",
                        !.sub = entry.submission,
                        !.withdrawn = entry.state = "withdrawn",
                        !.revision = entry.revision,
                        !.host = host]
    <3>1. CASE exec' = [exec EXCEPT ![x] = v]
      <4>1. v.op = Op(x) /\ v.reply = exec[x].reply /\ v.sub = entries[EntryFor(Op(x))].submission
        BY <2>1 DEF Workers, Op, EntryOf, EntryFor
      <4>. HIDE DEF v
      <4>. QED
        BY <1>3, <3>1, <4>1
    <3>. QED
      BY <1>2, <2>6, <3>1 DEF ReadEntry
  <2>7. CASE Actuate(x) \/ Steer(x)
    <3>1. \/ \E ends \in {"failed", "uncertain"} : Throw(x, ends)
          \/ \E method \in Methods : exec' = [exec EXCEPT ![x] = Asking(exec[x], method)]
      BY <2>7, MethodTyped DEF Actuate, Steer, Send, Asking, Methods
    <3>2. \A method \in Methods : Echoes(exec[x], Asking(exec[x], method))
      BY <2>1, AskingFields DEF Echoes
    <3>. QED
      BY <1>3, <2>2, <3>1, <3>2
  <2>8. CASE \/ Terminate(x) \/ HealthRefuses(x) \/ HealthWaits(x)
             \/ FenceUnreadable(x) \/ FenceSettled(x) \/ RefuseFenced(x) \/ RefuseNow(x)
             \/ Unauthorized(x) \/ Postpone(x)
             \/ LoseReply(x) \/ ReceiveRefusal(x) \/ ReceiveReply(x) \/ RemoveEntry(x)
             \/ ReceiveWithdrawal(x)
             \/ CatchStatus(x) \/ CatchDeferred(x) \/ CatchEntry(x) \/ End(x)
             \/ Crash(x)
    <3>1. \/ Stop(x)
          \/ \E ends \in {"failed", "uncertain"} : Throw(x, ends)
          \/ \E pc \in Stages : Move(x, pc)
      BY <2>8 DEF Terminate, HealthRefuses, HealthWaits, FenceUnreadable, FenceSettled,
                  RefuseFenced, RefuseNow, Unauthorized, Postpone, LoseReply,
                  ReceiveRefusal, ReceiveReply, RemoveEntry, ReceiveWithdrawal, CatchStatus, CatchDeferred,
                  CatchEntry, End, Crash, Stages
    <3>. QED
      BY <1>2, <1>3, <2>2, <2>3, <3>1
  <2>. QED
    BY <1>1, <1>2, <2>4, <2>5, <2>6, <2>7, <2>8, <2>9 DEF Execute
<1>. QED
  BY <1>1, <1>3 DEF Execute, Terminate, ReadEntry, HealthRefuses, HealthWaits, HealthAllows,
     FenceUnreadable, FenceSettled, RefuseFenced, RefuseNow, Prepare, Unauthorized, Postpone,
     Defer, Actuate, Steer, LoseReply, ReceiveRefusal, ReceiveReply, RemoveEntry,
     ReceiveWithdrawal, CatchStatus, CatchDeferred, CatchEntry, End, Crash, At

(* What an executor does to the journal.                                   *)
LEMMA ExecuteJournal ==
    ASSUME Types, NEW x \in Executors, Execute(x)
    PROVE  \/ UNCHANGED journal
           \/ /\ ~At(x, "idle")
              /\ \/ J!Prepare(Op(x), exec[x].revision, Thread)
                 \/ J!Refuse(Op(x)) \/ J!Defer(Op(x)) \/ J!Remove(EntryFor(Op(x)))
                 \/ J!MarkUncertain(Op(x)) \/ J!MarkWithdrawn(Op(x))
                 \/ /\ exec[x].reply # None /\ exec[x].reply \in Replies
                    /\ exec[x].reply.kind = "queued"
                    /\ J!AcknowledgeQueued(Op(x), exec[x].reply.sub)
                 \/ \E turn \in Turns : J!AcknowledgeDispatched(Op(x), turn)
                 \/ \E deleted \in BOOLEAN : J!AcknowledgeDeleted(Op(x), deleted)
<1>1. CASE ReceiveReply(x)
  <2>1. exec[x] \in Workers /\ ~At(x, "idle")
    BY <1>1, AtStage DEF Types, ReceiveReply, Stages
  <2>. DEFINE reply == exec[x].reply
  <2>2. \/ UNCHANGED journal
        \/ reply # None /\ reply.kind # "refused" /\ Acknowledge(x, reply)
    BY <1>1 DEF ReceiveReply
  <2>3. CASE reply # None /\ reply.kind # "refused" /\ Acknowledge(x, reply)
    <3>1. reply \in Replies
      BY <2>1, <2>3 DEF Workers
    <3>2. /\ reply.kind \in {"queued", "turn", "deleted"}
          /\ reply.kind = "turn" => reply.turn \in Turns
          /\ reply.kind = "deleted" => reply.deleted \in BOOLEAN
      BY <2>3, <3>1, ReplyTypes
    <3>3. /\ reply.kind = "queued" => J!AcknowledgeQueued(Op(x), reply.sub)
          /\ reply.kind = "turn" => J!AcknowledgeDispatched(Op(x), reply.turn)
          /\ reply.kind = "deleted" => J!AcknowledgeDeleted(Op(x), reply.deleted)
      BY <2>3, <3>2 DEF Acknowledge
    <3>. QED
      BY <2>1, <2>3, <3>1, <3>2, <3>3
  <2>. QED
    BY <2>2, <2>3
<1>2. CASE ~ReceiveReply(x)
  BY <1>2 DEF Execute, Pick, Terminate, ReadEntry, HealthRefuses, HealthWaits, HealthAllows,
     FenceUnreadable, FenceSettled, RefuseFenced, RefuseNow, Prepare, Unauthorized, Postpone,
     Defer, Actuate, Steer, LoseReply, ReceiveRefusal, RemoveEntry, EntryOf, EntryFor,
     ReceiveWithdrawal, CatchStatus, CatchDeferred, CatchEntry, End, Crash, At
<1>. QED
  BY <1>1, <1>2

LEMMA ExecuteWire ==
    ASSUME Types, NEW x \in Executors, Execute(x)
    PROVE  /\ UNCHANGED <<fence, codex, hosting, seen>>
           /\ \/ UNCHANGED wire
              \/ \E method \in Methods : /\ At(x, "prepared") \/ At(x, "steering")
                                         /\ Send(x, method) /\ UNCHANGED journal
                                         /\ wire' = wire \cup {Request(x, method)}
<1>1. UNCHANGED <<fence, codex, hosting, seen>>
  BY DEF Execute, Pick, Terminate, ReadEntry, HealthRefuses, HealthWaits, HealthAllows,
     FenceUnreadable, FenceSettled, RefuseFenced, RefuseNow, Prepare, Unauthorized, Postpone,
     Defer, Actuate, Steer, LoseReply, ReceiveRefusal, ReceiveReply, RemoveEntry,
     ReceiveWithdrawal, CatchStatus, CatchDeferred, CatchEntry, End, Crash
<1>2. CASE Actuate(x)
  <2>1. PICK guarded \in BOOLEAN :
           \/ Send(x, MethodFor(x, guarded))
           \/ Throw(x, "failed") /\ UNCHANGED wire
    BY <1>2 DEF Actuate
  <2>2. MethodFor(x, guarded) \in Methods
    BY MethodTyped
  <2>3. At(x, "prepared") /\ UNCHANGED journal
    BY <1>2 DEF Actuate
  <2>4. Send(x, MethodFor(x, guarded)) => wire' = wire \cup {Request(x, MethodFor(x, guarded))}
    BY DEF Send, Request
  <2>. QED
    BY <1>1, <2>1, <2>2, <2>3, <2>4
<1>3. CASE Steer(x)
  <2>1. "turn/steer" \in Methods
    BY DEF Methods
  <2>2. Send(x, "turn/steer") => wire' = wire \cup {Request(x, "turn/steer")}
    BY DEF Send, Request
  <2>. QED
    BY <1>1, <1>3, <2>1, <2>2 DEF Steer
<1>4. CASE ~Actuate(x) /\ ~Steer(x)
  BY <1>1, <1>4
     DEF Execute, Pick, Terminate, ReadEntry, HealthRefuses, HealthWaits, HealthAllows,
     FenceUnreadable, FenceSettled, RefuseFenced, RefuseNow, Prepare, Unauthorized, Postpone,
     Defer, LoseReply, ReceiveRefusal, ReceiveReply, RemoveEntry,
     ReceiveWithdrawal, CatchStatus, CatchDeferred, CatchEntry, End, Crash
<1>. QED
  BY <1>2, <1>3, <1>4

(* What is known of requests, sightings and submissions.                   *)
Ledger == Wired /\ Sighted /\ Claimed

LEMMA LedgerRest ==
    ASSUME Types, Ledger, RowsKept, wire' \subseteq wire, seen' \subseteq seen
    PROVE  Wired' /\ Sighted'
<1>1. ASSUME NEW r \in wire'
      PROVE  IsRow(ops'[r.op]) /\ r.client = ops'[r.op].entry
  <2>1. r \in wire /\ r.op \in Operations
    BY DEF Types, WireTypes, Requests
  <2>2. Proper(r.op) /\ r.client = EntryFor(r.op)
    BY <2>1 DEF Ledger, Wired
  <2>. QED
    BY <2>1, <2>2 DEF RowsKept, EntryFor
<1>2. ASSUME NEW o \in seen'
      PROVE  IsRow(ops'[o.op])
  <2>1. o \in seen /\ o.op \in Operations
    BY DEF Types, SeenTypes, Sightings
  <2>. QED
    BY <2>1 DEF RowsKept, Ledger, Sighted
<1>. QED
  BY <1>1, <1>2 DEF Wired, Sighted, Proper, EntryFor

LEMMA ExecuteCalls ==
    ASSUME Types, NEW x \in Executors, Execute(x), NEW e \in Operations, NEW s \in Submissions,
           CallClaims(e, s)'
    PROVE  Claims(e, s)
<1>1. RowsKept
  BY ExecuteTyped DEF Journaled
<1>2. PICK v : /\ exec' = [exec EXCEPT ![x] = v]
               /\ \/ v = Idle
                  \/ \E op \in Operations : v = Working(op) /\ Proper(op)
                  \/ ~At(x, "idle") /\ Echoes(exec[x], v)
                  \/ /\ ~At(x, "idle")
                     /\ v.op = Op(x) /\ v.reply = exec[x].reply
                     /\ v.sub = entries[EntryFor(Op(x))].submission
  BY ExecuteCall
<1>3. ExecStep(x, v)
  BY <1>2 DEF ExecStep, Types, ExecTypes
<1>4. CASE v = Idle
  BY <1>1, <1>3, <1>4, CallClaimed
<1>5. ASSUME NEW op \in Operations, v = Working(op), Proper(op)
      PROVE  Claims(e, s)
  <2>1. v.op = op /\ \A t \in Submissions : ~Names(v, t)
    BY <1>5, Constants DEF Working, Names
  <2>. HIDE DEF Working
  <2>. QED
    BY <1>1, <1>3, <1>5, <2>1, CallClaimed
<1>6. ASSUME ~At(x, "idle"), v.op = Op(x), v.reply \in {exec[x].reply, None},
             v.sub \in {exec[x].sub, entries[EntryFor(Op(x))].submission}
      PROVE  Claims(e, s)
  <2>1. Op(x) \in Operations /\ Proper(Op(x))
    BY <1>6, AtWork DEF Types
  <2>2. EntryFor(Op(x)) \in Operations /\ J!Exists(EntryFor(Op(x)))
    BY <2>1, RowFields DEF Types
  <2>3. ASSUME NEW t \in Submissions, Names(v, t)
        PROVE  Claims(EntryFor(v.op), t)
    <3>1. CASE v.sub = t /\ v.sub = entries[EntryFor(Op(x))].submission
      BY <1>6, <2>2, <3>1 DEF Claims, EntryClaims
    <3>2. CASE Names(exec[x], t)
      BY <1>6, <3>2 DEF Claims, CallClaims
    <3>. QED
      BY <1>6, <2>3, <3>1, <3>2 DEF Names
  <2>. QED
    BY <1>1, <1>3, <1>6, <2>1, <2>3, CallClaimed
<1>. QED
  BY <1>2, <1>4, <1>5, <1>6 DEF Echoes, Op

LEMMA ExecuteEntries ==
    ASSUME Types, NEW x \in Executors, Execute(x), NEW e \in Operations, NEW s \in Submissions,
           EntryClaims(e, s)'
    PROVE  Claims(e, s)
<1>1. CASE UNCHANGED journal
  BY <1>1 DEF journal, EntryClaims, Claims, J!Exists
<1>2. CASE ~At(x, "idle")
  <2>. DEFINE op == Op(x)
              f == EntryFor(op)
  <2>1. op \in Operations /\ Proper(op) /\ exec[x] \in Workers
    BY <1>2, AtWork DEF Types
  <2>2. f \in Operations /\ J!Exists(f) /\ JournalTypes
    BY <2>1, RowFields DEF Types
  <2>3. ASSUME NEW sub, sub = entries[f].submission \/ Claims(f, sub),
               \E state, mutation : EntryStep(f, state, mutation, sub)
        PROVE  Claims(e, s)
    <3>. HIDE DEF f
    <3>. QED
      BY <2>2, <2>3, EntryClaimed
  <2>4. CASE UNCHANGED entries
    BY <2>4 DEF EntryClaims, Claims, J!Exists
  <2>5. CASE J!Prepare(op, exec[x].revision, Thread)
    <3>1. EntryStep(f, entries[f].state, op, entries[f].submission)
      BY <2>1, <2>2, <2>5, PrepareEffect
    <3>. QED
      BY <2>3, <3>1
  <2>6. CASE J!Refuse(op)
    <3>1. EntryStep(f, RefusedState(op), None, entries[f].submission)
      BY <2>1, <2>2, <2>6, RefuseEffect
    <3>. QED
      BY <2>3, <3>1
  <2>7. CASE J!Defer(op) \/ J!Remove(f)
    BY <2>4, <2>7 DEF J!Defer, J!Remove
  <2>8. CASE J!MarkUncertain(op)
    <3>1. EntryStep(f, Spared(f, "uncertain"), op, entries[f].submission)
      BY <2>1, <2>2, <2>8, MarkUncertainEffect
    <3>. QED
      BY <2>3, <3>1
  <2>9. CASE J!MarkWithdrawn(op)
    <3>1. EntryStep(f, Spared(f, "withdrawn"), op, entries[f].submission)
      BY <2>1, <2>2, <2>9, MarkWithdrawnEffect
    <3>. QED
      BY <2>3, <3>1
  <2>10. CASE /\ exec[x].reply # None /\ exec[x].reply \in Replies
              /\ exec[x].reply.kind = "queued" /\ J!AcknowledgeQueued(op, exec[x].reply.sub)
    <3>1. exec[x].reply.sub \in Submissions
      BY <2>10, ReplyTypes
    <3>2. EntryStep(f, Spared(f, "queued"), None, exec[x].reply.sub)
      BY <2>1, <2>2, <2>10, <3>1, QueuedEffect
    <3>3. Claims(f, exec[x].reply.sub)
      BY <1>2, <2>10 DEF Claims, CallClaims, Names
    <3>. QED
      BY <2>3, <3>2, <3>3
  <2>11. ASSUME NEW turn \in Turns, J!AcknowledgeDispatched(op, turn)
         PROVE  Claims(e, s)
    <3>1. EntryStep(f, Spared(f, "dispatching"), None, entries[f].submission)
      BY <2>1, <2>2, <2>11, DispatchedEffect
    <3>. QED
      BY <2>3, <3>1
  <2>12. ASSUME NEW deleted \in BOOLEAN, J!AcknowledgeDeleted(op, deleted)
         PROVE  Claims(e, s)
    <3>1. EntryStep(f, Spared(f, DeletedState(deleted)), None, entries[f].submission)
      BY <2>1, <2>2, <2>12, DeletedEffect
    <3>. QED
      BY <2>3, <3>1
  <2>. HIDE DEF op, f
  <2>. QED
    BY <1>1, <2>5, <2>6, <2>7, <2>8, <2>9, <2>10, <2>11, <2>12, ExecuteJournal DEF op, f
<1>. QED
  BY <1>1, <1>2, ExecuteJournal

LEMMA ExecuteLedger ==
    ASSUME Types, Ledger, NEW x \in Executors, Execute(x)
    PROVE  Ledger'
<1>1. Journaled /\ RowsKept /\ UNCHANGED <<codex, seen>>
  BY ExecuteTyped, ExecuteWire DEF Journaled
<1>2. CASE UNCHANGED wire
  <2>1. Wired' /\ Sighted'
    BY <1>1, <1>2, LedgerRest
  <2>2. ASSUME NEW e \in Operations, NEW s \in Submissions, Claims(e, s)'
        PROVE  Claims(e, s)
    BY <1>1, <1>2, <2>2, ExecuteCalls, ExecuteEntries, SourcesKept DEF Claims, codex, Ledger
  <2>3. issued' = issued
    BY <1>1 DEF codex
  <2>4. Claimed'
    BY <2>2, <2>3, ClaimedKept DEF Ledger
  <2>. QED
    BY <2>1, <2>4 DEF Ledger
<1>3. ASSUME NEW method \in Methods, At(x, "prepared") \/ At(x, "steering"),
             wire' = wire \cup {Request(x, method)}
      PROVE  Ledger'
  <2>1. /\ ~At(x, "idle") /\ Op(x) \in Operations /\ Proper(Op(x))
    BY <1>3, AtStage DEF Types, Stages
  <2>. DEFINE r0 == Request(x, method)
  <2>2. r0.op = Op(x) /\ r0.client = EntryFor(Op(x)) /\ r0.sub = exec[x].sub
    BY DEF Request, EntryOf, EntryFor
  <2>. HIDE DEF r0
  <2>3. ASSUME NEW r \in wire'
        PROVE  IsRow(ops'[r.op]) /\ r.client = ops'[r.op].entry
    <3>1. r.op \in Operations /\ Proper(r.op) /\ r.client = EntryFor(r.op)
      <4>1. CASE r = r0
        BY <2>1, <2>2, <4>1
      <4>2. CASE r \in wire
        BY <4>2 DEF Ledger, Wired, Types, WireTypes, Requests
      <4>. QED
        BY <1>3, <2>3, <4>1, <4>2 DEF r0
    <3>. QED
      BY <1>1, <3>1 DEF RowsKept, EntryFor
  <2>4. Sighted'
    <3>1. \A o \in seen : o.op \in Operations
      BY DEF Types, SeenTypes, Sightings
    <3>. QED
      BY <1>1, <3>1 DEF Ledger, Sighted, RowsKept, Proper
  <2>5. Wired'
    BY <2>3 DEF Wired, Proper, EntryFor
  <2>6. ASSUME NEW e \in Operations, NEW s \in Submissions, Claims(e, s)'
        PROVE  Claims(e, s)
    <3>1. WireClaims(e, s)' => Claims(e, s)
      <4>1. ASSUME NEW r \in wire', r.client = e, r.sub = s
            PROVE  Claims(e, s)
        <5>1. CASE r \in wire
          BY <4>1, <5>1 DEF Claims, WireClaims
        <5>2. CASE r = r0
          BY <2>1, <2>2, <4>1, <5>2 DEF Claims, CallClaims, Names
        <5>. QED
          BY <1>3, <5>1, <5>2 DEF r0
      <4>. QED
        BY <4>1 DEF WireClaims
    <3>. QED
      BY <1>1, <2>6, <3>1, ExecuteCalls, ExecuteEntries, SourcesKept DEF Claims, codex, Ledger
  <2>7. issued' = issued
    BY <1>1 DEF codex
  <2>8. Claimed'
    BY <2>6, <2>7, ClaimedKept DEF Ledger
  <2>. QED
    BY <2>4, <2>5, <2>8 DEF Ledger
<1>. QED
  BY <1>2, <1>3, ExecuteWire

(* A reply that is carried names a submission its request's message claims.*)
LEMMA ServeLedger ==
    ASSUME Types, Aimed, Ledger, NEW r \in wire, Serve(r)
    PROVE  Ledger'
<1>1. /\ Journaled /\ RowsKept /\ wire' = wire \ {r} /\ UNCHANGED <<journal, seen>>
  BY ServeTyped DEF Serve, Journaled
<1>2. Wired' /\ Sighted'
  BY <1>1, LedgerRest
<1>3. /\ r.client \in Operations /\ r.op \in Operations /\ r.by \in Executors
      /\ Proper(r.op) /\ r.client = EntryFor(r.op)
      /\ r.sub \in Submissions => Claims(r.client, r.sub)
  BY DEF Types, WireTypes, Requests, Ledger, Wired, Claims, WireClaims
<1>4. ASSUME NEW reply \in Replies, Answer(r, reply), NEW e \in Operations,
             NEW s \in Submissions, CallClaims(e, s)',
             ~Claims(e, s)
      PROVE  reply.kind = "queued" /\ reply.sub = s /\ e = r.client
  <2>1. Reached(r, reply)
    BY <1>1, <1>4, AnswerTyped
  <2>2. CASE UNCHANGED exec
    BY <1>1, <1>4, <2>2, SourcesKept DEF Claims, Ledger
  <2>3. CASE ~UNCHANGED exec
    <3>. DEFINE x == r.by
                v == Answered(exec[x], reply)
    <3>1. At(x, "sent") /\ exec[x].op = r.op /\ ExecStep(x, v)
      BY <2>1, <2>3 DEF Reached
    <3>2. exec[x] \in Workers /\ ~At(x, "idle")
      BY <1>3, <3>1, AtStage DEF Types, Stages
    <3>3. v.op = r.op /\ v.sub = exec[x].sub /\ v.reply = reply
      BY <3>1, <3>2, AnsweredFields
    <3>. HIDE DEF v
    <3>4. CASE reply.kind = "queued" /\ reply.sub = s /\ e = r.client
      BY <3>4
    <3>5. CASE ~(reply.kind = "queued" /\ reply.sub = s /\ e = r.client)
      <4>1. PICK y \in Executors : /\ exec'[y].pc # "idle" /\ ops'[exec'[y].op].entry = e
                                   /\ Names(exec'[y], s)
        BY <1>4 DEF CallClaims, At, Op, EntryFor
      <4>2. CASE y = x
        <5>1. e = r.client
          BY <1>1, <1>3, <3>1, <3>3, <4>1, <4>2 DEF ExecStep, RowsKept, EntryFor
        <5>2. exec[x].sub = s
          BY <3>1, <3>3, <3>5, <4>1, <4>2, <5>1 DEF ExecStep, Names
        <5>3. CallClaims(e, s)
          BY <1>3, <3>1, <3>2, <5>1, <5>2 DEF CallClaims, Names, Op
        <5>. QED
          BY <1>4, <5>3 DEF Claims
      <4>3. CASE y # x
        <5>1. exec'[y] = exec[y]
          BY <3>1, <4>3 DEF ExecStep
        <5>2. ~At(y, "idle")
          BY <4>1, <5>1 DEF At
        <5>3. Op(y) \in Operations /\ Proper(Op(y))
          BY <5>2, AtWork DEF Types
        <5>4. EntryFor(Op(y)) = e
          BY <1>1, <4>1, <5>1, <5>3 DEF RowsKept, EntryFor, Op
        <5>. QED
          BY <1>4, <4>1, <5>1, <5>2, <5>4 DEF CallClaims, Claims
      <4>. QED
        BY <4>2, <4>3
    <3>. QED
      BY <3>4, <3>5
  <2>. QED
    BY <2>2, <2>3
<1>5. ASSUME NEW e \in Operations, NEW s \in Submissions, Claims(e, s)'
      PROVE  QueueClaims(e, s)' \/ CallClaims(e, s)' \/ Claims(e, s)
  BY <1>1, <1>5, SourcesKept DEF Claims, journal, Ledger
<1>6. CASE ServeAdd(r)
  <2>. DEFINE reply == [kind |-> "queued", sub |-> issued + 1]
              item == [client |-> r.client, revision |-> r.revision, sub |-> issued + 1]
  <2>1. /\ issued' = issued + 1 /\ queue' = queue \cup {item} /\ Answer(r, reply)
        /\ issued < Cardinality(Operations)
    BY <1>6 DEF ServeAdd
  <2>2. reply \in Replies /\ reply.sub = issued + 1
    <3>1. issued + 1 \in Submissions
      BY <2>1, Constants DEF Types, CodexTypes, Submissions
    <3>. QED
      BY <3>1, ReplyTypes
  <2>3. item.client = r.client /\ item.sub = issued + 1
    OBVIOUS
  <2>. HIDE DEF reply, item
  <2>4. ASSUME NEW e \in Operations, NEW s \in Submissions, Claims(e, s)', ~Claims(e, s)
        PROVE  e = r.client /\ s = issued + 1
    <3>1. CASE CallClaims(e, s)'
      BY <1>4, <2>1, <2>2, <2>4, <3>1
    <3>2. CASE QueueClaims(e, s)'
      BY <2>1, <2>3, <2>4, <3>2 DEF QueueClaims, Claims
    <3>. QED
      BY <1>5, <2>4, <3>1, <3>2
  <2>5. Claimed'
    BY <2>1, <2>4, ClaimedKept DEF Ledger
  <2>. QED
    BY <1>2, <2>5 DEF Ledger
<1>7. ASSUME NEW reply \in Replies, Answer(r, reply), issued' = issued,
             reply.kind = "queued" => reply.sub = r.sub,
             \A i \in queue' : \E j \in queue : i.client = j.client /\ i.sub = j.sub
      PROVE  Ledger'
  <2>1. ASSUME NEW e \in Operations, NEW s \in Submissions, Claims(e, s)'
        PROVE  Claims(e, s)
    <3>1. CASE CallClaims(e, s)'
      BY <1>3, <1>4, <1>7, <3>1
    <3>2. CASE QueueClaims(e, s)'
      BY <1>7, <3>2 DEF QueueClaims, Claims
    <3>. QED
      BY <1>5, <2>1, <3>1, <3>2
  <2>2. Claimed'
    BY <1>7, <2>1, ClaimedKept DEF Ledger
  <2>. QED
    BY <1>2, <2>2 DEF Ledger
<1>8. CASE ServeUpdate(r)
  <2>1. PICK item \in queue :
           /\ item.sub = r.sub
           /\ queue' = (queue \ {item}) \cup {[item EXCEPT !.revision = r.revision]}
    BY <1>8 DEF ServeUpdate
  <2>2. item \in Items /\ item.sub \in Submissions
    BY DEF Types, CodexTypes, Items
  <2>3. /\ [item EXCEPT !.revision = r.revision].client = item.client
        /\ [item EXCEPT !.revision = r.revision].sub = item.sub
    BY <2>2 DEF Items
  <2>4. \A i \in queue' : \E j \in queue : i.client = j.client /\ i.sub = j.sub
    BY <2>1, <2>3
  <2>. DEFINE reply == [kind |-> "queued", sub |-> r.sub]
  <2>5. reply \in Replies /\ reply.sub = r.sub
    BY <2>1, <2>2, ReplyTypes
  <2>6. Answer(r, reply) /\ issued' = issued
    BY <1>8 DEF ServeUpdate
  <2>. HIDE DEF reply
  <2>. QED
    BY <1>7, <2>4, <2>5, <2>6
<1>9. CASE ServeDelete(r)
  <2>. DEFINE reply == [kind |-> "deleted", deleted |-> queue' # queue]
  <2>1. reply \in Replies /\ reply.kind # "queued"
    BY ReplyTypes
  <2>2. Answer(r, reply) /\ issued' = issued /\ queue' \subseteq queue
    BY <1>9 DEF ServeDelete
  <2>. HIDE DEF reply
  <2>. QED
    BY <1>7, <2>1, <2>2
<1>10. CASE ServeQueueStart(r) \/ ServeTurnStart(r) \/ ServeSteer(r)
  <2>. DEFINE reply == [kind |-> "turn", turn |-> active']
  <2>1. active' \in Turns
    <3>1. ServeQueueStart(r) \/ ServeTurnStart(r) => active' \in Turns
      BY StartTurnTyped DEF ServeQueueStart, ServeTurnStart, Types
    <3>2. ServeSteer(r) => active' \in Turns
      BY DEF ServeSteer, Aimed, Types, WireTypes, Requests
    <3>. QED
      BY <1>10, <3>1, <3>2
  <2>2. reply \in Replies /\ reply.kind # "queued"
    BY <2>1, ReplyTypes
  <2>3. Answer(r, reply) /\ issued' = issued /\ queue' \subseteq queue
    BY <1>10 DEF ServeQueueStart, ServeTurnStart, ServeSteer
  <2>. HIDE DEF reply
  <2>. QED
    BY <1>7, <2>2, <2>3
<1>11. CASE RefuseRequest(r)
  <2>. DEFINE reply == [kind |-> "refused"]
  <2>1. reply \in Replies /\ reply.kind # "queued"
    BY ReplyTypes
  <2>2. Answer(r, reply) /\ issued' = issued /\ queue' \subseteq queue
    BY <1>11 DEF RefuseRequest, codex
  <2>. HIDE DEF reply
  <2>. QED
    BY <1>7, <2>1, <2>2
<1>. QED
  BY <1>6, <1>8, <1>9, <1>10, <1>11 DEF Serve

(* Whatever else happens names no submission anew.                         *)
LEMMA RestLedger ==
    ASSUME Types, Ledger, RowsKept, UNCHANGED <<exec, wire, issued>>, queue' \subseteq queue,
           seen' \subseteq seen,
           \A e \in Operations, s \in Submissions : EntryClaims(e, s)' => Claims(e, s)
    PROVE  Ledger'
<1>1. Wired' /\ Sighted'
  BY LedgerRest
<1>2. ASSUME NEW e \in Operations, NEW s \in Submissions, Claims(e, s)'
      PROVE  Claims(e, s)
  BY <1>2, SourcesKept DEF Claims, Ledger
<1>3. Claimed'
  BY <1>2, ClaimedKept DEF Ledger
<1>. QED
  BY <1>1, <1>3 DEF Ledger

LEMMA LedgerStart ==
    ASSUME Init
    PROVE  Ledger
<1>1. /\ queue = {} /\ wire = {} /\ seen = {}
      /\ \A x \in Executors : exec[x] = Idle
      /\ \A e \in Operations : ~J!Exists(e)
  BY DEF Init, J!Init, J!Exists
<1>2. \A x \in Executors : At(x, "idle")
  BY <1>1 DEF At, Idle
<1>3. \A e \in Operations, s \in Submissions : ~Claims(e, s)
  BY <1>1, <1>2 DEF Claims, QueueClaims, EntryClaims, WireClaims, CallClaims, SeenClaims
<1>. QED
  BY <1>1, <1>3 DEF Ledger, Wired, Sighted, Claimed

(* The reconciliation's observation of a queued mutation.                  *)
LEMMA ReadQueueSees ==
    ASSUME Types, ReadQueue, NEW o \in seen'
    PROVE  /\ o.op \in Operations /\ Proper(o.op) /\ Mutation(EntryFor(o.op)) = o.op
           /\ \E item \in queue : item.client = EntryFor(o.op) /\ item.sub = o.sub
<1>1. /\ o \in [op : Operations, sub : Submissions, revision : 1..MaxRevision]
      /\ \E e \in Operations :
            /\ J!Exists(e)
            /\ entries[e].mutation = o.op
            /\ {[sub |-> item.sub, revision |-> item.revision] :
                   item \in {i \in queue : i.client = e}}
                 = {[sub |-> o.sub, revision |-> o.revision]}
  BY DEF ReadQueue
<1>2. PICK e \in Operations :
         /\ J!Exists(e)
         /\ entries[e].mutation = o.op
         /\ {[sub |-> item.sub, revision |-> item.revision] :
                item \in {i \in queue : i.client = e}}
              = {[sub |-> o.sub, revision |-> o.revision]}
  BY <1>1
<1>3. o.op \in Operations /\ Mutation(e) = o.op /\ o.op # None
  BY <1>1, <1>2, Constants DEF Mutation
<1>4. Proper(o.op) /\ EntryFor(o.op) = e
  BY <1>2, <1>3, EntryFields DEF Types
<1>5. \E item \in queue : item.client = e /\ item.sub = o.sub
  <2>1. [sub |-> o.sub, revision |-> o.revision]
          \in {[sub |-> item.sub, revision |-> item.revision] :
                 item \in {i \in queue : i.client = e}}
    BY <1>2
  <2>2. PICK item \in queue : /\ item.client = e
                              /\ [sub |-> item.sub, revision |-> item.revision]
                                   = [sub |-> o.sub, revision |-> o.revision]
    BY <2>1
  <2>. QED
    BY <2>2
<1>. QED
  BY <1>3, <1>4, <1>5

LEMMA LedgerStep ==
    ASSUME Types, Aimed, Ledger, [Next]_vars
    PROVE  Ledger'
<1>1. Journaled /\ RowsKept
  BY TypesStep DEF Journaled
<1>2. ASSUME UNCHANGED <<exec, wire, issued>>, queue' \subseteq queue, seen' \subseteq seen,
             UNCHANGED entries
      PROVE  Ledger'
  BY <1>1, <1>2, RestLedger DEF EntryClaims, Claims, J!Exists
<1>3. ASSUME UNCHANGED <<exec, wire, codex>>, seen' \subseteq seen,
             NEW e \in Operations, NEW sub,
             sub = None \/ (J!Exists(e) /\ sub = entries[e].submission) \/ Claims(e, sub),
             \E state, mutation : EntryStep(e, state, mutation, sub)
      PROVE  Ledger'
  <2>1. ASSUME NEW f \in Operations, NEW s \in Submissions, EntryClaims(f, s)'
        PROVE  Claims(f, s)
    <3>1. s # None
      BY Constants
    <3>. QED
      BY <1>3, <2>1, <3>1 DEF EntryStep, EntryClaims, Claims, J!Exists
  <2>2. UNCHANGED <<exec, wire, issued>> /\ queue' \subseteq queue
    BY <1>3 DEF codex
  <2>. QED
    BY <1>1, <1>3, <2>1, <2>2, RestLedger
<1>4. ASSUME NEW op \in Messages, AdmitAdd(op)
      PROVE  Ledger'
  <2>1. op \in Operations /\ EntryStep(op, "admitted", op, None)
    BY <1>4, AdmitAddEffect DEF AdmitAdd, NativeQueueAssumption, Types
  <2>. QED
    BY <1>3, <1>4, <2>1 DEF AdmitAdd
<1>5. ASSUME NEW op \in Operations \ Messages, AdmitControl(op)
      PROVE  Ledger'
  <2>1. PICK action \in {"update", "delete", "start", "send-now"}, e \in Operations :
           /\ J!Exists(e)
           /\ J!AdmitControl(op, action, e, Thread, entries[e].revision)
    BY <1>5 DEF AdmitControl
  <2>2. EntryStep(e, entries[e].state, op, entries[e].submission)
    BY <2>1, AdmitControlEffect DEF Types
  <2>3. UNCHANGED <<exec, wire, codex, hosting, seen>>
    BY <1>5 DEF AdmitControl
  <2>. QED
    BY <1>3, <2>1, <2>2, <2>3
<1>6. ASSUME NEW op \in Operations, WithdrawSeat(op)
      PROVE  Ledger'
  <2>1. Waiting(op) /\ EntryFor(op) = op /\ EntryStep(op, "refused", None, entries[op].submission)
    BY <1>6, WithdrawSeatEffect DEF WithdrawSeat, Types
  <2>2. J!Exists(op)
    BY <2>1, RowFields DEF Waiting, Types
  <2>. QED
    BY <1>3, <1>6, <2>1, <2>2 DEF WithdrawSeat
<1>7. CASE \E x \in Executors : Execute(x)
  BY <1>7, ExecuteLedger
<1>8. CASE \E r \in wire : Serve(r)
  BY <1>8, ServeLedger
<1>9. CASE Dispatch \/ OtherTurn \/ EndTurn \/ LoseHost \/ ReplaceHost \/ UNCHANGED vars
  BY <1>2, <1>9 DEF Dispatch, OtherTurn, EndTurn, LoseHost, ReplaceHost, vars, codex, journal
<1>10. CASE ReadQueue
  <2>1. UNCHANGED <<ops, entries, exec, wire, queue, issued>>
    BY <1>10 DEF ReadQueue, journal, codex
  <2>2. Wired'
    BY <2>1 DEF Ledger, Wired, Proper, EntryFor
  <2>3. Sighted'
    BY <1>10, <2>1, ReadQueueSees DEF Sighted, Proper
  <2>4. ASSUME NEW e \in Operations, NEW s \in Submissions, Claims(e, s)'
        PROVE  Claims(e, s)
    <3>1. SeenClaims(e, s)' => QueueClaims(e, s)
      <4>1. ASSUME NEW o \in seen', ops'[o.op].entry = e, o.sub = s
            PROVE  QueueClaims(e, s)
        BY <1>10, <2>1, <4>1, ReadQueueSees DEF QueueClaims, EntryFor
      <4>. QED
        BY <4>1 DEF SeenClaims, EntryFor
    <3>. QED
      BY <1>1, <2>1, <2>4, <3>1, SourcesKept DEF Claims, Ledger
  <2>5. Claimed'
    BY <2>1, <2>4, ClaimedKept DEF Ledger
  <2>. QED
    BY <2>2, <2>3, <2>5 DEF Ledger
<1>11. ASSUME NEW o \in seen, RecordQueued(o)
       PROVE  Ledger'
  <2>1. /\ UNCHANGED <<exec, wire, codex>> /\ seen' \subseteq seen
        /\ J!ObserveQueued(o.op, o.sub) \/ UNCHANGED journal
    BY <1>11 DEF RecordQueued
  <2>2. o.op \in Operations /\ o.sub \in Submissions /\ Proper(o.op)
    BY DEF Types, SeenTypes, Sightings, Ledger, Sighted
  <2>3. CASE UNCHANGED journal
    BY <1>2, <2>1, <2>3 DEF journal, codex
  <2>4. CASE J!ObserveQueued(o.op, o.sub)
    <3>. DEFINE e == EntryFor(o.op)
    <3>1. EntryStep(e, Spared(e, "queued"), None, o.sub)
      BY <2>2, <2>4, QueuedEffect DEF Types
    <3>2. e \in Operations /\ Claims(e, o.sub)
      BY <2>2, RowFields DEF Types, Claims, SeenClaims
    <3>. HIDE DEF e
    <3>. QED
      BY <1>3, <2>1, <3>1, <3>2
  <2>. QED
    BY <2>1, <2>3, <2>4
<1>12. ASSUME NEW e \in Operations, RecordRemoved(e)
       PROVE  Ledger'
  BY <1>2, <1>12, RemoveEffect DEF RecordRemoved, Types, codex
<1>13. ASSUME NEW item \in transcript, RecordProof(item)
       PROVE  Ledger'
  <2>. DEFINE e == item.client
              proof == [revision |-> item.revision, turn |-> item.turn, input |-> item.revision]
  <2>1. e \in Operations /\ J!Prove(e, proof)
    BY <1>13 DEF RecordProof, Types, CodexTypes, Messaged
  <2>2. UNCHANGED <<exec, wire, codex, seen>>
    BY <1>13 DEF RecordProof
  <2>. HIDE DEF e, proof
  <2>3. J!Exists(e) /\ EntryStep(e, "delivered", IF Mutation(e) = e THEN None ELSE Mutation(e),
                                 entries[e].submission)
    BY <2>1, ProveEffect DEF Types
  <2>. QED
    BY <1>3, <2>1, <2>2, <2>3
<1>. QED
  BY <1>4, <1>5, <1>6, <1>7, <1>8, <1>9, <1>10, <1>11, <1>12, <1>13 DEF Next

LEMMA LedgerHolds == Spec => [](Types /\ Aimed /\ Ledger)
BY TypesStart, TypesStep, LedgerStart, LedgerStep, PTL DEF Spec

(* Whoever names a submission of Codex's queue means one message by it:    *)
(* items, entries, requests, replies and reconciliations in progress never *)
(* share an id, so an edit, a delete or an observation of one message      *)
(* cannot act on another.                                                  *)
THEOREM SubmissionsUnshared == Spec => []Claimed
BY LedgerHolds, PTL DEF Ledger
=============================================================================
