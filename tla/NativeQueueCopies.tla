-------------------------- MODULE NativeQueueCopies --------------------------
(***************************************************************************)
(* Theorems about the copies of a message in NativeQueue, for all          *)
(* operations, messages and executors and every bound: a message has one   *)
(* copy as long as no call refuses what another has prepared, which one    *)
(* executor at a time cannot do.                                           *)
(***************************************************************************)
EXTENDS NativeQueueProofs

USE NativeQueueAssumption

-----------------------------------------------------------------------------
(* Where the copies are                                                    *)

Payloads == {"queue/add", "turn/start", "turn/steer"}
Clear(e) == InFlight(e) = {} /\ InQueue(e) = {} /\ InTranscript(e) = {}
Arrived(e) == InQueue(e) # {} \/ InTranscript(e) # {}
Lone(e) ==
    /\ \A r, s \in InFlight(e) : r = s
    /\ \A i, j \in InQueue(e) : i = j
    /\ \A i, j \in InTranscript(e) : i = j
    /\ InFlight(e) # {} => ~Arrived(e)
    /\ InQueue(e) # {} => InTranscript(e) = {}

-----------------------------------------------------------------------------
(* How far an operation and its callers are                                *)

On(x, op) == ~At(x, "idle") /\ Op(x) = op
Prepared(x, op) == On(x, op) /\ exec[x].prepared

(* Stages before and after the compare-and-swap of `prepared`.             *)
Before == {"known", "refusing", "read", "ready", "fenced"}
After == {"prepared", "deferring", "sent", "removing", "steering"}
Unwritten == {"prepared", "deferring"}
Informing == {"read", "ready"} \cup Unwritten
Stands(w) ==
    /\ w.pc \in Before => ~w.prepared
    /\ w.pc \in After => w.prepared
    /\ w.pc = "deferred" => ~w.prepared
    /\ w.ends = "uncertain" => w.prepared

IsRefusal(reply) == reply # None /\ reply.kind = "refused"
IsWithdrawal(reply) == reply # None /\ reply.kind = "deleted" /\ reply.deleted

(* A call that knows that nothing it prepared is on its way.               *)
Holding(w) ==
    /\ w.prepared
    /\ \/ w.pc \in Unwritten \cup {"steering"}
       \/ w.pc = "sent" /\ IsRefusal(w.reply)
       \/ w.pc \in {"caught", "checked", "ending"} /\ w.ends = "failed"

Holds(x) == ~At(x, "idle") /\ Holding(exec[x])

Carrier(op) == ops[op].action # "update"
Withdrawn(e) == entries[e].state = "withdrawn"
Payload(op) == ops[op].action = "add" \/ Withdrawn(EntryFor(op))
Unsent(op) == \A r \in wire : r.op # op
Open(op) == Waiting(op) \/ \E x \in Executors : On(x, op) /\ Holds(x)
Pending(op) == Waiting(op) \/ \E x \in Executors : On(x, op) /\ exec[x].pc \in Unwritten

(* One call at a time has prepared an operation.                           *)
Owned(op) ==
    \A x \in Executors : Prepared(x, op) =>
        /\ ~Waiting(op)
        /\ \A y \in Executors : Prepared(y, op) => x = y

(* Nothing of an open operation is on its way, and a payload it may send   *)
(* is nowhere else.                                                        *)
Opened(op) ==
    Open(op) => /\ Mutation(EntryFor(op)) = op
                /\ ops[op].status \in {"queued", "delivering"}
                /\ Unsent(op)
                /\ Payload(op) => Clear(EntryFor(op))

(* What was read of the entry before the write is still so at the write.   *)
Fresh(op) ==
    Pending(op) =>
        /\ Withdrawn(EntryFor(op)) => ops[op].action = "start"
        /\ \A x \in Executors : On(x, op) /\ exec[x].pc \in Informing =>
              (exec[x].withdrawn <=> Withdrawn(EntryFor(op)))

(* A call that waits for an answer.                                        *)
Asked(op) ==
    \A x \in Executors : On(x, op) /\ At(x, "sent") =>
        /\ exec[x].reply # None => Unsent(op)
        /\ ops[op].action # "add" \/ ~Unsent(op) => ops[op].status = "delivering"
        /\ IsWithdrawal(exec[x].reply) => /\ Clear(EntryFor(op))
                                          /\ ops[op].action \in {"delete", "send-now"}

Steers(op) ==
    \A x \in Executors : On(x, op) /\ At(x, "steering") =>
        ops[op].action = "send-now" /\ Withdrawn(EntryFor(op))

Requested(op) ==
    \A r \in wire : r.op = op =>
        /\ \A s \in wire : s.op = op => r = s
        /\ Payload(op) /\ (ops[op].action = "add" \/ Mutation(EntryFor(op)) = op)
              => r.method \in Payloads
        /\ r.method = "queue/delete" => ops[op].action \in {"delete", "send-now"}

Right(op) ==
    /\ Owned(op) /\ Steers(op)
    /\ Carrier(op) => Opened(op) /\ Fresh(op) /\ Asked(op) /\ Requested(op)
    /\ ops[op].action # "add" => Mutation(EntryFor(op)) # EntryFor(op)

(* What the journal says of a message agrees with where it is.             *)
Whole(e) ==
    /\ Lone(e)
    /\ ~J!Exists(e) => Clear(e)
    /\ J!Exists(e) =>
          /\ entries[e].state \in {"refused", "removed"} => Clear(e)
          /\ Withdrawn(e) /\ Mutation(e) = None => Clear(e)
          /\ Withdrawn(e) /\ Mutation(e) # None => Carrier(Mutation(e))
          /\ entries[e].state = "delivered" => InTranscript(e) # {}

Standing == \A x \in Executors : ~At(x, "idle") => Stands(exec[x])
Seen == \A o \in seen : ops[o.op].action = "add" /\ Mutation(o.op) = o.op => Arrived(o.op)

Copies ==
    /\ \A op \in Operations : Proper(op) => Right(op)
    /\ \A e \in Operations : Whole(e)
    /\ Standing
    /\ Seen

-----------------------------------------------------------------------------
(* What a step leaves of an operation                                      *)

(* What a call becomes by a step that writes neither journal nor wire.     *)
Milder(x, v) ==
    /\ v.pc \notin {"sent", "steering"}
    /\ v.prepared => Prepared(x, v.op)
    /\ Holding(v) => On(x, v.op) /\ Holds(x)
    /\ v.pc \in Unwritten => On(x, v.op) /\ exec[x].pc \in Unwritten
    /\ v.pc \in Informing =>
          \/ v.withdrawn <=> Withdrawn(EntryFor(v.op))
          \/ On(x, v.op) /\ exec[x].pc \in Informing /\ v.withdrawn = exec[x].withdrawn

SameCalls(op) ==
    \A x \in Executors : exec'[x].pc # "idle" /\ exec'[x].op = op =>
        exec'[x] = exec[x] \/ Milder(x, exec'[x])
SameWire(op) == \A r \in wire' : r.op = op => r \in wire

(* The calls on an operation whose calls a step leaves alone.              *)
LEMMA CallsKept ==
    ASSUME Standing, NEW q \in Operations, SameCalls(q), NEW x \in Executors, On(x, q)'
    PROVE  /\ exec'[x].prepared => Prepared(x, q)
           /\ Holding(exec'[x]) => On(x, q) /\ Holds(x)
           /\ exec'[x].pc \in {"sent", "steering"} => On(x, q) /\ exec'[x] = exec[x]
           /\ exec'[x].pc \in Unwritten => On(x, q) /\ exec[x].pc \in Unwritten /\ Holds(x)
           /\ exec'[x].pc \in Informing =>
                 \/ exec'[x].withdrawn <=> Withdrawn(EntryFor(q))
                 \/ On(x, q) /\ exec[x].pc \in Informing /\ exec'[x].withdrawn = exec[x].withdrawn
<1>1. exec'[x].pc # "idle" /\ exec'[x].op = q
  BY DEF On, At, Op
<1>2. CASE exec'[x] = exec[x]
  <2>1. On(x, q)
    BY <1>1, <1>2 DEF On, At, Op
  <2>2. Stands(exec[x])
    BY <2>1 DEF On, Standing
  <2>. QED
    BY <1>2, <2>1, <2>2 DEF Prepared, Holds, Holding, On, Stands, After, Unwritten
<1>3. CASE Milder(x, exec'[x])
  <2>1. exec'[x].pc \in Unwritten => Holds(x)
    BY <1>1, <1>3 DEF Milder, Holds, Holding, On, Stands, After, Unwritten, Standing
  <2>. QED
    BY <1>1, <1>3, <2>1 DEF Milder
<1>. QED
  BY <1>1, <1>2, <1>3 DEF SameCalls

(* An operation that neither waits nor holds anything is not open.         *)
LEMMA PendingOpens ==
    ASSUME Standing, NEW q \in Operations, Pending(q)
    PROVE  Open(q)
BY DEF Standing, Pending, Open, Holds, Holding, On, Stands, After, Unwritten

(* A step that is not of operation q keeps what is known of it.            *)
LEMMA Undisturbed ==
    ASSUME Types, RowsKept, Standing, NEW q \in Operations, Proper(q), Right(q),
           SameCalls(q), SameWire(q), NEW e \in Operations, EntryFor(q) = e,
           Mutation(e) = q =>
              /\ ops'[q] = ops[q] /\ entries'[e].mutation = q
              /\ Clear(e) => Clear(e)'
              /\ Withdrawn(e)' => Withdrawn(e)
              /\ Withdrawn(e) /\ Clear(e) => Withdrawn(e)',
           Mutation(e) # q =>
              entries'[e].mutation # q /\ (entries'[e].mutation = e => Mutation(e) = e)
    PROVE  Right(q)'
<1>1. /\ IsRow(ops'[q]) /\ ops'[q].action = ops[q].action /\ ops'[q].entry = e
  BY DEF RowsKept, EntryFor
<1>2. /\ ops[q].status = "delivering" => Mutation(e) = q
  BY RowFields DEF Types
<1>3. Waiting(q)' => Waiting(q) /\ Mutation(e) = q
  BY <1>1 DEF Waiting, EntryFor, Mutation
<1>4. Waiting(q) => Mutation(e) = q
  BY DEF Waiting
<1>5. Open(q)' => Open(q)
  <2>1. ASSUME NEW x \in Executors, On(x, q)', Holds(x)'
        PROVE  Open(q)
    <3>1. Holding(exec'[x])
      BY <2>1 DEF Holds
    <3>. QED
      BY <2>1, <3>1, CallsKept DEF Open
  <2>. QED
    BY <1>3, <2>1 DEF Open
<1>6. Pending(q)' => Pending(q)
  <2>1. ASSUME NEW x \in Executors, On(x, q)', exec'[x].pc \in Unwritten
        PROVE  Pending(q)
    BY <2>1, CallsKept DEF Pending
  <2>. QED
    BY <1>3, <2>1 DEF Pending
<1>7. Carrier(q)' <=> Carrier(q)
  BY <1>1 DEF Carrier
<1>8. Open(q) /\ Carrier(q) => Mutation(e) = q
  BY DEF Right, Opened
<1>9. Payload(q)' /\ Mutation(e) = q => Payload(q)
  BY <1>1 DEF Payload, EntryFor
<1>10. Unsent(q) => Unsent(q)'
  BY DEF SameWire, Unsent
<1>11. Owned(q)'
  <2>1. ASSUME NEW x \in Executors, Prepared(x, q)'
        PROVE  Prepared(x, q)
    BY <2>1, CallsKept DEF Prepared
  <2>. QED
    BY <1>3, <2>1 DEF Owned, Right
<1>12. ASSUME NEW x \in Executors, On(x, q)', At(x, "steering")'
       PROVE  ops'[q].action = "send-now" /\ Withdrawn(e)'
  <2>1. exec'[x].pc = "steering"
    BY <1>12 DEF At
  <2>2. On(x, q) /\ exec'[x] = exec[x] /\ At(x, "steering")
    BY <1>12, <2>1, CallsKept DEF At
  <2>3. ops[q].action = "send-now" /\ Withdrawn(e)
    BY <2>2 DEF Right, Steers
  <2>4. Holds(x)
    BY <2>1, <2>2 DEF On, Holds, Holding, Standing, Stands, After
  <2>5. Open(q) /\ Carrier(q) /\ Payload(q)
    BY <2>2, <2>3, <2>4 DEF Open, Carrier, Payload
  <2>6. Clear(e)
    BY <2>5 DEF Right, Opened
  <2>. QED
    BY <1>1, <1>8, <2>3, <2>5, <2>6
<1>13. Carrier(q) => Opened(q)'
  BY <1>1, <1>5, <1>8, <1>9, <1>10 DEF Opened, Right, EntryFor, Mutation
<1>14. Carrier(q) => Fresh(q)'
  <2>. SUFFICES ASSUME Carrier(q), Pending(q)'
                PROVE  /\ Withdrawn(e)' => ops[q].action = "start"
                       /\ \A x \in Executors : On(x, q)' /\ exec'[x].pc \in Informing =>
                             (exec'[x].withdrawn <=> Withdrawn(e)')
    BY <1>1 DEF Fresh, EntryFor
  <2>1. Pending(q) /\ Open(q) /\ Mutation(e) = q
    BY <1>6, <1>8, PendingOpens
  <2>2. Withdrawn(e)' <=> Withdrawn(e)
    <3>1. Withdrawn(e) => Clear(e)
      BY <2>1 DEF Right, Opened, Payload
    <3>. QED
      BY <2>1, <3>1
  <2>3. ASSUME NEW x \in Executors, On(x, q)', exec'[x].pc \in Informing
        PROVE  exec'[x].withdrawn <=> Withdrawn(e)
    <3>1. \/ exec'[x].withdrawn <=> Withdrawn(e)
          \/ On(x, q) /\ exec[x].pc \in Informing /\ exec'[x].withdrawn = exec[x].withdrawn
      BY <2>3, CallsKept
    <3>2. ASSUME On(x, q), exec[x].pc \in Informing, exec'[x].withdrawn = exec[x].withdrawn
          PROVE  exec'[x].withdrawn <=> Withdrawn(e)
      BY <2>1, <3>2 DEF Right, Fresh
    <3>. QED
      BY <3>1, <3>2
  <2>. QED
    BY <2>1, <2>2, <2>3 DEF Right, Fresh
<1>15. Carrier(q) => Asked(q)'
  <2>. SUFFICES ASSUME Carrier(q), NEW x \in Executors, On(x, q)', At(x, "sent")'
                PROVE  /\ exec'[x].reply # None => Unsent(q)'
                       /\ ops[q].action # "add" \/ ~Unsent(q)' => ops'[q].status = "delivering"
                       /\ IsWithdrawal(exec'[x].reply) =>
                             Clear(e)' /\ ops[q].action \in {"delete", "send-now"}
    BY <1>1 DEF Asked, EntryFor
  <2>1. exec'[x].pc = "sent"
    BY DEF At
  <2>2. On(x, q) /\ exec'[x] = exec[x] /\ At(x, "sent")
    BY <2>1, CallsKept DEF At
  <2>3. /\ exec[x].reply # None => Unsent(q)
        /\ ops[q].action # "add" \/ ~Unsent(q) => ops[q].status = "delivering"
        /\ IsWithdrawal(exec[x].reply) => Clear(e) /\ ops[q].action \in {"delete", "send-now"}
    BY <2>2 DEF Right, Asked
  <2>4. IsWithdrawal(exec[x].reply) => Clear(e)' /\ ops[q].action \in {"delete", "send-now"}
    BY <1>2, <2>3
  <2>. QED
    BY <1>2, <1>10, <2>2, <2>3, <2>4
<1>16. Carrier(q) => Requested(q)'
  BY <1>1, <1>9 DEF Right, Requested, SameWire, EntryFor, Mutation, Payload
<1>17. ops[q].action # "add" => entries'[e].mutation # e
  BY DEF Right, Mutation
<1>. QED
  BY <1>1, <1>7, <1>11, <1>12, <1>13, <1>14, <1>15, <1>16, <1>17
     DEF Right, Steers, EntryFor, Mutation

-----------------------------------------------------------------------------
(* What a step makes of its own operation                                  *)

(* Nothing is open any more, and nobody waits for an answer to a control.  *)
LEMMA Settled ==
    ASSUME Types, RowsKept, NEW q \in Operations, Proper(q), Right(q), SameWire(q),
           NEW e \in Operations, EntryFor(q) = e,
           ~Waiting(q)',
           \A x \in Executors : On(x, q)' =>
              /\ exec'[x].prepared => Prepared(x, q)
              /\ exec'[x].pc # "steering"
              /\ Carrier(q) => ~Holding(exec'[x])
              /\ Carrier(q) => exec'[x].pc \notin Unwritten
              /\ Carrier(q) /\ exec'[x].pc = "sent" =>
                    Unsent(q) /\ ops[q].action = "add" /\ exec'[x] = exec[x],
           Carrier(q) /\ Withdrawn(e)' /\ entries'[e].mutation = q => Unsent(q),
           entries'[e].mutation # e \/ ops[q].action = "add"
    PROVE  Right(q)'
<1>1. /\ IsRow(ops'[q]) /\ ops'[q].action = ops[q].action /\ ops'[q].entry = e
  BY DEF RowsKept, EntryFor
<1>2. Carrier(q)' <=> Carrier(q)
  BY <1>1 DEF Carrier
<1>3. Owned(q)'
  BY DEF Owned, Right, Prepared
<1>4. Steers(q)'
  BY DEF Steers, At
<1>5. Carrier(q) => ~Open(q)' /\ ~Pending(q)'
  BY DEF Open, Pending, Holds
<1>6. Carrier(q) => Opened(q)' /\ Fresh(q)'
  BY <1>5 DEF Opened, Fresh
<1>7. Unsent(q) => Unsent(q)'
  BY DEF SameWire, Unsent
<1>8. Carrier(q) => Asked(q)'
  <2>. SUFFICES ASSUME Carrier(q), NEW x \in Executors, On(x, q)', At(x, "sent")'
                PROVE  /\ exec'[x].reply # None => Unsent(q)'
                       /\ ops[q].action # "add" \/ ~Unsent(q)' => ops'[q].status = "delivering"
                       /\ ~IsWithdrawal(exec'[x].reply)
    BY <1>1 DEF Asked
  <2>1. exec'[x].pc = "sent" /\ Unsent(q) /\ ops[q].action = "add" /\ exec'[x] = exec[x]
    BY DEF At
  <2>2. On(x, q) /\ At(x, "sent")
    BY <2>1 DEF On, At, Op
  <2>3. ~IsWithdrawal(exec[x].reply)
    BY <2>1, <2>2 DEF Right, Asked
  <2>. QED
    BY <1>7, <2>1, <2>3
<1>9. Carrier(q) => Requested(q)'
  <2>. SUFFICES ASSUME Carrier(q), NEW r \in wire', r.op = q
                PROVE  /\ \A s \in wire' : s.op = q => r = s
                       /\ Payload(q)' /\ (ops[q].action = "add" \/ entries'[e].mutation = q)
                             => r.method \in Payloads
                       /\ r.method = "queue/delete" => ops[q].action \in {"delete", "send-now"}
    BY <1>1 DEF Requested, EntryFor, Mutation
  <2>1. r \in wire /\ ~Unsent(q)
    BY DEF SameWire, Unsent
  <2>2. \A s \in wire' : s.op = q => s \in wire
    BY DEF SameWire
  <2>3. ops[q].action = "add" => Payload(q)
    BY DEF Payload
  <2>4. Payload(q)' /\ entries'[e].mutation = q => ops[q].action = "add"
    BY <1>1, <2>1 DEF Payload, EntryFor
  <2>. QED
    BY <2>1, <2>2, <2>3, <2>4 DEF Right, Requested
<1>. QED
  BY <1>1, <1>2, <1>3, <1>4, <1>6, <1>8, <1>9 DEF Right, EntryFor, Mutation

(* The caller that prepared an operation, or one that finds it waiting,    *)
(* ends it.                                                                *)
Spent(w) == w.pc = "removing" \/ (w.pc = "caught" /\ w.ends = "uncertain")

LEMMA Resolved ==
    ASSUME Types, RowsKept, Standing, NEW q \in Operations, Proper(q), Right(q), SameWire(q),
           NEW e \in Operations, EntryFor(q) = e,
           NEW x \in Executors, On(x, q), NEW v, ExecStep(x, v),
           v = Idle \/ (v.op = q /\ Spent(v) /\ exec[x].prepared),
           Prepared(x, q) \/ Waiting(q),
           ~Waiting(q)',
           Carrier(q) /\ Withdrawn(e)' /\ entries'[e].mutation = q => Unsent(q),
           entries'[e].mutation # e \/ ops[q].action = "add"
    PROVE  Right(q)'
<1>1. ASSUME NEW y \in Executors, On(y, q)'
      PROVE  /\ exec'[y].prepared => Prepared(y, q)
             /\ exec'[y].pc # "steering"
             /\ ~Holding(exec'[y])
             /\ exec'[y].pc \notin Unwritten
             /\ exec'[y].pc # "sent"
  <2>1. CASE y = x
    <3>1. exec'[y] = v /\ v # Idle
      BY <1>1, <2>1 DEF ExecStep, On, At, Idle
    <3>2. Spent(v) /\ exec[x].prepared
      BY <3>1
    <3>3. Prepared(y, q)
      BY <2>1, <3>2 DEF Prepared
    <3>. QED
      BY <3>1, <3>2, <3>3 DEF Spent, Holding, Unwritten
  <2>2. CASE y # x
    <3>1. exec'[y] = exec[y] /\ On(y, q)
      BY <1>1, <2>2 DEF ExecStep, On, At, Op
    <3>2. ~exec[y].prepared
      BY <2>2, <3>1 DEF Right, Owned, Prepared
    <3>3. Stands(exec[y])
      BY <3>1 DEF Standing, On
    <3>. QED
      BY <3>1, <3>2, <3>3 DEF Stands, After, Holding, Unwritten
  <2>. QED
    BY <2>1, <2>2
<1>. QED
  BY <1>1, Settled

(* The operation stays open, or becomes so.                                *)
LEMMA Reopened ==
    ASSUME Types, RowsKept, NEW q \in Operations, Proper(q), Carrier(q) => Unsent(q)',
           NEW e \in Operations, EntryFor(q) = e,
           entries'[e].mutation = q, ops'[q].status \in {"queued", "delivering"},
           Carrier(q) /\ Payload(q)' => Clear(e)',
           NEW x \in Executors,
           \A y \in Executors : On(y, q)' =>
              /\ exec'[y].prepared => y = x /\ ops'[q].status # "queued"
              /\ exec'[y].pc # "sent"
              /\ exec'[y].pc = "steering" => ops[q].action = "send-now" /\ Withdrawn(e)',
           Carrier(q) => Fresh(q)'
    PROVE  Right(q)'
<1>1. /\ IsRow(ops'[q]) /\ ops'[q].action = ops[q].action /\ ops'[q].entry = e
  BY DEF RowsKept, EntryFor
<1>2. Carrier(q)' <=> Carrier(q)
  BY <1>1 DEF Carrier
<1>3. Owned(q)'
  BY DEF Owned, Prepared, Waiting
<1>4. Steers(q)'
  BY <1>1 DEF Steers, At, EntryFor
<1>5. Carrier(q) => Opened(q)'
  BY <1>1 DEF Opened, EntryFor, Mutation
<1>6. Asked(q)'
  BY DEF Asked, At
<1>7. Carrier(q) => Requested(q)'
  BY DEF Requested, Unsent
<1>8. ops[q].action # "add" => e # q
  BY RowFields DEF Types
<1>. QED
  BY <1>1, <1>2, <1>3, <1>4, <1>5, <1>6, <1>7, <1>8 DEF Right, EntryFor, Mutation

-----------------------------------------------------------------------------
(* A step of the journal on operation p and its entry                      *)

(* What an entry's state owes.                                             *)
Owed(e, state, mutation) ==
    /\ state \in {"refused", "removed"} => Clear(e)
    /\ state = "withdrawn" /\ mutation = None => Clear(e)
    /\ state = "withdrawn" /\ mutation # None => Carrier(mutation)
    /\ state = "delivered" => InTranscript(e) # {}

LEMMA WholeOwes ==
    ASSUME Types, Copies, NEW e \in Operations, J!Exists(e)
    PROVE  Owed(e, entries[e].state, Mutation(e))
BY DEF Copies, Whole, Owed, Withdrawn

(* A message whose entry and copies a step leaves alone.                   *)
LEMMA EntryStays ==
    ASSUME Types, Copies, RowsKept, NEW e \in Operations, entries'[e] = entries[e],
           InFlight(e)' = InFlight(e), InQueue(e)' = InQueue(e),
           InTranscript(e)' = InTranscript(e)
    PROVE  Whole(e)'
<1>1. J!Exists(e)' <=> J!Exists(e)
  BY DEF J!Exists
<1>2. ASSUME J!Exists(e), Withdrawn(e), Mutation(e) # None
      PROVE  ops'[Mutation(e)].action # "update"
  <2>1. Mutation(e) \in Operations /\ Proper(Mutation(e))
    BY <1>2, EntryFields DEF Types
  <2>2. Carrier(Mutation(e))
    BY <1>2 DEF Copies, Whole
  <2>. QED
    BY <2>1, <2>2 DEF Carrier, RowsKept
<1>3. Whole(e)
  BY DEF Copies
<1>. QED
  BY <1>1, <1>2, <1>3 DEF Whole, Lone, Arrived, Clear, Withdrawn, Mutation, Carrier

LEMMA JournalRest ==
    ASSUME Types, Ledger, Copies, RowsKept, NEW p \in Operations, Proper(p),
           NEW e \in Operations, EntryFor(p) = e, Mutation(e) = p, J!Exists(e),
           NEW state, NEW mutation \in {p, None}, NEW sub, EntryStep(e, state, mutation, sub),
           Owed(e, state, mutation),
           \A q \in Operations \ {p} : ops'[q] = ops[q],
           UNCHANGED <<wire, codex>>, seen' \subseteq seen,
           Standing', Right(p)',
           \A q \in Operations \ {p} : SameCalls(q)
    PROVE  Copies'
<1>1. \A f \in Operations :
         /\ InFlight(f)' = InFlight(f) /\ InQueue(f)' = InQueue(f)
         /\ InTranscript(f)' = InTranscript(f)
  BY DEF InFlight, InQueue, InTranscript, codex
<1>2. \A f \in Operations : /\ Clear(f)' <=> Clear(f)
                            /\ Arrived(f)' <=> Arrived(f)
                            /\ Lone(f)' <=> Lone(f)
  BY <1>1 DEF Clear, Arrived, Lone
<1>3. ASSUME NEW q \in Operations, Proper(q)', q # p
      PROVE  Right(q)'
  <2>1. Proper(q) /\ ops'[q] = ops[q]
    BY <1>3 DEF Proper
  <2>2. PICK f \in Operations : EntryFor(q) = f
    BY <2>1, RowFields DEF Types
  <2>3. Right(q)
    BY <2>1 DEF Copies
  <2>4. SameWire(q)
    BY DEF SameWire
  <2>5. ASSUME Mutation(f) = q
        PROVE  /\ entries'[f].mutation = q
               /\ Clear(f) => Clear(f)'
               /\ Withdrawn(f)' => Withdrawn(f)
               /\ Withdrawn(f) /\ Clear(f) => Withdrawn(f)'
    <3>1. entries'[f] = entries[f]
      BY <1>3, <2>5 DEF EntryStep
    <3>. QED
      BY <1>2, <2>5, <3>1 DEF Mutation, Withdrawn
  <2>6. ASSUME Mutation(f) # q
        PROVE  entries'[f].mutation # q /\ (entries'[f].mutation = f => Mutation(f) = f)
    <3>1. CASE f = e
      <4>1. q # None
        BY Constants
      <4>2. f # None
        BY Constants
      <4>. QED
        BY <1>3, <3>1, <4>1, <4>2 DEF EntryStep
    <3>2. CASE f # e
      BY <2>6, <3>2 DEF EntryStep, Mutation
    <3>. QED
      BY <3>1, <3>2
  <2>7. SameCalls(q)
    BY <1>3
  <2>. QED
    BY <2>1, <2>2, <2>3, <2>4, <2>5, <2>6, <2>7, Undisturbed DEF Copies
<1>4. ASSUME NEW f \in Operations
      PROVE  Whole(f)'
  <2>1. CASE f # e
    <3>1. entries'[f] = entries[f]
      BY <2>1 DEF EntryStep
    <3>. QED
      BY <1>1, <3>1, EntryStays
  <2>2. CASE f = e
    <3>1. /\ J!Exists(e)' /\ entries'[e].state = state /\ entries'[e].mutation = mutation
      BY DEF EntryStep
    <3>2. Carrier(p)' <=> Carrier(p)
      BY DEF Carrier, RowsKept
    <3>3. Lone(e)'
      BY <1>2 DEF Copies, Whole
    <3>4. ASSUME state = "withdrawn", mutation # None
          PROVE  ops'[mutation].action # "update"
      BY <3>2, <3>4 DEF Owed, Carrier
    <3>. QED
      BY <1>1, <1>2, <2>2, <3>1, <3>3, <3>4 DEF Whole, Withdrawn, Mutation, Carrier, Owed
  <2>. QED
    BY <2>1, <2>2
<1>5. Seen'
  <2>. SUFFICES ASSUME NEW o \in seen', ops'[o.op].action = "add",
                       entries'[o.op].mutation = o.op
                PROVE  Arrived(o.op)'
    BY DEF Seen, Mutation
  <2>1. o \in seen /\ o.op \in Operations /\ Proper(o.op)
    BY DEF Types, SeenTypes, Sightings, Ledger, Sighted
  <2>2. ops[o.op].action = "add"
    BY <2>1 DEF RowsKept
  <2>3. Mutation(o.op) = o.op
    <3>1. o.op # None
      BY <2>1, Constants
    <3>. QED
      BY <2>1, <3>1 DEF EntryStep, Mutation
  <2>4. Arrived(o.op)
    BY <2>1, <2>2, <2>3 DEF Copies, Seen
  <2>. QED
    BY <1>2, <2>1, <2>4
<1>. QED
  BY <1>3, <1>4, <1>5 DEF Copies

(* A step that leaves the journal alone.                                   *)
LEMMA JournalStays ==
    ASSUME Types, Copies, UNCHANGED journal, NEW q \in Operations, Proper(q),
           SameCalls(q), SameWire(q), NEW e \in Operations, EntryFor(q) = e,
           Mutation(e) = q /\ Clear(e) => Clear(e)'
    PROVE  Right(q)'
<1>1. ops' = ops /\ entries' = entries
  BY DEF journal
<1>2. RowsKept
  BY <1>1 DEF RowsKept, Proper
<1>. QED
  BY <1>1, <1>2, Undisturbed DEF Copies, Mutation, Withdrawn

LEMMA SeenStays ==
    ASSUME Copies, UNCHANGED <<journal, queue, transcript, seen>>
    PROVE  Seen'
BY DEF Copies, Seen, Arrived, InQueue, InTranscript, Mutation, journal

LEMMA Stepped ==
    ASSUME Types, NEW x \in Executors, NEW v, exec' = [exec EXCEPT ![x] = v]
    PROVE  ExecStep(x, v)
BY DEF Types, ExecTypes, ExecStep

(* A step of a call that writes nothing.                                   *)
Local(x) ==
    /\ UNCHANGED <<journal, wire, codex, seen>>
    /\ \E v : ExecStep(x, v) /\ (v = Idle \/ (Stands(v) /\ Milder(x, v)))

LEMMA StandingStep ==
    ASSUME Standing, NEW x \in Executors, NEW v, ExecStep(x, v), v = Idle \/ Stands(v)
    PROVE  Standing'
BY DEF Standing, ExecStep, At, Idle

LEMMA LocalCopies ==
    ASSUME Types, Copies, NEW x \in Executors, Local(x)
    PROVE  Copies'
<1>1. PICK v : ExecStep(x, v) /\ (v = Idle \/ (Stands(v) /\ Milder(x, v)))
  BY DEF Local
<1>2. UNCHANGED <<journal, wire, codex, seen>>
  BY DEF Local
<1>3. Standing'
  BY <1>1, StandingStep DEF Copies
<1>4. ASSUME NEW e \in Operations
      PROVE  /\ InFlight(e)' = InFlight(e) /\ InQueue(e)' = InQueue(e)
             /\ InTranscript(e)' = InTranscript(e)
  BY <1>2 DEF InFlight, InQueue, InTranscript, codex
<1>5. ASSUME NEW q \in Operations, Proper(q)'
      PROVE  Right(q)'
  <2>1. Proper(q) /\ ops' = ops
    BY <1>2, <1>5 DEF Proper, journal
  <2>2. SameCalls(q)
    BY <1>1 DEF SameCalls, ExecStep, Idle
  <2>3. SameWire(q)
    BY <1>2 DEF SameWire
  <2>4. PICK e \in Operations : EntryFor(q) = e
    BY <2>1, RowFields DEF Types
  <2>5. Clear(e) => Clear(e)'
    BY <1>4 DEF Clear
  <2>. QED
    BY <1>2, <2>1, <2>2, <2>3, <2>4, <2>5, JournalStays
<1>6. \A e \in Operations : Whole(e)'
  <2>1. RowsKept /\ entries' = entries
    BY <1>2 DEF RowsKept, Proper, journal
  <2>. QED
    BY <1>4, <2>1, EntryStays
<1>7. Seen'
  BY <1>2, SeenStays DEF codex
<1>. QED
  BY <1>3, <1>5, <1>6, <1>7 DEF Copies

(* Throwing: what was prepared is not on its way, or the end is unknown.   *)
LEMMA ThrownMilder ==
    ASSUME Types, NEW x \in Executors, ~At(x, "idle"), NEW ends \in {"failed", "uncertain"},
           ends = "uncertain" => exec[x].prepared,
           ends = "failed" /\ exec[x].prepared => Holding(exec[x])
    PROVE  Stands(Thrown(exec[x], ends)) /\ Milder(x, Thrown(exec[x], ends))
<1>1. exec[x] \in Workers
  BY AtWork DEF Types
<1>. DEFINE v == Thrown(exec[x], ends)
<1>2. v.pc = "caught" /\ v.ends = ends /\ v.op = Op(x) /\ v.prepared = exec[x].prepared
  BY <1>1, ThrownFields DEF Op
<1>. HIDE DEF v
<1>3. Stands(v)
  BY <1>2 DEF Stands, Before, After
<1>4. Milder(x, v)
  BY <1>2 DEF Milder, Prepared, On, Holds, Holding, Unwritten, Informing
<1>. QED
  BY <1>3, <1>4 DEF v

LEMMA ThrowLocal ==
    ASSUME Types, NEW x \in Executors, ~At(x, "idle"), NEW ends \in {"failed", "uncertain"},
           ends = "uncertain" => exec[x].prepared,
           ends = "failed" /\ exec[x].prepared => Holding(exec[x]),
           Throw(x, ends), UNCHANGED <<journal, wire, codex, seen>>
    PROVE  Local(x)
<1>1. exec' = [exec EXCEPT ![x] = Thrown(exec[x], ends)]
  BY DEF Throw, Thrown
<1>. QED
  BY <1>1, Stepped, ThrownMilder DEF Local

LEMMA StopLocal ==
    ASSUME Types, NEW x \in Executors, Stop(x), UNCHANGED <<journal, wire, codex, seen>>
    PROVE  Local(x)
BY Stepped DEF Stop, Local

(* Going on to another stage.                                              *)
Onward(from, to) ==
    \/ from \in Before /\ to \in {"refusing", "fenced"}
    \/ from = "prepared" /\ to = "deferring"
    \/ from \in {"caught", "deferred"} /\ to = "checked"
    \/ from = "checked" /\ to = "ending"

LEMMA MoveLocal ==
    ASSUME Types, Standing, NEW x \in Executors, ~At(x, "idle"), NEW pc \in Stages,
           Onward(exec[x].pc, pc), Move(x, pc), UNCHANGED <<journal, wire, codex, seen>>
    PROVE  Local(x)
<1>1. exec[x] \in Workers
  BY AtWork DEF Types
<1>. DEFINE v == Moved(exec[x], pc)
<1>2. /\ v.pc = pc /\ v.ends = exec[x].ends /\ v.op = Op(x)
      /\ v.prepared = exec[x].prepared /\ v.withdrawn = exec[x].withdrawn
  BY <1>1, MovedFields DEF Op
<1>3. exec' = [exec EXCEPT ![x] = v]
  BY DEF Move, Moved
<1>4. Stands(exec[x])
  BY DEF Standing
<1>. HIDE DEF v
<1>5. Stands(v)
  BY <1>2, <1>4 DEF Stands, Before, After, Onward
<1>6. Holding(v) => Holding(exec[x])
  BY <1>2, <1>4 DEF Stands, Before, After, Onward, Holding, Unwritten
<1>7. Milder(x, v)
  BY <1>2, <1>4, <1>6 DEF Milder, Prepared, On, Holds, Unwritten, Informing, Onward, Before, Stands
<1>. QED
  BY <1>3, <1>5, <1>7, Stepped DEF Local

-----------------------------------------------------------------------------
(* The steps of a call that write nothing                                  *)

LEMMA PickLocal ==
    ASSUME Types, NEW x \in Executors, NEW op \in Operations, Pick(x, op)
    PROVE  Local(x)
<1>. DEFINE v == Working(op)
<1>1. v.pc = "known" /\ v.prepared = FALSE /\ v.ends = "failed"
  BY DEF Working
<1>2. exec' = [exec EXCEPT ![x] = v] /\ UNCHANGED <<journal, wire, codex, seen>>
  BY DEF Pick
<1>. HIDE DEF v
<1>3. Stands(v) /\ Milder(x, v)
  BY <1>1 DEF Stands, Milder, Before, After, Holding, Unwritten, Informing
<1>. QED
  BY <1>2, <1>3, Stepped DEF Local

LEMMA ReadEntryLocal ==
    ASSUME Types, Standing, NEW x \in Executors, ReadEntry(x)
    PROVE  Local(x)
<1>1. At(x, "known") /\ UNCHANGED <<journal, wire, codex, seen>>
  BY DEF ReadEntry
<1>2. exec[x] \in Workers /\ ~At(x, "idle") /\ exec[x].pc = "known"
  BY <1>1, AtStage DEF Types, Stages
<1>3. ~exec[x].prepared /\ exec[x].ends # "uncertain"
  BY <1>2 DEF Standing, Stands, Before
<1>. DEFINE entry == entries[EntryOf(x)]
            v == [exec[x] EXCEPT !.pc = IF host = 0 THEN "refusing" ELSE "read",
                    !.sub = entry.submission,
                    !.withdrawn = entry.state = "withdrawn",
                    !.revision = entry.revision,
                    !.host = host]
<1>4. CASE exec' = [exec EXCEPT ![x] = v]
  <2>1. /\ v.pc \in {"refusing", "read"} /\ v.op = Op(x) /\ v.prepared = exec[x].prepared
        /\ v.ends = exec[x].ends
        /\ v.withdrawn = (entries[EntryOf(x)].state = "withdrawn")
    BY <1>2 DEF Workers, Op
  <2>. HIDE DEF v
  <2>2. v.withdrawn <=> Withdrawn(EntryFor(v.op))
    BY <2>1 DEF Withdrawn, EntryFor, EntryOf
  <2>3. Stands(v) /\ Milder(x, v)
    BY <1>3, <2>1, <2>2 DEF Stands, Milder, Before, After, Holding, Unwritten
  <2>. QED
    BY <1>1, <1>4, <2>3, Stepped DEF Local
<1>5. CASE Stop(x)
  BY <1>1, <1>5, StopLocal
<1>. QED
  BY <1>4, <1>5 DEF ReadEntry

LEMMA HealthAllowsLocal ==
    ASSUME Types, Standing, NEW x \in Executors, HealthAllows(x)
    PROVE  Local(x)
<1>1. At(x, "read") /\ UNCHANGED <<journal, wire, codex, seen>>
  BY DEF HealthAllows
<1>2. exec[x] \in Workers /\ ~At(x, "idle") /\ exec[x].pc = "read"
  BY <1>1, AtStage DEF Types, Stages
<1>3. ~exec[x].prepared /\ exec[x].ends # "uncertain"
  BY <1>2 DEF Standing, Stands, Before
<1>. DEFINE v == Readied(exec[x], active = None)
<1>4. /\ v.pc = "ready" /\ v.op = Op(x) /\ v.prepared = exec[x].prepared
      /\ v.ends = exec[x].ends /\ v.withdrawn = exec[x].withdrawn
  BY <1>2, ReadiedFields DEF Op
<1>5. exec' = [exec EXCEPT ![x] = v]
  BY DEF HealthAllows, Readied
<1>. HIDE DEF v
<1>6. Stands(v) /\ Milder(x, v)
  BY <1>2, <1>3, <1>4 DEF Stands, Milder, Before, After, Holding, Unwritten, On, Informing
<1>. QED
  BY <1>1, <1>5, <1>6, Stepped DEF Local

LEMMA MovesLocal ==
    ASSUME Types, Standing, NEW x \in Executors,
           \/ Terminate(x) \/ HealthRefuses(x) \/ HealthWaits(x)
           \/ FenceUnreadable(x) \/ FenceSettled(x)
           \/ Unauthorized(x) \/ Postpone(x) \/ LoseReply(x) \/ ReceiveRefusal(x)
           \/ CatchStatus(x) \/ CatchDeferred(x) \/ CatchEntry(x) \/ Crash(x)
    PROVE  Local(x)
<1>1. UNCHANGED <<journal, wire, codex, seen>>
  BY DEF Terminate, HealthRefuses, HealthWaits, FenceUnreadable, FenceSettled, Unauthorized,
         Postpone, LoseReply, ReceiveRefusal, CatchStatus, CatchDeferred, CatchEntry, Crash
<1>2. ~At(x, "idle") /\ Stands(exec[x])
  BY DEF Terminate, HealthRefuses, HealthWaits, FenceUnreadable, FenceSettled, Unauthorized,
         Postpone, LoseReply, ReceiveRefusal, CatchStatus, CatchDeferred, CatchEntry, Crash, At, Standing
<1>3. CASE Stop(x)
  BY <1>1, <1>3, StopLocal
<1>4. CASE HealthRefuses(x) \/ Unauthorized(x) \/ ReceiveRefusal(x)
  <2>1. Throw(x, "failed")
    BY <1>4 DEF HealthRefuses, Unauthorized, ReceiveRefusal
  <2>2. exec[x].prepared => Holding(exec[x])
    BY <1>2, <1>4 DEF HealthRefuses, Unauthorized, ReceiveRefusal, At, Stands, Before, Holding,
                      Unwritten, IsRefusal
  <2>. QED
    BY <1>1, <1>2, <2>1, <2>2, ThrowLocal
<1>5. CASE LoseReply(x)
  <2>1. Throw(x, "uncertain") /\ exec[x].prepared
    BY <1>2, <1>5 DEF LoseReply, At, Stands, After
  <2>. QED
    BY <1>1, <1>2, <2>1, ThrowLocal
<1>6. CASE ~Stop(x) /\ (Terminate(x) \/ FenceSettled(x) \/ Postpone(x) \/ CatchStatus(x)
                        \/ CatchDeferred(x) \/ CatchEntry(x))
  <2>1. \E pc \in Stages : Onward(exec[x].pc, pc) /\ Move(x, pc)
    BY <1>6 DEF Terminate, FenceSettled, Postpone, CatchStatus, CatchDeferred, CatchEntry, At, Onward, Before,
                Stages
  <2>. QED
    BY <1>1, <1>2, <2>1, MoveLocal
<1>. QED
  BY <1>3, <1>4, <1>5, <1>6 DEF HealthWaits, FenceUnreadable, Crash

-----------------------------------------------------------------------------
(* The steps of a call on the journal                                      *)

(* Any other operation does not see a call on p change.                    *)
LEMMA OthersCalls ==
    ASSUME NEW p, NEW x \in Executors, Op(x) = p, NEW v, ExecStep(x, v),
           v = Idle \/ v.op = p
    PROVE  \A q \in Operations \ {p} : SameCalls(q)
BY DEF SameCalls, ExecStep, Idle, Op

(* What a caller knows of the operation it works on.                       *)
LEMMA Caller ==
    ASSUME Types, Copies, NEW x \in Executors, ~At(x, "idle"), NEW p, p = Op(x)
    PROVE  /\ p \in Operations /\ Proper(p) /\ On(x, p) /\ Right(p) /\ EntryFor(p) \in Operations
           /\ exec[x] \in Workers /\ Stands(exec[x]) /\ Standing
BY AtWork, RowFields DEF Types, Copies, On, Standing

LEMMA RefuseCopies ==
    ASSUME Types, Ledger, Copies, NEW x \in Executors, ~At(x, "idle"),
           NEW p, p = Op(x), J!Refuse(p), Stop(x), UNCHANGED <<wire, codex, seen>>,
           Waiting(p) \/ Holds(x)
    PROVE  Copies'
<1>1. /\ p \in Operations /\ Proper(p) /\ On(x, p) /\ Right(p) /\ EntryFor(p) \in Operations
      /\ exec[x] \in Workers /\ Standing
  BY Caller
<1>2. PICK e \in Operations : EntryFor(p) = e
  BY <1>1
<1>3. /\ Mutation(e) = p
      /\ RowStep(p, "failed")
      /\ EntryStep(e, RefusedState(p), None, entries[e].submission)
  BY <1>1, <1>2, RefuseEffect DEF Types
<1>4. Journaled /\ RowsKept
  BY <1>1, RefuseJournaled DEF Types, Journaled
<1>5. ExecStep(x, Idle)
  BY Stepped DEF Stop
<1>6. Open(p) /\ J!Exists(e)
  BY <1>1, <1>2, RowFields DEF Open, Types
<1>7. Right(p)'
  <2>1. Prepared(x, p) \/ Waiting(p)
    BY <1>1 DEF Holds, Holding, Prepared
  <2>2. ~Waiting(p)'
    BY <1>3 DEF RowStep, Waiting
  <2>3. entries'[e].mutation # e /\ entries'[e].mutation # p
    BY <1>1, <1>3, Constants DEF EntryStep
  <2>4. SameWire(p)
    BY DEF SameWire
  <2>. QED
    BY <1>1, <1>2, <1>4, <1>5, <2>1, <2>2, <2>3, <2>4, Resolved
<1>8. Standing'
  BY <1>1, <1>5, StandingStep
<1>9. Owed(e, RefusedState(p), None)
  <2>1. Carrier(p) /\ Payload(p) => Clear(e)
    BY <1>1, <1>2, <1>6 DEF Right, Opened
  <2>2. Owed(e, entries[e].state, p)
    BY <1>3, <1>6, WholeOwes
  <2>3. p # None
    BY <1>1, Constants
  <2>4. ops[p].action = "add" => Clear(e)
    BY <2>1 DEF Carrier, Payload
  <2>5. Withdrawn(e) => Clear(e)
    BY <1>2, <2>1, <2>2, <2>3 DEF Withdrawn, Payload, Owed
  <2>. QED
    BY <1>2, <2>2, <2>4, <2>5 DEF Owed, RefusedState, Spared, Withdrawn
<1>10. \A q \in Operations \ {p} : SameCalls(q)
  BY <1>5, OthersCalls
<1>. QED
  BY <1>1, <1>2, <1>3, <1>4, <1>6, <1>7, <1>8, <1>9, <1>10, JournalRest DEF RowStep

LEMMA PrepareCopies ==
    ASSUME Types, Ledger, Copies, NEW x \in Executors, At(x, "ready"),
           NEW p, p = Op(x), J!Prepare(p, exec[x].revision, Thread),
           exec' = [exec EXCEPT ![x] = Swapped(exec[x])] \/ Throw(x, "failed"),
           UNCHANGED <<wire, codex, seen>>
    PROVE  Copies'
<1>1. ~At(x, "idle") /\ exec[x].pc = "ready" /\ exec[x].revision \in 1..MaxRevision
  BY AtStage DEF Types, Stages
<1>2. /\ p \in Operations /\ Proper(p) /\ On(x, p) /\ Right(p) /\ EntryFor(p) \in Operations
      /\ exec[x] \in Workers /\ Stands(exec[x]) /\ Standing
  BY <1>1, Caller
<1>3. PICK e \in Operations : EntryFor(p) = e
  BY <1>2
<1>4. /\ Waiting(p) /\ Mutation(e) = p
      /\ RowStep(p, "delivering")
      /\ EntryStep(e, entries[e].state, p, entries[e].submission)
  BY <1>2, <1>3, PrepareEffect DEF Types, Waiting
<1>5. Journaled /\ RowsKept
  BY <1>1, <1>2, PrepareJournaled DEF Types, Journaled
<1>6. ~exec[x].prepared /\ exec[x].ends # "uncertain"
  BY <1>1, <1>2 DEF Stands, Before
<1>7. PICK v : /\ ExecStep(x, v) /\ v.op = p /\ v.withdrawn = exec[x].withdrawn
               /\ \/ v.pc = "prepared" /\ v.prepared
                  \/ v.pc = "caught" /\ ~v.prepared
               /\ v.ends # "uncertain"
  <2>1. CASE exec' = [exec EXCEPT ![x] = Swapped(exec[x])]
    <3>. DEFINE w == Swapped(exec[x])
    <3>1. /\ w.op = p /\ w.withdrawn = exec[x].withdrawn /\ w.pc = "prepared" /\ w.prepared
          /\ w.ends # "uncertain"
      BY <1>2, <1>6, SwappedFields DEF Op
    <3>. HIDE DEF w
    <3>2. ExecStep(x, w)
      BY <2>1, Stepped DEF w
    <3>. QED
      BY <3>1, <3>2
  <2>2. CASE Throw(x, "failed")
    <3>. DEFINE w == Thrown(exec[x], "failed")
    <3>1. /\ w.op = p /\ w.withdrawn = exec[x].withdrawn /\ w.pc = "caught" /\ ~w.prepared
          /\ w.ends # "uncertain"
      BY <1>2, <1>6, ThrownFields DEF Op
    <3>2. exec' = [exec EXCEPT ![x] = w]
      BY <2>2 DEF Throw, Thrown
    <3>. HIDE DEF w
    <3>. QED
      BY <3>1, <3>2, Stepped
  <2>. QED
    BY <2>1, <2>2
<1>8. Open(p) /\ Pending(p) /\ J!Exists(e)
  BY <1>2, <1>3, <1>4, RowFields DEF Open, Pending, Types
<1>9. Right(p)'
  <2>1. Withdrawn(e)' <=> Withdrawn(e)
    BY <1>4 DEF EntryStep, Withdrawn
  <2>2. IsRow(ops'[p]) /\ ops'[p].action = ops[p].action /\ ops'[p].entry = e
        /\ ops'[p].status = "delivering"
    BY <1>2, <1>3, <1>4 DEF RowStep, EntryFor, Proper
  <2>3. Clear(e)' <=> Clear(e)
    BY DEF Clear, InFlight, InQueue, InTranscript, codex
  <2>4. Carrier(p) => Unsent(p)' /\ (Payload(p)' => Clear(e)')
    BY <1>2, <1>3, <1>8, <2>1, <2>2, <2>3 DEF Right, Opened, Payload, Unsent, EntryFor
  <2>5. ASSUME NEW y \in Executors, On(y, p)'
        PROVE  /\ exec'[y].prepared => y = x
               /\ exec'[y].pc \notin {"sent", "steering"}
               /\ Carrier(p) /\ exec'[y].pc \in Informing
                     => (exec'[y].withdrawn <=> Withdrawn(e))
    <3>1. CASE y = x
      <4>1. exec'[y] = v
        BY <1>7, <3>1 DEF ExecStep
      <4>2. Carrier(p) => (exec[x].withdrawn <=> Withdrawn(e))
        BY <1>1, <1>2, <1>3, <1>8 DEF Right, Fresh, Informing
      <4>. QED
        BY <1>7, <3>1, <4>1, <4>2
    <3>2. CASE y # x
      <4>1. exec'[y] = exec[y] /\ On(y, p)
        BY <1>7, <2>5, <3>2 DEF ExecStep, On, At, Op
      <4>2. ~exec[y].prepared
        BY <1>2, <1>4, <4>1 DEF Right, Owned, Prepared
      <4>3. Stands(exec[y])
        BY <1>2, <4>1 DEF Standing, On
      <4>. QED
        BY <1>2, <1>3, <1>8, <4>1, <4>2, <4>3 DEF Stands, After, Right, Fresh
    <3>. QED
      BY <3>1, <3>2
  <2>6. Carrier(p) => Fresh(p)'
    <3>1. Carrier(p) => (Withdrawn(e) => ops[p].action = "start")
      BY <1>2, <1>3, <1>8 DEF Right, Fresh
    <3>. QED
      BY <2>1, <2>2, <2>5, <3>1 DEF Fresh, EntryFor
  <2>7. entries'[e].mutation = p
    BY <1>4 DEF EntryStep
  <2>. QED
    BY <1>2, <1>3, <1>5, <2>2, <2>4, <2>5, <2>6, <2>7, Reopened
<1>10. Standing'
  <2>1. Stands(v)
    BY <1>7 DEF Stands, Before, After
  <2>. QED
    BY <1>2, <1>7, <2>1, StandingStep
<1>11. Owed(e, entries[e].state, p)
  BY <1>4, <1>8, WholeOwes
<1>12. \A q \in Operations \ {p} : SameCalls(q)
  BY <1>7, OthersCalls
<1>13. UNCHANGED <<wire, codex>> /\ seen' \subseteq seen
  OBVIOUS
<1>14. \A q \in Operations \ {p} : ops'[q] = ops[q]
  BY <1>4 DEF RowStep
<1>. QED
  BY <1>2, <1>3, <1>4, <1>5, <1>8, <1>9, <1>10, <1>11, <1>12, <1>13, <1>14, JournalRest

LEMMA DeferCopies ==
    ASSUME Types, Ledger, Copies, NEW x \in Executors, At(x, "deferring"),
           NEW p, p = Op(x), J!Defer(p), UNCHANGED <<wire, codex, seen>>,
           NEW v, v = Idle \/ v = Unprepared(exec[x]), exec' = [exec EXCEPT ![x] = v]
    PROVE  Copies'
<1>1. ~At(x, "idle") /\ exec[x].pc = "deferring"
  BY AtStage DEF Types, Stages
<1>2. /\ p \in Operations /\ Proper(p) /\ On(x, p) /\ Right(p) /\ EntryFor(p) \in Operations
      /\ exec[x] \in Workers /\ Stands(exec[x]) /\ Standing
  BY <1>1, Caller
<1>3. PICK e \in Operations : EntryFor(p) = e
  BY <1>2
<1>4. J!Exists(e) /\ Mutation(e) = p /\ RowStep(p, "queued") /\ UNCHANGED entries
  BY <1>2, <1>3, DeferEffect, RowFields DEF Types
<1>5. EntryStep(e, entries[e].state, p, entries[e].submission)
  BY <1>4 DEF EntryStep, Mutation, J!Exists
<1>6. Journaled /\ RowsKept
  BY <1>2, DeferJournaled DEF Types, Journaled
<1>7. ExecStep(x, v)
  BY Stepped
<1>15. v # Idle => v.pc = "deferred" /\ ~v.prepared /\ v.op = p /\ v.ends = "failed"
  BY <1>2, UnpreparedFields DEF Op
<1>8. Open(p) /\ Pending(p) /\ Prepared(x, p)
  BY <1>1, <1>2, PendingOpens DEF Stands, After, Unwritten, Pending, Prepared
<1>9. Right(p)'
  <2>1. Withdrawn(e)' <=> Withdrawn(e)
    BY <1>4 DEF Withdrawn
  <2>2. IsRow(ops'[p]) /\ ops'[p].action = ops[p].action /\ ops'[p].entry = e
        /\ ops'[p].status = "queued"
    BY <1>2, <1>3, <1>4 DEF RowStep, EntryFor, Proper
  <2>3. Clear(e)' <=> Clear(e)
    BY DEF Clear, InFlight, InQueue, InTranscript, codex
  <2>4. Carrier(p) => Unsent(p)' /\ (Payload(p)' => Clear(e)')
    BY <1>2, <1>3, <1>8, <2>1, <2>2, <2>3 DEF Right, Opened, Payload, Unsent, EntryFor
  <2>5. ASSUME NEW y \in Executors, On(y, p)'
        PROVE  /\ ~exec'[y].prepared
               /\ exec'[y].pc \notin {"sent", "steering"}
               /\ Carrier(p) /\ exec'[y].pc \in Informing
                     => (exec'[y].withdrawn <=> Withdrawn(e))
    <3>1. CASE y = x
      <4>1. exec'[y] = v /\ v # Idle
        BY <1>7, <2>5, <3>1 DEF ExecStep, On, At, Idle
      <4>. QED
        BY <1>15, <4>1 DEF Informing, Unwritten
    <3>2. CASE y # x
      <4>1. exec'[y] = exec[y] /\ On(y, p)
        BY <1>7, <2>5, <3>2 DEF ExecStep, On, At, Op
      <4>2. ~exec[y].prepared
        BY <1>2, <1>8, <3>2, <4>1 DEF Right, Owned, Prepared
      <4>3. Stands(exec[y])
        BY <1>2, <4>1 DEF Standing, On
      <4>. QED
        BY <1>2, <1>3, <1>8, <4>1, <4>2, <4>3 DEF Stands, After, Right, Fresh
    <3>. QED
      BY <3>1, <3>2
  <2>6. Carrier(p) => Fresh(p)'
    <3>1. Carrier(p) => (Withdrawn(e) => ops[p].action = "start")
      BY <1>2, <1>3, <1>8 DEF Right, Fresh
    <3>. QED
      BY <2>1, <2>2, <2>5, <3>1 DEF Fresh, EntryFor
  <2>7. entries'[e].mutation = p
    BY <1>5 DEF EntryStep
  <2>. QED
    BY <1>2, <1>3, <1>6, <2>2, <2>4, <2>5, <2>6, <2>7, Reopened
<1>10. Standing'
  <2>1. v = Idle \/ Stands(v)
    BY <1>15 DEF Stands, Before, After
  <2>. QED
    BY <1>2, <1>7, <2>1, StandingStep
<1>11. Owed(e, entries[e].state, p)
  BY <1>4, WholeOwes
<1>12. \A q \in Operations \ {p} : SameCalls(q)
  BY <1>7, <1>15, OthersCalls
<1>13. UNCHANGED <<wire, codex>> /\ seen' \subseteq seen
  OBVIOUS
<1>14. \A q \in Operations \ {p} : ops'[q] = ops[q]
  BY <1>4 DEF RowStep
<1>. QED
  BY <1>2, <1>3, <1>4, <1>5, <1>6, <1>9, <1>10, <1>11, <1>12, <1>13, <1>14, JournalRest

(* A call that prepared its operation ends it, or leaves it settled.       *)
LEMMA EndCopies ==
    ASSUME Types, Ledger, Copies, NEW x \in Executors, ~At(x, "idle"), NEW p, p = Op(x),
           exec[x].prepared, Journaled, RowsKept,
           NEW e \in Operations, EntryFor(p) = e, Mutation(e) = p,
           NEW status, status # "queued" \/ ~Waiting(p)', RowStep(p, status),
           NEW state, NEW mutation \in {p, None}, NEW sub, EntryStep(e, state, mutation, sub),
           Owed(e, state, mutation),
           state = "withdrawn" => mutation = None,
           NEW v, ExecStep(x, v), v = Idle \/ (v.op = p /\ Spent(v) /\ v.prepared),
           UNCHANGED <<wire, codex, seen>>
    PROVE  Copies'
<1>1. /\ p \in Operations /\ Proper(p) /\ On(x, p) /\ Right(p) /\ exec[x] \in Workers
      /\ Stands(exec[x]) /\ Standing /\ J!Exists(e)
  BY Caller, RowFields DEF Types
<1>2. Right(p)'
  <2>1. Prepared(x, p)
    BY <1>1 DEF Prepared
  <2>2. ~Waiting(p)'
    BY DEF RowStep, Waiting
  <2>3. entries'[e].mutation = mutation /\ entries'[e].state = state
    BY DEF EntryStep
  <2>4. ~(Withdrawn(e)' /\ entries'[e].mutation = p)
    BY <1>1, <2>3, Constants DEF Withdrawn
  <2>5. entries'[e].mutation # e \/ ops[p].action = "add"
    <3>1. ops[p].action = "add" <=> e = p
      BY <1>1, RowFields DEF Types
    <3>2. e # None
      BY <1>1, Constants
    <3>. QED
      BY <2>3, <3>1, <3>2
  <2>6. SameWire(p)
    BY DEF SameWire
  <2>. QED
    BY <1>1, <2>1, <2>2, <2>4, <2>5, <2>6, Resolved
<1>3. Standing'
  <2>1. v = Idle \/ Stands(v)
    BY DEF Spent, Stands, Before, After
  <2>. QED
    BY <1>1, <2>1, StandingStep
<1>4. \A q \in Operations \ {p} : SameCalls(q)
  BY OthersCalls
<1>5. UNCHANGED <<wire, codex>> /\ seen' \subseteq seen
  OBVIOUS
<1>6. \A q \in Operations \ {p} : ops'[q] = ops[q]
  BY DEF RowStep
<1>. QED
  BY <1>1, <1>2, <1>3, <1>4, <1>5, <1>6, JournalRest

LEMMA UncertainCopies ==
    ASSUME Types, Ledger, Copies, NEW x \in Executors, ~At(x, "idle"), NEW p, p = Op(x),
           exec[x].prepared, J!MarkUncertain(p), Stop(x), UNCHANGED <<wire, codex, seen>>
    PROVE  Copies'
<1>1. p \in Operations /\ Proper(p) /\ EntryFor(p) \in Operations
  BY Caller
<1>2. PICK e \in Operations : EntryFor(p) = e
  BY <1>1
<1>3. /\ Mutation(e) = p /\ RowStep(p, "uncertain")
      /\ EntryStep(e, Spared(e, "uncertain"), p, entries[e].submission)
      /\ J!Exists(e)
  BY <1>1, <1>2, MarkUncertainEffect, RowFields DEF Types
<1>4. Journaled /\ RowsKept
  BY <1>1, MarkJournaled DEF Types, Journaled
<1>5. ExecStep(x, Idle)
  BY Stepped DEF Stop
<1>6. Owed(e, Spared(e, "uncertain"), p) /\ Spared(e, "uncertain") # "withdrawn"
  BY <1>3, WholeOwes DEF Owed, Spared
<1>7. "uncertain" # "queued"
  OBVIOUS
<1>. QED
  BY <1>1, <1>2, <1>3, <1>4, <1>5, <1>6, <1>7, EndCopies

(* An answer that is acknowledged.                                         *)
LEMMA AcknowledgeCopies ==
    ASSUME Types, Ledger, Copies, NEW x \in Executors, At(x, "sent"), NEW p, p = Op(x),
           exec[x].reply # None, exec[x].reply.kind # "refused",
           Acknowledge(x, exec[x].reply), Acknowledgeable(x, exec[x].reply),
           Stop(x) \/ Move(x, "removing") \/ Throw(x, "uncertain"),
           UNCHANGED <<wire, codex, seen>>
    PROVE  Copies'
<1>1. ~At(x, "idle") /\ exec[x].pc = "sent"
  BY AtStage DEF Types, Stages
<1>2. /\ p \in Operations /\ Proper(p) /\ On(x, p) /\ Right(p) /\ EntryFor(p) \in Operations
      /\ exec[x] \in Workers /\ Stands(exec[x]) /\ Standing
  BY <1>1, Caller
<1>3. PICK e \in Operations : EntryFor(p) = e
  BY <1>2
<1>4. exec[x].prepared
  BY <1>1, <1>2 DEF Stands, After
<1>. DEFINE reply == exec[x].reply
<1>5. /\ reply \in Replies
      /\ reply.kind \in {"queued", "turn", "deleted"}
      /\ reply.kind = "queued" => reply.sub \in Submissions
      /\ reply.kind = "turn" => reply.turn \in Turns
      /\ reply.kind = "deleted" => reply.deleted \in BOOLEAN
  BY <1>2, ReplyTypes DEF Workers
<1>6. J!Exists(e) /\ Owed(e, entries[e].state, Mutation(e))
  BY <1>2, <1>3, WholeOwes, RowFields DEF Types
<1>7. /\ Journaled /\ RowsKept
      /\ Mutation(e) = p /\ RowStep(p, J!AckStatus(p))
      /\ \E state, sub : EntryStep(e, state, None, sub) /\ Owed(e, state, None)
  <2>1. CASE reply.kind = "queued"
    <3>1. J!AcknowledgeQueued(p, reply.sub)
      BY <2>1 DEF Acknowledge
    <3>2. /\ Mutation(e) = p /\ RowStep(p, J!AckStatus(p))
          /\ EntryStep(e, Spared(e, "queued"), None, reply.sub)
      BY <1>2, <1>3, <1>5, <2>1, <3>1, QueuedEffect DEF Types
    <3>3. Journaled /\ RowsKept
      BY <1>2, <1>5, <2>1, <3>1, AcknowledgeJournaled DEF Types, Journaled
    <3>4. Owed(e, Spared(e, "queued"), None)
      BY <1>6 DEF Owed, Spared
    <3>. QED
      BY <3>2, <3>3, <3>4
  <2>2. CASE reply.kind = "turn"
    <3>1. J!AcknowledgeDispatched(p, reply.turn)
      BY <2>2 DEF Acknowledge
    <3>2. /\ Mutation(e) = p /\ RowStep(p, J!AckStatus(p))
          /\ EntryStep(e, Spared(e, "dispatching"), None, entries[e].submission)
      BY <1>2, <1>3, <3>1, DispatchedEffect DEF Types
    <3>3. Journaled /\ RowsKept
      BY <1>2, <1>5, <2>2, <3>1, AcknowledgeJournaled DEF Types, Journaled
    <3>4. Owed(e, Spared(e, "dispatching"), None)
      BY <1>6 DEF Owed, Spared
    <3>. QED
      BY <3>2, <3>3, <3>4
  <2>3. CASE reply.kind = "deleted"
    <3>1. J!AcknowledgeDeleted(p, reply.deleted)
      BY <2>3 DEF Acknowledge
    <3>2. /\ Mutation(e) = p /\ RowStep(p, J!AckStatus(p)) /\ ops[p].action = "delete"
          /\ EntryStep(e, Spared(e, DeletedState(reply.deleted)), None, entries[e].submission)
      BY <1>2, <1>3, <1>5, <2>3, <3>1, DeletedEffect DEF Types
    <3>3. Journaled /\ RowsKept
      BY <1>2, <1>5, <2>3, <3>1, AcknowledgeJournaled DEF Types, Journaled
    <3>4. reply.deleted => Clear(e)
      BY <1>2, <1>3, <2>3, <3>2 DEF Right, Asked, Carrier, IsWithdrawal
    <3>5. Owed(e, Spared(e, DeletedState(reply.deleted)), None)
      BY <1>6, <3>4 DEF Owed, Spared, DeletedState
    <3>. QED
      BY <3>2, <3>3, <3>5
  <2>. QED
    BY <1>5, <2>1, <2>2, <2>3
<1>8. PICK state, sub : EntryStep(e, state, None, sub) /\ Owed(e, state, None)
  BY <1>7
<1>9. ~Waiting(p)'
  <2>1. ops'[p].entry = e /\ entries'[e].mutation = None
    BY <1>3, <1>7, <1>8 DEF RowStep, EntryStep, EntryFor
  <2>. QED
    BY <1>2, <2>1, Constants DEF Waiting, EntryFor, Mutation
<1>10. PICK v : ExecStep(x, v) /\ (v = Idle \/ (v.op = p /\ Spent(v) /\ v.prepared))
  <2>1. CASE Stop(x)
    BY <2>1, Stepped DEF Stop
  <2>2. CASE Move(x, "removing")
    <3>. DEFINE w == Moved(exec[x], "removing")
    <3>1. w.op = p /\ w.pc = "removing" /\ w.prepared
      BY <1>2, <1>4, MovedFields DEF Op, Stages
    <3>2. exec' = [exec EXCEPT ![x] = w]
      BY <2>2 DEF Move, Moved
    <3>. HIDE DEF w
    <3>. QED
      BY <3>1, <3>2, Stepped DEF Spent
  <2>3. CASE Throw(x, "uncertain")
    <3>. DEFINE w == Thrown(exec[x], "uncertain")
    <3>1. w.op = p /\ w.pc = "caught" /\ w.ends = "uncertain" /\ w.prepared
      BY <1>2, <1>4, ThrownFields DEF Op
    <3>2. exec' = [exec EXCEPT ![x] = w]
      BY <2>3 DEF Throw, Thrown
    <3>. HIDE DEF w
    <3>. QED
      BY <3>1, <3>2, Stepped DEF Spent
  <2>. QED
    BY <2>1, <2>2, <2>3
<1>. HIDE DEF reply
<1>. QED
  BY <1>1, <1>3, <1>4, <1>7, <1>8, <1>9, <1>10, EndCopies

(* A withdrawal that is recorded, before its payload is steered.           *)
LEMMA WithdrawnCopies ==
    ASSUME Types, Ledger, Copies, NEW x \in Executors, At(x, "sent"), NEW p, p = Op(x),
           IsWithdrawal(exec[x].reply), J!MarkWithdrawn(p),
           Move(x, "steering") \/ Throw(x, "uncertain"),
           UNCHANGED <<wire, codex, seen>>
    PROVE  Copies'
<1>1. ~At(x, "idle") /\ exec[x].pc = "sent"
  BY AtStage DEF Types, Stages
<1>2. /\ p \in Operations /\ Proper(p) /\ On(x, p) /\ Right(p) /\ EntryFor(p) \in Operations
      /\ exec[x] \in Workers /\ Stands(exec[x]) /\ Standing
  BY <1>1, Caller
<1>3. PICK e \in Operations : EntryFor(p) = e
  BY <1>2
<1>4. Prepared(x, p) /\ exec[x].prepared
  BY <1>1, <1>2 DEF Stands, After, Prepared
<1>5. /\ ops[p].action = "send-now" /\ Mutation(e) = p /\ J!Exists(e)
      /\ RowStep(p, "delivering")
      /\ EntryStep(e, Spared(e, "withdrawn"), p, entries[e].submission)
  BY <1>2, <1>3, MarkWithdrawnEffect, RowFields DEF Types
<1>6. Journaled /\ RowsKept
  BY <1>2, MarkJournaled DEF Types, Journaled
<1>7. Carrier(p) /\ Clear(e) /\ Unsent(p)
  BY <1>2, <1>3, <1>5 DEF Carrier, Right, Asked, IsWithdrawal
<1>8. Spared(e, "withdrawn") = "withdrawn"
  <2>1. InTranscript(e) = {}
    BY <1>7 DEF Clear
  <2>. QED
    BY <1>5, <2>1, WholeOwes DEF Owed, Spared
<1>9. PICK v : /\ ExecStep(x, v) /\ v.op = p
               /\ \/ v.pc = "steering" /\ v.prepared /\ v.ends = exec[x].ends
                  \/ v.pc = "caught" /\ v.prepared
  <2>1. CASE Move(x, "steering")
    <3>. DEFINE w == Moved(exec[x], "steering")
    <3>1. w.op = p /\ w.pc = "steering" /\ w.prepared /\ w.ends = exec[x].ends
      BY <1>2, <1>4, MovedFields DEF Op, Stages
    <3>2. exec' = [exec EXCEPT ![x] = w]
      BY <2>1 DEF Move, Moved
    <3>. HIDE DEF w
    <3>. QED
      BY <3>1, <3>2, Stepped
  <2>2. CASE Throw(x, "uncertain")
    <3>. DEFINE w == Thrown(exec[x], "uncertain")
    <3>1. w.op = p /\ w.pc = "caught" /\ w.prepared
      BY <1>2, <1>4, ThrownFields DEF Op
    <3>2. exec' = [exec EXCEPT ![x] = w]
      BY <2>2 DEF Throw, Thrown
    <3>. HIDE DEF w
    <3>. QED
      BY <3>1, <3>2, Stepped
  <2>. QED
    BY <2>1, <2>2
<1>10. Right(p)'
  <2>1. Withdrawn(e)' /\ entries'[e].mutation = p
    BY <1>5, <1>8 DEF EntryStep, Withdrawn
  <2>2. ops'[p].action = "send-now" /\ ops'[p].entry = e /\ ops'[p].status = "delivering"
    BY <1>3, <1>5 DEF RowStep, EntryFor
  <2>3. Clear(e)' /\ Unsent(p)'
    BY <1>7 DEF Clear, InFlight, InQueue, InTranscript, codex, Unsent
  <2>4. ASSUME NEW y \in Executors, On(y, p)'
        PROVE  /\ exec'[y].prepared => y = x
               /\ exec'[y].pc # "sent"
               /\ exec'[y].pc \notin Unwritten
    <3>1. CASE y = x
      BY <1>9, <3>1 DEF ExecStep, Unwritten
    <3>2. CASE y # x
      <4>1. exec'[y] = exec[y] /\ On(y, p)
        BY <1>9, <2>4, <3>2 DEF ExecStep, On, At, Op
      <4>2. ~exec[y].prepared
        BY <1>2, <1>4, <3>2, <4>1 DEF Right, Owned, Prepared
      <4>3. Stands(exec[y])
        BY <1>2, <4>1 DEF Standing, On
      <4>. QED
        BY <4>1, <4>2, <4>3 DEF Stands, After, Unwritten
    <3>. QED
      BY <3>1, <3>2
  <2>5. Fresh(p)'
    BY <2>2, <2>4 DEF Fresh, Pending, Waiting
  <2>. QED
    BY <1>2, <1>3, <1>5, <1>6, <2>1, <2>2, <2>3, <2>4, <2>5, Reopened
<1>11. Standing'
  <2>1. Stands(v)
    BY <1>4, <1>9 DEF Stands, Before, After
  <2>. QED
    BY <1>2, <1>9, <2>1, StandingStep
<1>12. Owed(e, Spared(e, "withdrawn"), p)
  BY <1>2, <1>7, <1>8, Constants DEF Owed
<1>13. \A q \in Operations \ {p} : SameCalls(q)
  BY <1>9, OthersCalls
<1>14. UNCHANGED <<wire, codex>> /\ seen' \subseteq seen
  OBVIOUS
<1>15. \A q \in Operations \ {p} : ops'[q] = ops[q]
  BY <1>5 DEF RowStep
<1>. QED
  BY <1>2, <1>3, <1>5, <1>6, <1>10, <1>11, <1>12, <1>13, <1>14, <1>15, JournalRest

(* A refusal of an operation the caller did not prepare, and no rival did. *)
LEMMA RefuseWaiting ==
    ASSUME Types, Copies, NEW x \in Executors, ~At(x, "idle"), NEW p, p = Op(x),
           J!Refuse(p), Stop(x), ~exec[x].prepared, ~RivalRefusal
    PROVE  Waiting(p)
<1>1. p \in Operations /\ Proper(p)
  BY Caller
<1>2. /\ Mutation(EntryFor(p)) = p /\ ops[p].status \in {"queued", "delivering"}
      /\ RowStep(p, "failed")
  BY <1>1, RefuseEffect DEF Types
<1>3. exec'[x] = Idle
  BY Stepped DEF Stop, ExecStep
<1>4. ops[p].status # "delivering"
  BY <1>2, <1>3 DEF RivalRefusal, RowStep
<1>. QED
  BY <1>1, <1>2, <1>4 DEF Waiting

(* The discarded add of a removed entry has no copy, and nobody's write.   *)
LEMMA RemoveCopies ==
    ASSUME Types, Ledger, Copies, NEW e \in Operations, J!Remove(e),
           UNCHANGED exec \/ \E x \in Executors : Stop(x),
           UNCHANGED <<wire, codex, seen>>
    PROVE  Copies'
<1>1. /\ J!Exists(e) /\ Mutation(e) = None /\ RowStep(e, "failed") /\ EntryFor(e) = e
      /\ entries' = entries
  BY RemoveEffect DEF Types
<1>2. Journaled /\ RowsKept
  BY RemoveJournaled DEF Types, Journaled
<1>3. ASSUME NEW f \in Operations
      PROVE  /\ InFlight(f)' = InFlight(f) /\ InQueue(f)' = InQueue(f)
             /\ InTranscript(f)' = InTranscript(f)
             /\ Clear(f)' <=> Clear(f)
             /\ Arrived(f)' <=> Arrived(f)
  BY DEF InFlight, InQueue, InTranscript, codex, Clear, Arrived
<1>4. /\ \A y \in Executors : exec'[y] = exec[y] \/ exec'[y] = Idle
  BY Stepped DEF Stop, ExecStep
<1>5. Standing'
  BY <1>4 DEF Copies, Standing, At, Idle
<1>6. ASSUME NEW q \in Operations, Proper(q)'
      PROVE  Right(q)'
  <2>1. Proper(q)
    BY <1>1, <1>6 DEF RowStep, Proper
  <2>2. PICK f \in Operations : EntryFor(q) = f
    BY <2>1, RowFields DEF Types
  <2>3. SameCalls(q) /\ SameWire(q)
    BY <1>4 DEF SameCalls, SameWire, Idle
  <2>4. Mutation(f) = q => ops'[q] = ops[q]
    <3>1. q # None
      BY Constants
    <3>. QED
      BY <1>1, <2>2, <3>1 DEF RowStep
  <2>5. /\ entries'[f].mutation = Mutation(f)
        /\ Clear(f)' <=> Clear(f)
        /\ Withdrawn(f)' <=> Withdrawn(f)
    BY <1>1, <1>3 DEF Mutation, Withdrawn
  <2>6. Standing /\ Right(q)
    BY <2>1 DEF Copies
  <2>7. Mutation(f) = q =>
           /\ ops'[q] = ops[q] /\ entries'[f].mutation = q
           /\ Clear(f) => Clear(f)'
           /\ Withdrawn(f)' => Withdrawn(f)
           /\ Withdrawn(f) /\ Clear(f) => Withdrawn(f)'
    BY <2>4, <2>5
  <2>8. Mutation(f) # q =>
           entries'[f].mutation # q /\ (entries'[f].mutation = f => Mutation(f) = f)
    BY <2>5
  <2>. QED
    BY <1>2, <2>1, <2>2, <2>3, <2>6, <2>7, <2>8, Undisturbed
<1>7. \A f \in Operations : Whole(f)'
  BY <1>1, <1>2, <1>3, EntryStays
<1>8. Seen'
  <2>. SUFFICES ASSUME NEW o \in seen, ops'[o.op].action = "add", entries'[o.op].mutation = o.op
                PROVE  Arrived(o.op)'
    BY DEF Seen, Mutation
  <2>1. o.op \in Operations /\ Proper(o.op)
    BY DEF Types, SeenTypes, Sightings, Ledger, Sighted
  <2>2. ops[o.op].action = "add" /\ Mutation(o.op) = o.op
    BY <1>1, <1>2, <2>1 DEF RowsKept, Mutation
  <2>. QED
    BY <1>3, <2>1, <2>2 DEF Copies, Seen
<1>. QED
  BY <1>5, <1>6, <1>7, <1>8 DEF Copies

-----------------------------------------------------------------------------
(* The write                                                               *)

LEMMA SendCopies ==
    ASSUME Types, Ledger, Copies, NEW x \in Executors, NEW method \in Methods,
           At(x, "prepared") \/ At(x, "steering"), NEW p, p = Op(x),
           Send(x, method), UNCHANGED <<journal, codex, seen>>,
           Carrier(p) /\ Payload(p) <=> method \in Payloads,
           method = "queue/delete" => ops[p].action \in {"delete", "send-now"}
    PROVE  Copies'
<1>1. ~At(x, "idle") /\ exec[x].pc \in {"prepared", "steering"}
  BY AtStage DEF Types, Stages
<1>2. /\ p \in Operations /\ Proper(p) /\ On(x, p) /\ Right(p) /\ EntryFor(p) \in Operations
      /\ exec[x] \in Workers /\ Stands(exec[x]) /\ Standing
  BY <1>1, Caller
<1>3. PICK e \in Operations : EntryFor(p) = e
  BY <1>2
<1>4. Prepared(x, p) /\ Open(p) /\ ~Waiting(p)
  BY <1>1, <1>2 DEF Stands, After, Prepared, Open, Holds, Holding, Unwritten, Right, Owned
<1>5. PICK v : /\ ExecStep(x, v) /\ v.op = p /\ v.pc = "sent" /\ v.reply = None /\ v.prepared
               /\ v.ends = exec[x].ends
  <2>. DEFINE w == Asking(exec[x], method)
  <2>1. w.op = p /\ w.pc = "sent" /\ w.reply = None /\ w.prepared /\ w.ends = exec[x].ends
    BY <1>2, <1>4, AskingFields DEF Op, Prepared
  <2>2. exec' = [exec EXCEPT ![x] = w]
    BY DEF Send, Asking
  <2>. HIDE DEF w
  <2>. QED
    BY <2>1, <2>2, Stepped
<1>6. PICK r : /\ wire' = wire \cup {r} /\ r.op = p /\ r.client = e /\ r.method = method
  <2>. DEFINE r0 == Request(x, method)
  <2>1. wire' = wire \cup {r0}
    BY DEF Send, Request
  <2>2. r0.op = p /\ r0.client = e /\ r0.method = method
    BY <1>3 DEF Request, EntryOf, EntryFor
  <2>. HIDE DEF r0
  <2>. QED
    BY <2>1, <2>2
<1>7. ops' = ops /\ entries' = entries /\ RowsKept
  BY DEF journal, RowsKept, Proper
<1>8. ASSUME NEW f \in Operations
      PROVE  /\ InQueue(f)' = InQueue(f) /\ InTranscript(f)' = InTranscript(f)
             /\ f # e \/ method \notin Payloads => InFlight(f)' = InFlight(f)
             /\ f = e => InFlight(f)' \subseteq InFlight(f) \cup {r}
  BY <1>6 DEF InFlight, InQueue, InTranscript, codex, Payloads
<1>9. Carrier(p) => /\ Mutation(e) = p /\ ops[p].status = "delivering" /\ Unsent(p)
                    /\ Payload(p) => Clear(e)
  BY <1>2, <1>3, <1>4 DEF Right, Opened, Waiting
<1>10. Right(p)'
  <2>1. ASSUME NEW y \in Executors, On(y, p)'
        PROVE  \/ y = x /\ exec'[y] = v
               \/ /\ y # x /\ exec'[y] = exec[y] /\ ~exec[y].prepared
                  /\ exec[y].pc \notin After /\ On(y, p)
    <3>1. CASE y = x
      BY <1>5, <3>1 DEF ExecStep
    <3>2. CASE y # x
      <4>1. exec'[y] = exec[y] /\ On(y, p)
        BY <1>5, <2>1, <3>2 DEF ExecStep, On, At, Op
      <4>2. ~exec[y].prepared
        BY <1>2, <1>4, <3>2, <4>1 DEF Right, Owned, Prepared
      <4>3. Stands(exec[y])
        BY <1>2, <4>1 DEF Standing, On
      <4>. QED
        BY <3>2, <4>1, <4>2, <4>3 DEF Stands
    <3>. QED
      BY <3>1, <3>2
  <2>2. Waiting(p)' <=> Waiting(p)
    BY <1>7 DEF Waiting, Proper, EntryFor, Mutation
  <2>3. Owned(p)'
    BY <1>4, <2>1, <2>2 DEF Owned, Prepared
  <2>4. Steers(p)'
    BY <1>5, <2>1 DEF Steers, At, After
  <2>5. ~Open(p)' /\ ~Pending(p)'
    BY <1>4, <1>5, <2>1, <2>2 DEF Open, Pending, Holds, Holding, Unwritten, IsRefusal, After
  <2>6. Opened(p)' /\ Fresh(p)'
    BY <2>5 DEF Opened, Fresh
  <2>7. Carrier(p) => Asked(p)'
    BY <1>5, <1>7, <1>9, <2>1 DEF Asked, At, IsWithdrawal, After
  <2>8. Carrier(p) => Requested(p)'
    <3>. SUFFICES ASSUME Carrier(p), NEW s \in wire', s.op = p
                  PROVE  /\ \A t \in wire' : t.op = p => s = t
                         /\ Payload(p) => s.method \in Payloads
                         /\ s.method = "queue/delete" => ops[p].action \in {"delete", "send-now"}
      BY <1>7 DEF Requested, Payload, Withdrawn, EntryFor
    <3>1. \A t \in wire' : t.op = p => t = r
      BY <1>6, <1>9 DEF Unsent
    <3>. QED
      BY <1>6, <3>1
  <2>. QED
    BY <1>2, <1>7, <2>3, <2>4, <2>6, <2>7, <2>8 DEF Right, Carrier, Mutation, EntryFor
<1>11. ASSUME NEW q \in Operations, Proper(q)', q # p
       PROVE  Right(q)'
  <2>1. Proper(q)
    BY <1>7, <1>11 DEF Proper
  <2>2. PICK f \in Operations : EntryFor(q) = f
    BY <2>1, RowFields DEF Types
  <2>3. SameCalls(q)
    BY <1>5, <1>11, OthersCalls
  <2>4. SameWire(q)
    BY <1>6, <1>11 DEF SameWire
  <2>5. Mutation(f) = q /\ Clear(f) => Clear(f)'
    <3>1. Mutation(f) = q => f # e \/ method \notin Payloads
      BY <1>9, <1>11
    <3>. QED
      BY <1>8, <3>1 DEF Clear
  <2>. QED
    BY <2>1, <2>2, <2>3, <2>4, <2>5, JournalStays
<1>12. ASSUME NEW f \in Operations
       PROVE  Whole(f)'
  <2>1. CASE f # e \/ method \notin Payloads
    BY <1>7, <1>8, <2>1, EntryStays
  <2>2. CASE f = e /\ method \in Payloads
    <3>1. Clear(e) /\ Mutation(e) = p /\ J!Exists(e)
      BY <1>2, <1>3, <1>9, <2>2, RowFields DEF Types
    <3>2. InFlight(e)' \subseteq {r} /\ InQueue(e)' = {} /\ InTranscript(e)' = {}
      BY <1>8, <2>2, <3>1 DEF Clear
    <3>3. Lone(e)'
      BY <3>2 DEF Lone, Arrived
    <3>4. Owed(e, entries[e].state, Mutation(e)) /\ p # None
      BY <1>2, <3>1, WholeOwes, Constants
    <3>5. /\ entries[e].state \notin {"refused", "removed"}
          /\ entries[e].state = "withdrawn" => Carrier(p)
          /\ entries[e].state # "delivered"
      BY <3>1, <3>4, EntryFields, Constants DEF Owed, Clear, Types
    <3>. QED
      BY <1>7, <2>2, <3>1, <3>3, <3>4, <3>5 DEF Whole, J!Exists, Mutation, Withdrawn, Carrier
  <2>. QED
    BY <2>1, <2>2
<1>13. Standing'
  <2>1. Stands(v)
    BY <1>5 DEF Stands, Before, After
  <2>. QED
    BY <1>2, <1>5, <2>1, StandingStep
<1>14. Seen'
  BY SeenStays DEF codex
<1>. QED
  BY <1>10, <1>11, <1>12, <1>13, <1>14 DEF Copies

(* The method of a write carries the payload exactly when the entry is not *)
(* with Codex any more.                                                    *)
LEMMA MethodRight ==
    ASSUME Types, Copies, NEW x \in Executors, At(x, "prepared"), NEW p, p = Op(x),
           NEW guarded \in BOOLEAN, NEW method, method = MethodFor(x, guarded)
    PROVE  /\ Carrier(p) /\ Payload(p) <=> method \in Payloads
           /\ method = "queue/delete" => ops[p].action \in {"delete", "send-now"}
<1>1. ~At(x, "idle") /\ exec[x].pc = "prepared"
  BY AtStage DEF Types, Stages
<1>2. /\ p \in Operations /\ Proper(p) /\ On(x, p) /\ Right(p) /\ EntryFor(p) \in Operations
      /\ exec[x] \in Workers /\ Stands(exec[x]) /\ Standing
  BY <1>1, Caller
<1>3. Pending(p)
  BY <1>1, <1>2 DEF Pending, Unwritten
<1>4. Carrier(p) => /\ Withdrawn(EntryFor(p)) => ops[p].action = "start"
                    /\ exec[x].withdrawn <=> Withdrawn(EntryFor(p))
  BY <1>1, <1>2, <1>3 DEF Right, Fresh, Informing, Unwritten
<1>5. /\ Action(x) = ops[p].action
      /\ ops[p].action \in {"add", "update", "delete", "start", "send-now"}
  BY <1>2, RowFields DEF Types, J!Actions, Action
<1>6. CASE ops[p].action = "add"
  <2>1. method \in {"queue/add", "turn/start"}
    BY <1>5, <1>6 DEF MethodFor, StartsTurn
  <2>2. Carrier(p) /\ Payload(p)
    BY <1>6 DEF Carrier, Payload
  <2>. QED
    BY <2>1, <2>2 DEF Payloads
<1>7. CASE ops[p].action = "update"
  <2>1. method = "queue/update"
    BY <1>5, <1>7 DEF MethodFor, StartsTurn
  <2>2. ~Carrier(p)
    BY <1>7 DEF Carrier
  <2>. QED
    BY <2>1, <2>2 DEF Payloads
<1>8. CASE ops[p].action = "start"
  <2>1. method = IF exec[x].withdrawn THEN "turn/start" ELSE "queue/start"
    BY <1>5, <1>8 DEF MethodFor, StartsTurn
  <2>2. Carrier(p) /\ (Payload(p) <=> Withdrawn(EntryFor(p)))
    BY <1>8 DEF Carrier, Payload
  <2>. QED
    BY <1>4, <2>1, <2>2 DEF Payloads
<1>9. CASE ops[p].action \in {"delete", "send-now"}
  <2>1. Carrier(p) /\ ~Withdrawn(EntryFor(p)) /\ ~exec[x].withdrawn /\ ~Payload(p)
    BY <1>4, <1>9 DEF Carrier, Payload
  <2>2. method \in {"queue/start", "queue/delete"}
    BY <1>5, <1>9, <2>1 DEF MethodFor
  <2>. QED
    BY <1>9, <2>1, <2>2 DEF Payloads
<1>. QED
  BY <1>5, <1>6, <1>7, <1>8, <1>9

LEMMA ActuateCopies ==
    ASSUME Types, Ledger, Copies, NEW x \in Executors, Actuate(x)
    PROVE  Copies'
<1>1. At(x, "prepared") /\ UNCHANGED <<journal, codex, seen>>
  BY DEF Actuate
<1>2. PICK p : p = Op(x)
  OBVIOUS
<1>3. PICK guarded \in BOOLEAN :
         LET method == MethodFor(x, guarded) IN
         IF TurnHolds(x, method) THEN Send(x, method)
         ELSE Throw(x, "failed") /\ UNCHANGED wire
  BY DEF Actuate
<1>4. PICK method : method = MethodFor(x, guarded)
  OBVIOUS
<1>5. CASE Send(x, method)
  BY <1>1, <1>2, <1>4, <1>5, MethodTyped, MethodRight, SendCopies
<1>6. CASE Throw(x, "failed") /\ UNCHANGED wire
  <2>1. ~At(x, "idle") /\ exec[x].pc = "prepared"
    BY <1>1, AtStage DEF Types, Stages
  <2>2. exec[x].prepared => Holding(exec[x])
    BY <2>1 DEF Holding, Unwritten
  <2>3. UNCHANGED <<journal, wire, codex, seen>>
    BY <1>1, <1>6
  <2>4. Local(x)
    BY <1>6, <2>1, <2>2, <2>3, ThrowLocal
  <2>. QED
    BY <2>4, LocalCopies
<1>. QED
  BY <1>3, <1>4, <1>5, <1>6

LEMMA SteerCopies ==
    ASSUME Types, Ledger, Copies, NEW x \in Executors, Steer(x)
    PROVE  Copies'
<1>1. At(x, "steering") /\ UNCHANGED <<journal, codex, seen>>
  BY DEF Steer
<1>2. PICK p : p = Op(x)
  OBVIOUS
<1>3. ~At(x, "idle") /\ exec[x].pc = "steering"
  BY <1>1, AtStage DEF Types, Stages
<1>4. CASE Send(x, "turn/steer")
  <2>1. On(x, p) /\ Right(p)
    BY <1>2, <1>3, Caller
  <2>2. ops[p].action = "send-now" /\ Withdrawn(EntryFor(p))
    BY <1>1, <2>1 DEF Right, Steers
  <2>3. Carrier(p) /\ Payload(p)
    BY <2>2 DEF Carrier, Payload
  <2>4. "turn/steer" \in Payloads /\ "turn/steer" \in Methods /\ "turn/steer" # "queue/delete"
    BY DEF Payloads, Methods
  <2>. QED
    BY <1>1, <1>2, <1>4, <2>3, <2>4, SendCopies
<1>5. ASSUME NEW ends \in {"failed", "uncertain"}, Throw(x, ends), UNCHANGED wire
      PROVE  Copies'
  <2>1. exec[x].prepared /\ Holding(exec[x])
    BY <1>2, <1>3, Caller DEF Holding, Stands, After
  <2>2. UNCHANGED <<journal, wire, codex, seen>>
    BY <1>1, <1>5
  <2>3. Local(x)
    BY <1>3, <1>5, <2>1, <2>2, ThrowLocal
  <2>. QED
    BY <2>3, LocalCopies
<1>. QED
  BY <1>4, <1>5 DEF Steer

LEMMA ReplyCopies ==
    ASSUME Types, Ledger, Copies, NEW x \in Executors, ReceiveReply(x)
    PROVE  Copies'
<1>1. At(x, "sent") /\ UNCHANGED <<wire, codex, seen>>
  BY DEF ReceiveReply
<1>2. PICK p : p = Op(x)
  OBVIOUS
<1>3. ~At(x, "idle") /\ exec[x].pc = "sent"
  BY <1>1, AtStage DEF Types, Stages
<1>4. exec[x].prepared
  BY <1>2, <1>3, Caller DEF Stands, After
<1>5. exec[x].reply # None /\ exec[x].reply.kind # "refused"
  BY DEF ReceiveReply
<1>6. \/ /\ Acknowledgeable(x, exec[x].reply) /\ Acknowledge(x, exec[x].reply)
         /\ Stop(x) \/ Move(x, "removing") \/ Throw(x, "uncertain")
      \/ Throw(x, "uncertain") /\ UNCHANGED journal
  BY DEF ReceiveReply
<1>7. CASE /\ Acknowledgeable(x, exec[x].reply) /\ Acknowledge(x, exec[x].reply)
           /\ Stop(x) \/ Move(x, "removing") \/ Throw(x, "uncertain")
  BY <1>1, <1>2, <1>5, <1>7, AcknowledgeCopies
<1>8. CASE Throw(x, "uncertain") /\ UNCHANGED journal
  <2>1. UNCHANGED <<journal, wire, codex, seen>>
    BY <1>1, <1>8
  <2>2. Local(x)
    BY <1>3, <1>4, <1>8, <2>1, ThrowLocal
  <2>. QED
    BY <2>2, LocalCopies
<1>. QED
  BY <1>6, <1>7, <1>8

LEMMA WithdrawalCopies ==
    ASSUME Types, Ledger, Copies, NEW x \in Executors, ReceiveWithdrawal(x)
    PROVE  Copies'
<1>1. At(x, "sent") /\ UNCHANGED <<wire, codex, seen>>
  BY DEF ReceiveWithdrawal
<1>2. PICK p : p = Op(x)
  OBVIOUS
<1>3. ~At(x, "idle") /\ exec[x].pc = "sent"
  BY <1>1, AtStage DEF Types, Stages
<1>4. exec[x].prepared
  BY <1>2, <1>3, Caller DEF Stands, After
<1>5. exec[x].reply # None /\ exec[x].reply.kind = "deleted"
  BY DEF ReceiveWithdrawal
<1>6. \/ /\ IsWithdrawal(exec[x].reply) /\ J!MarkWithdrawn(p)
         /\ Move(x, "steering") \/ Throw(x, "uncertain")
      \/ J!MarkUncertain(p) /\ Stop(x)
      \/ Throw(x, "uncertain") /\ UNCHANGED journal
  BY <1>2, <1>5 DEF ReceiveWithdrawal, IsWithdrawal
<1>7. CASE /\ IsWithdrawal(exec[x].reply) /\ J!MarkWithdrawn(p)
           /\ Move(x, "steering") \/ Throw(x, "uncertain")
  BY <1>1, <1>2, <1>7, WithdrawnCopies
<1>8. CASE J!MarkUncertain(p) /\ Stop(x)
  BY <1>1, <1>2, <1>3, <1>4, <1>8, UncertainCopies
<1>9. CASE Throw(x, "uncertain") /\ UNCHANGED journal
  <2>1. UNCHANGED <<journal, wire, codex, seen>>
    BY <1>1, <1>9
  <2>2. Local(x)
    BY <1>3, <1>4, <1>9, <2>1, ThrowLocal
  <2>. QED
    BY <2>2, LocalCopies
<1>. QED
  BY <1>6, <1>7, <1>8, <1>9

(* The steps that end an operation, or fail to.                            *)
LEMMA SettlesCopies ==
    ASSUME Types, Ledger, Copies, NEW x \in Executors, ~RivalRefusal,
           RefuseNow(x) \/ RefuseFenced(x) \/ End(x)
    PROVE  Copies'
<1>1. exec[x].pc \in {"refusing", "fenced", "ending"} /\ UNCHANGED <<wire, codex, seen>>
  BY DEF RefuseNow, RefuseFenced, End, At
<1>2. ~At(x, "idle")
  BY <1>1 DEF At
<1>3. PICK p : p = Op(x)
  OBVIOUS
<1>4. exec[x] \in Workers /\ Stands(exec[x]) /\ Standing
  BY <1>2, <1>3, Caller
<1>5. \/ UNCHANGED journal /\ Stop(x)
      \/ UNCHANGED journal /\ Throw(x, "failed") /\ exec[x].pc = "fenced"
      \/ J!Refuse(p) /\ Stop(x) /\ (exec[x].pc = "ending" => exec[x].ends = "failed")
      \/ J!MarkUncertain(p) /\ Stop(x) /\ exec[x].pc = "ending" /\ exec[x].ends # "failed"
  BY <1>3 DEF RefuseNow, RefuseFenced, End, At
<1>6. CASE UNCHANGED journal /\ Stop(x)
  <2>1. UNCHANGED <<journal, wire, codex, seen>>
    BY <1>1, <1>6
  <2>. QED
    BY <1>6, <2>1, StopLocal, LocalCopies
<1>7. CASE UNCHANGED journal /\ Throw(x, "failed") /\ exec[x].pc = "fenced"
  <2>1. UNCHANGED <<journal, wire, codex, seen>>
    BY <1>1, <1>7
  <2>2. ~exec[x].prepared
    BY <1>4, <1>7 DEF Stands, Before
  <2>3. Local(x)
    BY <1>2, <1>7, <2>1, <2>2, ThrowLocal
  <2>. QED
    BY <2>3, LocalCopies
<1>8. CASE J!Refuse(p) /\ Stop(x) /\ (exec[x].pc = "ending" => exec[x].ends = "failed")
  <2>1. CASE exec[x].prepared
    <3>1. exec[x].pc = "ending"
      BY <1>1, <1>4, <2>1 DEF Stands, Before
    <3>2. Holds(x)
      BY <1>2, <1>8, <2>1, <3>1 DEF Holds, Holding
    <3>. QED
      BY <1>1, <1>2, <1>3, <1>8, <3>2, RefuseCopies
  <2>2. CASE ~exec[x].prepared
    <3>1. Waiting(p)
      BY <1>2, <1>3, <1>8, <2>2, RefuseWaiting
    <3>. QED
      BY <1>1, <1>2, <1>3, <1>8, <3>1, RefuseCopies
  <2>. QED
    BY <2>1, <2>2
<1>9. CASE J!MarkUncertain(p) /\ Stop(x) /\ exec[x].pc = "ending" /\ exec[x].ends # "failed"
  <2>1. exec[x].prepared
    BY <1>4, <1>9 DEF Stands, Workers
  <2>. QED
    BY <1>1, <1>2, <1>3, <1>9, <2>1, UncertainCopies
<1>. QED
  BY <1>5, <1>6, <1>7, <1>8, <1>9

LEMMA PreparesCopies ==
    ASSUME Types, Ledger, Copies, NEW x \in Executors, Prepare(x) \/ Defer(x)
    PROVE  Copies'
<1>1. exec[x].pc \in {"ready", "deferring"} /\ UNCHANGED <<wire, codex, seen>>
  BY DEF Prepare, Defer, At
<1>2. ~At(x, "idle")
  BY <1>1 DEF At
<1>3. PICK p : p = Op(x)
  OBVIOUS
<1>4. exec[x] \in Workers /\ Stands(exec[x]) /\ Standing
  BY <1>2, <1>3, Caller
<1>5. ASSUME UNCHANGED journal, Stop(x) \/ Throw(x, "failed")
      PROVE  Copies'
  <2>1. UNCHANGED <<journal, wire, codex, seen>>
    BY <1>1, <1>5
  <2>2. exec[x].prepared => Holding(exec[x])
    BY <1>1, <1>4 DEF Stands, Before, Holding, Unwritten
  <2>3. Local(x)
    BY <1>2, <1>5, <2>1, <2>2, StopLocal, ThrowLocal
  <2>. QED
    BY <2>3, LocalCopies
<1>6. CASE Prepare(x)
  <2>1. \/ /\ At(x, "ready") /\ J!Prepare(p, exec[x].revision, Thread)
           /\ exec' = [exec EXCEPT ![x] = Swapped(exec[x])] \/ Throw(x, "failed")
        \/ Throw(x, "failed") /\ UNCHANGED journal
    BY <1>3, <1>6 DEF Prepare, Swapped
  <2>. QED
    BY <1>1, <1>3, <1>5, <2>1, PrepareCopies
<1>7. CASE Defer(x)
  <2>1. \/ /\ At(x, "deferring") /\ J!Defer(p)
           /\ \E v : /\ exec' = [exec EXCEPT ![x] = v]
                     /\ v = Idle \/ v = Unprepared(exec[x])
        \/ UNCHANGED journal /\ (Stop(x) \/ Throw(x, "failed"))
    BY <1>3, <1>7 DEF Defer, Stop, Unprepared
  <2>. QED
    BY <1>1, <1>3, <1>5, <2>1, DeferCopies
<1>. QED
  BY <1>6, <1>7

LEMMA RemovesCopies ==
    ASSUME Types, Ledger, Copies, NEW x \in Executors, RemoveEntry(x)
    PROVE  Copies'
<1>1. At(x, "removing") /\ UNCHANGED <<wire, codex, seen>>
  BY DEF RemoveEntry
<1>2. PICK p : p = Op(x)
  OBVIOUS
<1>3. ~At(x, "idle") /\ exec[x].pc = "removing"
  BY <1>1, AtStage DEF Types, Stages
<1>4. exec[x].prepared /\ EntryFor(p) \in Operations
  BY <1>2, <1>3, Caller DEF Stands, After
<1>5. PICK e \in Operations : EntryFor(p) = e
  BY <1>4
<1>6. \/ J!Remove(e) /\ Stop(x)
      \/ Throw(x, "uncertain") /\ UNCHANGED journal
  BY <1>2, <1>5 DEF RemoveEntry, EntryOf, EntryFor
<1>7. CASE J!Remove(e) /\ Stop(x)
  BY <1>1, <1>7, RemoveCopies
<1>8. CASE Throw(x, "uncertain") /\ UNCHANGED journal
  <2>1. UNCHANGED <<journal, wire, codex, seen>>
    BY <1>1, <1>8
  <2>2. Local(x)
    BY <1>3, <1>4, <1>8, <2>1, ThrowLocal
  <2>. QED
    BY <2>2, LocalCopies
<1>. QED
  BY <1>6, <1>7, <1>8

LEMMA ExecuteCopies ==
    ASSUME Types, Ledger, Copies, NEW x \in Executors, Execute(x), ~RivalRefusal
    PROVE  Copies'
<1>1. Standing
  BY DEF Copies
<1>2. CASE \/ \E op \in Operations : Pick(x, op)
           \/ Terminate(x) \/ ReadEntry(x)
           \/ HealthRefuses(x) \/ HealthWaits(x) \/ HealthAllows(x)
           \/ FenceUnreadable(x) \/ FenceSettled(x)
           \/ Unauthorized(x) \/ Postpone(x) \/ LoseReply(x) \/ ReceiveRefusal(x)
           \/ CatchStatus(x) \/ CatchDeferred(x) \/ CatchEntry(x) \/ Crash(x)
  <2>1. Local(x)
    BY <1>1, <1>2, PickLocal, ReadEntryLocal, HealthAllowsLocal, MovesLocal
  <2>. QED
    BY <2>1, LocalCopies
<1>. QED
  BY <1>2, SettlesCopies, PreparesCopies, ActuateCopies, SteerCopies, ReplyCopies,
     WithdrawalCopies, RemovesCopies DEF Execute

-----------------------------------------------------------------------------
(* Codex serves a request                                                  *)

(* Only the request's message is touched: submissions are not shared.      *)
LEMMA ServeClaims ==
    ASSUME Types, Ledger, NEW r \in wire, NEW item \in queue, item.sub = r.sub
    PROVE  item.client = r.client
<1>1. /\ item.sub \in Submissions /\ item.client \in Operations /\ r.client \in Operations
  BY DEF Types, CodexTypes, Items, WireTypes, Requests
<1>2. Claims(item.client, r.sub) /\ Claims(r.client, r.sub)
  BY DEF Claims, QueueClaims, WireClaims
<1>. QED
  BY <1>1, <1>2 DEF Ledger, Claimed

LEMMA ServeElsewhere ==
    ASSUME Types, Ledger, NEW r \in wire, Serve(r), NEW f \in Operations, f # r.client
    PROVE  /\ InFlight(f)' = InFlight(f) /\ InQueue(f)' = InQueue(f)
           /\ InTranscript(f)' = InTranscript(f)
<1>1. wire' = wire \ {r}
  BY DEF Serve, ServeAdd, ServeUpdate, ServeDelete, ServeQueueStart, ServeTurnStart, ServeSteer,
         RefuseRequest, Answer
<1>2. InFlight(f)' = InFlight(f)
  BY <1>1 DEF InFlight
<1>3. CASE ServeAdd(r)
  BY <1>2, <1>3 DEF ServeAdd, InQueue, InTranscript
<1>4. CASE ServeUpdate(r)
  <2>1. PICK item \in queue :
           /\ item.sub = r.sub
           /\ queue' = (queue \ {item}) \cup {[item EXCEPT !.revision = r.revision]}
    BY <1>4 DEF ServeUpdate
  <2>2. item.client = r.client /\ item \in Items
    BY <2>1, ServeClaims DEF Types, CodexTypes
  <2>3. [item EXCEPT !.revision = r.revision].client = r.client
    BY <2>2 DEF Items
  <2>. QED
    BY <1>2, <1>4, <2>1, <2>2, <2>3 DEF ServeUpdate, InQueue, InTranscript
<1>5. CASE ServeDelete(r)
  BY <1>2, <1>5, ServeClaims DEF ServeDelete, InQueue, InTranscript
<1>6. CASE ServeQueueStart(r)
  <2>1. PICK item \in queue :
           /\ item.sub = r.sub
           /\ queue' = queue \ {item}
           /\ transcript' = transcript \cup {Delivered(item, active')}
    BY <1>6 DEF ServeQueueStart
  <2>2. item.client = r.client
    BY <2>1, ServeClaims
  <2>. QED
    BY <1>2, <2>1, <2>2 DEF InQueue, InTranscript, Delivered
<1>7. CASE ServeTurnStart(r) \/ ServeSteer(r)
  BY <1>2, <1>7 DEF ServeTurnStart, ServeSteer, InQueue, InTranscript, Delivered
<1>8. CASE RefuseRequest(r)
  BY <1>2, <1>8 DEF RefuseRequest, InQueue, InTranscript, codex
<1>. QED
  BY <1>3, <1>4, <1>5, <1>6, <1>7, <1>8 DEF Serve

(* A queued message taken into a turn.                                     *)
LEMMA TakenAlone ==
    ASSUME NEW e, Lone(e), NEW item \in queue, item.client = e, NEW t,
           queue' = queue \ {item}, transcript' = transcript \cup {Delivered(item, t)},
           wire' \subseteq wire
    PROVE  ~Clear(e) /\ Lone(e)' /\ InTranscript(e)' # {}
<1>. DEFINE d == Delivered(item, t)
<1>1. item \in InQueue(e)
  BY DEF InQueue
<1>2. InFlight(e) = {} /\ InTranscript(e) = {} /\ InQueue(e) = {item}
  BY <1>1 DEF Lone, Arrived
<1>3. d.client = e
  BY DEF Delivered
<1>. HIDE DEF d
<1>4. InFlight(e)' = {} /\ InQueue(e)' = {} /\ InTranscript(e)' = {d}
  <2>1. InFlight(e)' \subseteq InFlight(e)
    BY DEF InFlight
  <2>2. InQueue(e)' = InQueue(e) \ {item}
    BY DEF InQueue
  <2>3. InTranscript(e)' = InTranscript(e) \cup {d}
    BY <1>3 DEF InTranscript, d
  <2>. QED
    BY <1>2, <2>1, <2>2, <2>3
<1>. QED
  BY <1>1, <1>4 DEF Lone, Arrived, Clear

(* What serving does to the copies of the request's message.               *)
LEMMA ServeClient ==
    ASSUME Types, Ledger, NEW r \in wire, Serve(r), NEW e \in Operations, r.client = e, Lone(e)
    PROVE  /\ Lone(e)'
           /\ InTranscript(e) # {} => InTranscript(e)' # {}
           /\ Clear(e) => Clear(e)'
           /\ r.method # "queue/delete" /\ Arrived(e) => Arrived(e)'
           /\ ServeDelete(r) /\ queue' # queue => Clear(e)'
           /\ RefuseRequest(r) /\ r.method \in Payloads => Clear(e)'
<1>1. wire' = wire \ {r}
  BY DEF Serve, ServeAdd, ServeUpdate, ServeDelete, ServeQueueStart, ServeTurnStart, ServeSteer,
         RefuseRequest, Answer
<1>2. InFlight(e)' = InFlight(e) \ {r}
  BY <1>1 DEF InFlight
<1>3. r.method \in Payloads =>
         r \in InFlight(e) /\ InFlight(e)' = {} /\ InQueue(e) = {} /\ InTranscript(e) = {}
  <2>1. r.method \in Payloads => r \in InFlight(e)
    BY DEF InFlight, Payloads
  <2>. QED
    BY <1>2, <2>1 DEF Lone, Arrived
<1>4. CASE ServeAdd(r)
  <2>. DEFINE i == [client |-> r.client, revision |-> r.revision, sub |-> issued + 1]
  <2>1. queue' = queue \cup {i} /\ transcript' = transcript /\ i.client = e
    BY <1>4 DEF ServeAdd
  <2>. HIDE DEF i
  <2>2. InQueue(e)' = InQueue(e) \cup {i} /\ InTranscript(e)' = InTranscript(e)
    BY <2>1 DEF InQueue, InTranscript
  <2>3. r.method = "queue/add"
    BY <1>4 DEF ServeAdd
  <2>4. ~RefuseRequest(r)
    BY <1>4 DEF ServeAdd, RefuseRequest, codex, Types, CodexTypes
  <2>5. ~ServeDelete(r) /\ r.method \in Payloads
    BY <2>3 DEF ServeDelete, Payloads
  <2>6. InFlight(e)' = {} /\ InQueue(e)' = {i} /\ InTranscript(e)' = {} /\ InTranscript(e) = {}
        /\ ~Clear(e)
    BY <1>3, <2>2, <2>5 DEF Clear
  <2>. QED
    BY <2>4, <2>5, <2>6 DEF Lone, Arrived
<1>5. CASE ServeTurnStart(r) \/ ServeSteer(r)
  <2>1. PICK t : transcript' = transcript \cup {Delivered(r, t)}
    BY <1>5 DEF ServeTurnStart, ServeSteer
  <2>. DEFINE d == Delivered(r, t)
  <2>2. d.client = e
    BY DEF Delivered
  <2>. HIDE DEF d
  <2>3. queue' = queue /\ r.method \in {"turn/start", "turn/steer"}
    BY <1>5 DEF ServeTurnStart, ServeSteer
  <2>4. InQueue(e)' = InQueue(e) /\ InTranscript(e)' = InTranscript(e) \cup {d}
    BY <2>1, <2>2, <2>3 DEF InQueue, InTranscript, d
  <2>5. ~RefuseRequest(r) \/ d \in transcript
    BY <2>1 DEF RefuseRequest, codex, d
  <2>6. ~RefuseRequest(r)
    BY <1>3, <2>2, <2>3, <2>5 DEF InTranscript, Payloads
  <2>. QED
    BY <1>3, <2>3, <2>4, <2>6 DEF Lone, Arrived, Clear, Payloads, ServeDelete
<1>6. CASE ServeUpdate(r)
  <2>1. PICK item \in queue :
           /\ item.sub = r.sub
           /\ queue' = (queue \ {item}) \cup {[item EXCEPT !.revision = r.revision]}
    BY <1>6 DEF ServeUpdate
  <2>2. item.client = e /\ item \in Items
    BY <2>1, ServeClaims DEF Types, CodexTypes
  <2>. DEFINE i == [item EXCEPT !.revision = r.revision]
  <2>3. i.client = e
    BY <2>2 DEF Items
  <2>. HIDE DEF i
  <2>4. InQueue(e)' = (InQueue(e) \ {item}) \cup {i}
    BY <2>1, <2>3 DEF InQueue, i
  <2>5. item \in InQueue(e)
    BY <2>2 DEF InQueue
  <2>6. InTranscript(e)' = InTranscript(e) /\ r.method = "queue/update"
    BY <1>6 DEF ServeUpdate, InTranscript
  <2>7. InQueue(e)' = {i}
    BY <2>4, <2>5 DEF Lone
  <2>8. ~ServeDelete(r) /\ r.method \notin Payloads
    BY <2>6 DEF ServeDelete, Payloads
  <2>9. InFlight(e) = {} /\ InTranscript(e) = {} /\ ~Clear(e)
    BY <2>5 DEF Lone, Arrived, Clear
  <2>10. InFlight(e)' = {} /\ InTranscript(e)' = {}
    BY <1>2, <2>6, <2>9
  <2>. QED
    BY <2>7, <2>8, <2>9, <2>10 DEF Lone, Arrived
<1>7. CASE ServeDelete(r)
  <2>1. queue' = {item \in queue : item.sub # r.sub} /\ transcript' = transcript
        /\ r.method = "queue/delete"
    BY <1>7 DEF ServeDelete
  <2>2. InQueue(e)' \subseteq InQueue(e) /\ InTranscript(e)' = InTranscript(e)
    BY <2>1 DEF InQueue, InTranscript
  <2>3. queue' # queue => InQueue(e)' = {} /\ InQueue(e) # {}
    <3>1. ASSUME queue' # queue
          PROVE  \E item \in InQueue(e) : item \notin InQueue(e)'
      <4>1. PICK item \in queue : item.sub = r.sub
        BY <2>1, <3>1
      <4>2. item.client = e
        BY <4>1, ServeClaims
      <4>. QED
        BY <2>1, <4>1, <4>2 DEF InQueue
    <3>. QED
      BY <2>2, <3>1 DEF Lone
  <2>. QED
    BY <1>2, <2>1, <2>2, <2>3 DEF Lone, Arrived, Clear, Payloads
<1>8. CASE ServeQueueStart(r)
  <2>1. PICK item \in queue :
           /\ item.sub = r.sub
           /\ queue' = queue \ {item}
           /\ transcript' = transcript \cup {Delivered(item, active')}
    BY <1>8 DEF ServeQueueStart
  <2>2. item.client = e
    BY <2>1, ServeClaims
  <2>3. r.method = "queue/start"
    BY <1>8 DEF ServeQueueStart
  <2>4. ~Clear(e) /\ Lone(e)' /\ InTranscript(e)' # {}
    BY <1>1, <2>1, <2>2, TakenAlone
  <2>. QED
    BY <2>3, <2>4 DEF Arrived, Payloads, ServeDelete
<1>9. CASE RefuseRequest(r)
  <2>1. InQueue(e)' = InQueue(e) /\ InTranscript(e)' = InTranscript(e) /\ queue' = queue
    BY <1>9 DEF RefuseRequest, codex, InQueue, InTranscript
  <2>. QED
    BY <1>2, <1>3, <2>1 DEF Lone, Arrived, Clear
<1>. QED
  BY <1>4, <1>5, <1>6, <1>7, <1>8, <1>9 DEF Serve

(* What the answer says.                                                   *)
LEMMA ServeReply ==
    ASSUME Types, Aimed, NEW r \in wire, Serve(r)
    PROVE  \E reply \in Replies :
              /\ Reached(r, reply)
              /\ IsRefusal(reply) => RefuseRequest(r)
              /\ IsWithdrawal(reply) => ServeDelete(r) /\ queue' # queue
<1>1. UNCHANGED journal
  BY DEF Serve
<1>2. \A reply \in Replies : Answer(r, reply) => Reached(r, reply)
  BY <1>1, AnswerTyped
<1>3. CASE ServeAdd(r)
  <2>. DEFINE reply == [kind |-> "queued", sub |-> issued + 1]
  <2>1. issued + 1 \in Submissions
    BY <1>3, Constants DEF ServeAdd, Types, CodexTypes, Submissions
  <2>2. reply \in Replies /\ reply.kind = "queued" /\ Answer(r, reply)
    BY <1>3, <2>1, ReplyTypes DEF ServeAdd
  <2>. HIDE DEF reply
  <2>. QED
    BY <1>2, <2>2 DEF IsRefusal, IsWithdrawal
<1>4. CASE ServeUpdate(r)
  <2>. DEFINE reply == [kind |-> "queued", sub |-> r.sub]
  <2>1. r.sub \in Submissions
    BY <1>4 DEF ServeUpdate, Types, CodexTypes, Items
  <2>2. reply \in Replies /\ reply.kind = "queued" /\ Answer(r, reply)
    BY <1>4, <2>1, ReplyTypes DEF ServeUpdate
  <2>. HIDE DEF reply
  <2>. QED
    BY <1>2, <2>2 DEF IsRefusal, IsWithdrawal
<1>5. CASE ServeDelete(r)
  <2>. DEFINE reply == [kind |-> "deleted", deleted |-> queue' # queue]
  <2>1. reply \in Replies /\ reply.kind = "deleted" /\ Answer(r, reply)
    BY <1>5, ReplyTypes DEF ServeDelete
  <2>2. reply.deleted => queue' # queue
    OBVIOUS
  <2>. HIDE DEF reply
  <2>. QED
    BY <1>2, <1>5, <2>1, <2>2 DEF IsRefusal, IsWithdrawal
<1>6. CASE ServeQueueStart(r) \/ ServeTurnStart(r) \/ ServeSteer(r)
  <2>. DEFINE reply == [kind |-> "turn", turn |-> active']
  <2>1. active' \in Turns
    <3>1. ServeQueueStart(r) \/ ServeTurnStart(r) => active' \in Turns
      BY StartTurnTyped DEF ServeQueueStart, ServeTurnStart, Types
    <3>2. ServeSteer(r) => active' \in Turns
      BY DEF ServeSteer, Aimed, Types, WireTypes, Requests
    <3>. QED
      BY <1>6, <3>1, <3>2
  <2>2. Answer(r, reply)
    <3>1. ServeSteer(r) => active' = active /\ Answer(r, [kind |-> "turn", turn |-> active])
      BY DEF ServeSteer
    <3>. QED
      BY <1>6, <3>1 DEF ServeQueueStart, ServeTurnStart
  <2>3. reply \in Replies /\ reply.kind = "turn"
    BY <2>1, ReplyTypes
  <2>. HIDE DEF reply
  <2>. QED
    BY <1>2, <2>2, <2>3 DEF IsRefusal, IsWithdrawal
<1>7. CASE RefuseRequest(r)
  <2>. DEFINE reply == [kind |-> "refused"]
  <2>1. reply \in Replies /\ reply.kind = "refused" /\ Answer(r, reply)
    BY <1>7, ReplyTypes DEF RefuseRequest
  <2>. HIDE DEF reply
  <2>. QED
    BY <1>2, <1>7, <2>1 DEF IsRefusal, IsWithdrawal
<1>. QED
  BY <1>3, <1>4, <1>5, <1>6, <1>7 DEF Serve

(* The operation of the request that is served.                            *)
LEMMA ServedRight ==
    ASSUME Types, Aimed, Ledger, Copies, NEW r \in wire, Serve(r), NEW p, p = r.op
    PROVE  Right(p)'
<1>1. /\ p \in Operations /\ Proper(p) /\ r.client = EntryFor(p) /\ Right(p) /\ Standing
  BY DEF Types, WireTypes, Requests, Ledger, Wired, Copies
<1>2. PICK e \in Operations : EntryFor(p) = e
  BY <1>1, RowFields DEF Types
<1>3. PICK reply \in Replies :
         /\ Reached(r, reply)
         /\ IsRefusal(reply) => RefuseRequest(r)
         /\ IsWithdrawal(reply) => ServeDelete(r) /\ queue' # queue
  BY ServeReply
<1>4. /\ ops' = ops /\ entries' = entries /\ wire' = wire \ {r} /\ RowsKept
  BY ServeTyped DEF Serve, journal, Journaled
<1>5. Lone(e) /\ r.client = e
  BY <1>1, <1>2 DEF Copies, Whole
<1>6. ASSUME NEW y \in Executors, On(y, p)'
      PROVE  /\ On(y, p)
             /\ \/ exec'[y] = exec[y]
                \/ /\ exec[y].pc = "sent" /\ exec'[y].pc = "sent"
                   /\ exec'[y].reply = reply /\ exec'[y].prepared = exec[y].prepared
  <2>1. CASE exec'[y] = exec[y]
    BY <1>6, <2>1 DEF On, At, Op
  <2>2. CASE exec'[y] # exec[y]
    <3>1. y = r.by /\ At(y, "sent") /\ exec[y].op = p /\ exec'[y] = Answered(exec[y], reply)
      BY <1>3, <2>2 DEF Reached, ExecStep
    <3>2. exec[y] \in Workers
      BY <3>1, AtStage DEF Types, Stages
    <3>. QED
      BY <3>1, <3>2, AnsweredFields DEF On, At, Op
  <2>. QED
    BY <2>1, <2>2
<1>7. Waiting(p)' <=> Waiting(p)
  BY <1>4 DEF Waiting, Proper, EntryFor, Mutation
<1>8. Owned(p)'
  BY <1>1, <1>6, <1>7 DEF Right, Owned, Prepared
<1>9. Steers(p)'
  BY <1>1, <1>4, <1>6 DEF Right, Steers, At, Withdrawn, EntryFor
<1>10. ~Unsent(p)
  BY DEF Unsent
<1>11. ASSUME Carrier(p)
       PROVE  Opened(p)' /\ Fresh(p)' /\ Asked(p)' /\ Requested(p)'
  <2>1. Opened(p) /\ Fresh(p) /\ Asked(p) /\ Requested(p)
    BY <1>1, <1>11 DEF Right
  <2>2. ~Open(p) /\ ~Pending(p)
    BY <1>1, <1>10, <2>1, PendingOpens DEF Opened
  <2>3. Unsent(p)'
    BY <1>4, <2>1 DEF Unsent, Requested
  <2>4. Requested(p)'
    BY <2>3 DEF Unsent, Requested
  <2>5. ASSUME NEW y \in Executors, On(y, p)', exec'[y].pc = "sent"
        PROVE  /\ On(y, p) /\ At(y, "sent") /\ ops[p].status = "delivering"
               /\ Mutation(e) = p
               /\ exec[y].reply = None
    <3>1. On(y, p) /\ At(y, "sent")
      BY <1>6, <2>5 DEF At
    <3>2. ops[p].status = "delivering" /\ exec[y].reply = None
      BY <1>10, <2>1, <3>1 DEF Asked
    <3>. QED
      BY <1>1, <1>2, <3>1, <3>2, RowFields DEF Types
  <2>6. ~Pending(p)'
    BY <1>6, <1>7, <2>2 DEF Pending, Unwritten
  <2>7. Fresh(p)'
    BY <2>6 DEF Fresh
  <2>8. Asked(p)'
    <3>. SUFFICES ASSUME NEW y \in Executors, On(y, p)', exec'[y].pc = "sent"
                  PROVE  /\ exec'[y].reply # None => Unsent(p)'
                         /\ ops'[p].status = "delivering"
                         /\ IsWithdrawal(exec'[y].reply) =>
                               /\ Clear(e)'
                               /\ ops[p].action \in {"delete", "send-now"}
      BY <1>2, <1>4 DEF Asked, At, EntryFor
    <3>1. ops'[p].status = "delivering"
      BY <1>4, <2>5
    <3>2. ASSUME IsWithdrawal(exec'[y].reply)
          PROVE  Clear(e)' /\ ops[p].action \in {"delete", "send-now"}
      <4>1. exec'[y].reply = reply
        BY <1>6, <2>5, <3>2 DEF IsWithdrawal
      <4>2. ServeDelete(r) /\ queue' # queue
        BY <1>3, <3>2, <4>1
      <4>3. r.method = "queue/delete"
        BY <4>2 DEF ServeDelete
      <4>4. Clear(e)'
        BY <1>5, <4>2, ServeClient
      <4>. QED
        BY <2>1, <4>3, <4>4 DEF Requested
    <3>. QED
      BY <2>3, <3>1, <3>2
  <2>9. Opened(p)'
    <3>. SUFFICES ASSUME Open(p)'
                  PROVE  /\ Mutation(e) = p /\ ops[p].status \in {"queued", "delivering"}
                         /\ Payload(p) => Clear(e)'
      BY <1>2, <1>4, <2>3 DEF Opened, Payload, EntryFor, Mutation, Withdrawn
    <3>1. PICK y \in Executors : On(y, p)' /\ Holding(exec'[y])
      BY <1>7, <2>2 DEF Open, Holds
    <3>2. ~(exec'[y] = exec[y])
      BY <1>6, <2>2, <3>1 DEF Open, Holds, On
    <3>3. exec'[y].pc = "sent" /\ exec'[y].reply = reply
      BY <1>6, <3>1, <3>2
    <3>4. RefuseRequest(r)
      BY <1>3, <3>1, <3>3 DEF Holding, Unwritten
    <3>5. Mutation(e) = p /\ ops[p].status = "delivering"
      BY <2>5, <3>1, <3>3
    <3>6. Payload(p) => r.method \in Payloads
      BY <1>2, <2>1, <3>5 DEF Requested
    <3>7. Payload(p) => Clear(e)'
      BY <1>5, <3>4, <3>6, ServeClient
    <3>. QED
      BY <3>5, <3>7
  <2>. QED
    BY <2>4, <2>7, <2>8, <2>9
<1>12. ops[p].action # "add" => Mutation(e) # e
  BY <1>1, <1>2 DEF Right
<1>. QED
  BY <1>2, <1>4, <1>8, <1>9, <1>11, <1>12 DEF Right, Carrier, EntryFor, Mutation

LEMMA ServeCopies ==
    ASSUME Types, Aimed, Ledger, Copies, NEW r \in wire, Serve(r)
    PROVE  Copies'
<1>1. PICK p : p = r.op
  OBVIOUS
<1>2. PICK reply \in Replies : Reached(r, reply)
  BY ServeTyped
<1>3. /\ ops' = ops /\ entries' = entries /\ seen' = seen /\ UNCHANGED journal
      /\ wire' = wire \ {r} /\ RowsKept
  BY ServeTyped DEF Serve, journal, Journaled
<1>4. PICK e \in Operations : r.client = e
  BY DEF Types, WireTypes, Requests
<1>5. \A y \in Executors :
         \/ exec'[y] = exec[y]
         \/ /\ exec[y].pc = "sent" /\ exec'[y].pc = "sent" /\ exec[y] \in Workers
            /\ exec'[y].op = p /\ exec'[y].prepared = exec[y].prepared
            /\ exec'[y].ends = exec[y].ends
  <2>1. ASSUME NEW y \in Executors, exec'[y] # exec[y]
        PROVE  /\ exec[y].pc = "sent" /\ exec'[y].pc = "sent" /\ exec[y] \in Workers
               /\ exec'[y].op = p /\ exec'[y].prepared = exec[y].prepared
               /\ exec'[y].ends = exec[y].ends
    <3>1. y = r.by /\ At(y, "sent") /\ exec[y].op = p /\ exec'[y] = Answered(exec[y], reply)
      BY <1>1, <1>2, <2>1 DEF Reached, ExecStep
    <3>2. exec[y] \in Workers
      BY <3>1, AtStage DEF Types, Stages
    <3>. QED
      BY <3>1, <3>2, AnsweredFields DEF At
  <2>. QED
    BY <2>1
<1>6. Standing'
  BY <1>5 DEF Copies, Standing, Stands, At, Before, After
<1>7. \A f \in Operations : Lone(f)
  BY DEF Copies, Whole
<1>8. ASSUME NEW f \in Operations
      PROVE  /\ Clear(f) => Clear(f)'
             /\ Lone(f)'
             /\ InTranscript(f) # {} => InTranscript(f)' # {}
  <2>1. CASE f = e
    BY <1>4, <1>7, <2>1, ServeClient
  <2>2. CASE f # e
    <3>1. /\ InFlight(f)' = InFlight(f) /\ InQueue(f)' = InQueue(f)
          /\ InTranscript(f)' = InTranscript(f)
      BY <1>4, <2>2, ServeElsewhere
    <3>. QED
      BY <1>7, <3>1 DEF Clear, Lone, Arrived
  <2>. QED
    BY <2>1, <2>2
<1>9. ASSUME NEW q \in Operations, Proper(q)'
      PROVE  Right(q)'
  <2>1. CASE q = p
    BY <1>1, <2>1, ServedRight
  <2>2. CASE q # p
    <3>1. Proper(q)
      BY <1>3, <1>9 DEF Proper
    <3>2. PICK f \in Operations : EntryFor(q) = f
      BY <3>1, RowFields DEF Types
    <3>3. SameCalls(q) /\ SameWire(q)
      BY <1>3, <1>5, <2>2 DEF SameCalls, SameWire
    <3>. QED
      BY <1>3, <1>8, <3>1, <3>2, <3>3, JournalStays
  <2>. QED
    BY <2>1, <2>2
<1>10. ASSUME NEW f \in Operations
       PROVE  Whole(f)'
  <2>1. Whole(f)
    BY DEF Copies
  <2>. QED
    BY <1>3, <1>8, <2>1 DEF Whole, J!Exists, Withdrawn, Mutation, Carrier
<1>11. Seen'
  <2>. SUFFICES ASSUME NEW o \in seen, ops[o.op].action = "add", Mutation(o.op) = o.op
                PROVE  Arrived(o.op)'
    BY <1>3 DEF Seen, Mutation
  <2>1. Arrived(o.op) /\ o.op \in Operations /\ Proper(o.op)
    BY DEF Copies, Seen, Types, SeenTypes, Sightings, Ledger, Sighted
  <2>2. PICK f \in Operations : f = o.op
    BY <2>1
  <2>3. CASE f = e
    <3>1. p \in Operations /\ Proper(p) /\ EntryFor(p) = e /\ Right(p)
      BY <1>1, <1>4 DEF Types, WireTypes, Requests, Ledger, Wired, Copies
    <3>2. r.method # "queue/delete"
      <4>1. CASE ops[p].action = "add"
        BY <1>1, <3>1, <4>1 DEF Right, Carrier, Requested, Payload, Payloads
      <4>2. CASE ops[p].action # "add"
        BY <2>2, <2>3, <3>1, <4>2 DEF Right
      <4>. QED
        BY <4>1, <4>2
    <3>3. Arrived(e)'
      BY <1>4, <1>7, <2>1, <2>2, <2>3, <3>2, ServeClient
    <3>. QED
      BY <2>2, <2>3, <3>3
  <2>4. CASE f # e
    <3>1. InQueue(f)' = InQueue(f) /\ InTranscript(f)' = InTranscript(f)
      BY <1>4, <2>4, ServeElsewhere
    <3>2. Arrived(f)'
      BY <2>1, <2>2, <3>1 DEF Arrived
    <3>. QED
      BY <2>2, <3>2
  <2>. QED
    BY <2>3, <2>4
<1>. QED
  BY <1>6, <1>9, <1>10, <1>11 DEF Copies

-----------------------------------------------------------------------------
(* Codex and the host move                                                 *)

LEMMA MovesCopies ==
    ASSUME Types, Ledger, Copies, Dispatch \/ OtherTurn \/ EndTurn \/ LoseHost \/ ReplaceHost
    PROVE  Copies'
<1>1. UNCHANGED <<journal, exec, wire, seen>> /\ ops' = ops /\ entries' = entries
  BY DEF Dispatch, OtherTurn, EndTurn, LoseHost, ReplaceHost, journal
<1>2. RowsKept
  BY <1>1 DEF RowsKept, Proper
<1>3. \A f \in Operations : InFlight(f)' = InFlight(f)
  BY <1>1 DEF InFlight
<1>4. ASSUME NEW f \in Operations
      PROVE  /\ Clear(f) => Clear(f)'
             /\ Lone(f)'
             /\ InTranscript(f) # {} => InTranscript(f)' # {}
             /\ Arrived(f) => Arrived(f)'
  <2>1. Lone(f)
    BY DEF Copies, Whole
  <2>2. CASE Dispatch
    <3>1. PICK item \in queue : /\ queue' = queue \ {item}
                                /\ transcript' = transcript \cup {Delivered(item, active')}
      BY <2>2 DEF Dispatch
    <3>2. CASE item.client = f
      <4>1. ~Clear(f) /\ Lone(f)' /\ InTranscript(f)' # {}
        BY <1>1, <2>1, <3>1, <3>2, TakenAlone
      <4>. QED
        BY <4>1 DEF Arrived
    <3>3. CASE item.client # f
      <4>1. InQueue(f)' = InQueue(f) /\ InTranscript(f)' = InTranscript(f)
        BY <3>1, <3>3 DEF InQueue, InTranscript, Delivered
      <4>. QED
        BY <1>3, <2>1, <4>1 DEF Clear, Lone, Arrived
    <3>. QED
      BY <3>2, <3>3
  <2>3. CASE OtherTurn \/ EndTurn \/ LoseHost \/ ReplaceHost
    <3>1. InQueue(f)' = InQueue(f) /\ InTranscript(f)' = InTranscript(f)
      BY <2>3 DEF OtherTurn, EndTurn, LoseHost, ReplaceHost, InQueue, InTranscript, codex
    <3>. QED
      BY <1>3, <2>1, <3>1 DEF Clear, Lone, Arrived
  <2>. QED
    BY <2>2, <2>3
<1>5. ASSUME NEW q \in Operations, Proper(q)'
      PROVE  Right(q)'
  <2>1. Proper(q)
    BY <1>1, <1>5 DEF Proper
  <2>2. PICK f \in Operations : EntryFor(q) = f
    BY <2>1, RowFields DEF Types
  <2>3. SameCalls(q) /\ SameWire(q)
    BY <1>1 DEF SameCalls, SameWire
  <2>. QED
    BY <1>1, <1>4, <2>1, <2>2, <2>3, JournalStays
<1>6. ASSUME NEW f \in Operations
      PROVE  Whole(f)'
  <2>1. Whole(f)
    BY DEF Copies
  <2>. QED
    BY <1>1, <1>4, <2>1 DEF Whole, J!Exists, Withdrawn, Mutation, Carrier
<1>7. Seen'
  <2>. SUFFICES ASSUME NEW o \in seen, ops[o.op].action = "add", Mutation(o.op) = o.op
                PROVE  Arrived(o.op)'
    BY <1>1 DEF Seen, Mutation
  <2>1. Arrived(o.op) /\ o.op \in Operations
    BY DEF Copies, Seen, Types, SeenTypes, Sightings
  <2>2. PICK f \in Operations : f = o.op
    BY <2>1
  <2>3. Arrived(f)'
    BY <1>4, <2>1, <2>2
  <2>. QED
    BY <2>2, <2>3
<1>8. Standing'
  BY <1>1 DEF Copies, Standing, At
<1>. QED
  BY <1>5, <1>6, <1>7, <1>8 DEF Copies

-----------------------------------------------------------------------------
(* Admission and the seat's withdrawal                                     *)

(* An admitted operation is open, and nobody works for it yet.             *)
LEMMA AdmittedCopies ==
    ASSUME Types, Ledger, Copies, Journaled, RowsKept, NEW op \in Operations,
           NEW action, NEW e \in Operations, RowAdmitted(op, action, e), ~J!Exists(op),
           action = "add" <=> e = op,
           NEW state, NEW sub, EntryStep(e, state, op, sub),
           J!Exists(e) => state = entries[e].state /\ Mutation(e) = None,
           ~J!Exists(e) => e = op /\ state = "admitted",
           state = "withdrawn" => action = "start",
           UNCHANGED <<exec, wire, codex, seen>>
    PROVE  Copies'
<1>1. ASSUME NEW f \in Operations
      PROVE  /\ InFlight(f)' = InFlight(f) /\ InQueue(f)' = InQueue(f)
             /\ InTranscript(f)' = InTranscript(f)
             /\ Clear(f)' <=> Clear(f)
             /\ Arrived(f)' <=> Arrived(f)
  BY DEF InFlight, InQueue, InTranscript, codex, Clear, Arrived
<1>2. Standing'
  BY DEF Copies, Standing, At
<1>3. op # None /\ e # None
  BY Constants
<1>4. /\ entries'[e].mutation = op /\ entries'[e].state = state /\ J!Exists(e)'
      /\ ops'[op].action = action /\ ops'[op].entry = e /\ ops'[op].status = "queued"
      /\ IsRow(ops'[op]) /\ ~Proper(op)
  BY DEF EntryStep, RowAdmitted, Proper
<1>5. ~J!Exists(e) => Clear(e)
  BY DEF Copies, Whole
<1>6. J!Exists(e) => Owed(e, state, None)
  BY WholeOwes
<1>7. (action = "add" \/ state = "withdrawn") => Clear(e)
  <2>1. CASE action = "add"
    BY <1>5, <2>1
  <2>2. CASE state = "withdrawn"
    BY <1>5, <1>6, <2>2 DEF Owed
  <2>. QED
    BY <2>1, <2>2
<1>8. Right(op)'
  <2>1. \A x \in Executors : ~On(x, op)'
    <3>1. ASSUME NEW x \in Executors, On(x, op)'
          PROVE  On(x, op) /\ Op(x) = op
      BY <3>1 DEF On, At, Op
    <3>. QED
      BY <1>4, <3>1, AtWork DEF On, Types
  <2>2. Unsent(op)'
    <3>1. Unsent(op)
      BY <1>4 DEF Unsent, Ledger, Wired
    <3>. QED
      BY <3>1 DEF Unsent
  <2>3. Owned(op)' /\ Steers(op)' /\ Asked(op)' /\ Requested(op)'
    BY <2>1, <2>2 DEF Owned, Prepared, Steers, Asked, Requested, Unsent
  <2>4. Payload(op)' => Clear(e)'
    BY <1>1, <1>4, <1>7 DEF Payload, Withdrawn, EntryFor
  <2>5. Opened(op)'
    BY <1>4, <2>2, <2>4 DEF Opened, EntryFor, Mutation
  <2>6. Fresh(op)'
    BY <1>4, <2>1 DEF Fresh, Withdrawn, EntryFor
  <2>7. ops'[op].action # "add" => entries'[e].mutation # e
    BY <1>4
  <2>. QED
    BY <1>4, <2>3, <2>5, <2>6, <2>7 DEF Right, EntryFor, Mutation
<1>9. ASSUME NEW q \in Operations, Proper(q)', q # op
      PROVE  Right(q)'
  <2>1. Proper(q) /\ ops'[q] = ops[q]
    BY <1>9 DEF RowAdmitted, Proper
  <2>2. PICK f \in Operations : EntryFor(q) = f
    BY <2>1, RowFields DEF Types
  <2>3. J!Exists(f)
    BY <2>1, <2>2, RowFields DEF Types
  <2>4. SameCalls(q) /\ SameWire(q) /\ Standing /\ Right(q)
    BY <2>1 DEF SameCalls, SameWire, Copies
  <2>5. ASSUME Mutation(f) = q
        PROVE  /\ entries'[f].mutation = q
               /\ Clear(f) => Clear(f)'
               /\ Withdrawn(f)' => Withdrawn(f)
               /\ Withdrawn(f) /\ Clear(f) => Withdrawn(f)'
    <3>1. q # None
      BY Constants
    <3>2. f # e
      BY <2>3, <2>5, <3>1
    <3>3. entries'[f] = entries[f]
      BY <3>2 DEF EntryStep
    <3>. QED
      BY <1>1, <2>5, <3>3 DEF Mutation, Withdrawn
  <2>6. ASSUME Mutation(f) # q
        PROVE  entries'[f].mutation # q /\ (entries'[f].mutation = f => Mutation(f) = f)
    <3>1. CASE f = e
      BY <1>4, <1>9, <2>3, <3>1
    <3>2. CASE f # e
      BY <2>6, <3>2 DEF EntryStep, Mutation
    <3>. QED
      BY <3>1, <3>2
  <2>. QED
    BY <2>1, <2>2, <2>4, <2>5, <2>6, Undisturbed
<1>10. ASSUME NEW f \in Operations
       PROVE  Whole(f)'
  <2>1. CASE f # e
    <3>1. entries'[f] = entries[f]
      BY <2>1 DEF EntryStep
    <3>. QED
      BY <1>1, <3>1, EntryStays
  <2>2. CASE f = e
    <3>1. Lone(e)'
      <4>1. Lone(e)
        BY DEF Copies, Whole
      <4>. QED
        BY <1>1, <4>1 DEF Lone
    <3>2. J!Exists(e) \/ state = "admitted"
      OBVIOUS
    <3>3. /\ state \in {"refused", "removed"} => Clear(e)
          /\ state = "delivered" => InTranscript(e) # {}
      BY <1>6, <3>2 DEF Owed
    <3>4. state = "withdrawn" => action # "update"
      OBVIOUS
    <3>. QED
      BY <1>1, <1>3, <1>4, <2>2, <3>1, <3>3, <3>4 DEF Whole, Withdrawn, Mutation, Carrier
  <2>. QED
    BY <2>1, <2>2
<1>11. Seen'
  <2>. SUFFICES ASSUME NEW o \in seen, ops'[o.op].action = "add",
                       entries'[o.op].mutation = o.op
                PROVE  Arrived(o.op)'
    BY DEF Seen, Mutation
  <2>1. o.op \in Operations /\ Proper(o.op)
    BY DEF Types, SeenTypes, Sightings, Ledger, Sighted
  <2>2. ops[o.op].action = "add" /\ o.op # op
    BY <1>4, <2>1 DEF RowsKept
  <2>3. Mutation(o.op) = o.op
    <3>1. o.op # e
      BY <1>4, <2>2
    <3>. QED
      BY <2>1, <3>1 DEF EntryStep, Mutation
  <2>. QED
    BY <1>1, <2>1, <2>2, <2>3 DEF Copies, Seen
<1>. QED
  BY <1>2, <1>8, <1>9, <1>10, <1>11 DEF Copies

LEMMA AdmitCopies ==
    ASSUME Types, Ledger, Copies, NEW op \in Operations, AdmitAdd(op) \/ AdmitControl(op)
    PROVE  Copies'
<1>1. Journaled /\ RowsKept
  BY AdmitTyped DEF Journaled
<1>2. UNCHANGED <<exec, wire, codex, seen>>
  BY DEF AdmitAdd, AdmitControl
<1>3. CASE AdmitAdd(op)
  <2>1. PICK send \in BOOLEAN : J!AdmitAdd(op, send, Thread)
    BY <1>3 DEF AdmitAdd
  <2>2. RowAdmitted(op, "add", op) /\ ~J!Exists(op) /\ EntryStep(op, "admitted", op, None)
    BY <2>1, AdmitAddEffect DEF Types
  <2>3. "admitted" # "withdrawn"
    OBVIOUS
  <2>. QED
    BY <1>1, <1>2, <2>2, <2>3, AdmittedCopies
<1>4. CASE AdmitControl(op)
  <2>1. PICK action \in {"update", "delete", "start", "send-now"}, e \in Operations :
           /\ J!Exists(e)
           /\ J!AdmitControl(op, action, e, Thread, entries[e].revision)
    BY <1>4 DEF AdmitControl
  <2>2. /\ RowAdmitted(op, action, e) /\ ~J!Exists(op)
        /\ Mutation(e) = None
        /\ entries[e].state = "withdrawn" => action = "start"
        /\ EntryStep(e, entries[e].state, op, entries[e].submission)
    BY <2>1, AdmitControlEffect DEF Types
  <2>3. action # "add" /\ e # op
    BY <2>1, <2>2
  <2>. QED
    BY <1>1, <1>2, <2>1, <2>2, <2>3, AdmittedCopies
<1>. QED
  BY <1>3, <1>4

LEMMA WithdrawSeatCopies ==
    ASSUME Types, Ledger, Copies, NEW op \in Operations, WithdrawSeat(op)
    PROVE  Copies'
<1>1. /\ Waiting(op) /\ ops[op].action = "add" /\ EntryFor(op) = op
      /\ RowStep(op, "failed")
      /\ EntryStep(op, "refused", None, entries[op].submission)
  BY WithdrawSeatEffect DEF WithdrawSeat, Types
<1>2. Journaled /\ RowsKept
  BY WithdrawSeatJournaled DEF WithdrawSeat, Types, Journaled
<1>3. UNCHANGED <<exec, wire, codex, seen>>
  BY DEF WithdrawSeat
<1>4. Proper(op) /\ Right(op) /\ Standing /\ J!Exists(op) /\ Mutation(op) = op
  BY <1>1, RowFields DEF Waiting, Copies, Types
<1>5. Right(op)'
  <2>1. ~Waiting(op)'
    BY <1>1 DEF RowStep, Waiting
  <2>2. ASSUME NEW y \in Executors, On(y, op)'
        PROVE  ~exec'[y].prepared /\ exec'[y].pc \notin After /\ ~Holding(exec'[y])
    <3>1. exec'[y] = exec[y] /\ On(y, op)
      BY <1>3, <2>2 DEF On, At, Op
    <3>2. ~exec[y].prepared
      BY <1>1, <1>4, <3>1 DEF Right, Owned, Prepared
    <3>3. Stands(exec[y])
      BY <1>4, <3>1 DEF Standing, On
    <3>. QED
      BY <3>1, <3>2, <3>3 DEF Stands, Holding
  <2>3. entries'[op].mutation = None /\ op # None
    BY <1>1, Constants DEF EntryStep
  <2>4. SameWire(op)
    BY <1>3 DEF SameWire
  <2>. QED
    BY <1>1, <1>2, <1>4, <2>1, <2>2, <2>3, <2>4, Settled DEF After, Unwritten
<1>6. Standing'
  BY <1>3, <1>4 DEF Standing, At
<1>7. Owed(op, "refused", None)
  <2>1. Carrier(op) /\ Payload(op) /\ Open(op)
    BY <1>1 DEF Carrier, Payload, Open
  <2>2. Clear(op)
    BY <1>1, <1>4, <2>1 DEF Right, Opened
  <2>. QED
    BY <2>2 DEF Owed
<1>8. \A q \in Operations \ {op} : SameCalls(q)
  BY <1>3 DEF SameCalls
<1>9. UNCHANGED <<wire, codex>> /\ seen' \subseteq seen
  BY <1>3
<1>10. \A q \in Operations \ {op} : ops'[q] = ops[q]
  BY <1>1 DEF RowStep
<1>. QED
  BY <1>1, <1>2, <1>4, <1>5, <1>6, <1>7, <1>8, <1>9, <1>10, JournalRest

-----------------------------------------------------------------------------
(* Reconciliation                                                          *)

LEMMA PlacesStay ==
    ASSUME UNCHANGED <<wire, codex>>, NEW f
    PROVE  /\ InFlight(f)' = InFlight(f) /\ InQueue(f)' = InQueue(f)
           /\ InTranscript(f)' = InTranscript(f)
           /\ Clear(f)' = Clear(f) /\ Arrived(f)' = Arrived(f)
<1>1. wire' = wire /\ queue' = queue /\ transcript' = transcript
  BY DEF codex
<1>2. /\ InFlight(f)' = InFlight(f) /\ InQueue(f)' = InQueue(f)
      /\ InTranscript(f)' = InTranscript(f)
  BY <1>1 DEF InFlight, InQueue, InTranscript
<1>. QED
  BY <1>2 DEF Clear, Arrived

(* Nobody is about to write a message that has arrived, nor is it written. *)
LEMMA ArrivedIsWritten ==
    ASSUME Types, Ledger, Copies, NEW p \in Operations, Proper(p),
           ops[p].action = "add", Arrived(p)
    PROVE  /\ ~Open(p) /\ Unsent(p)
           /\ \A x \in Executors : On(x, p) =>
                 ~Holding(exec[x]) /\ exec[x].pc \notin Unwritten
<1>1. EntryFor(p) = p /\ Carrier(p) /\ Payload(p) /\ Right(p) /\ Lone(p)
  BY RowFields DEF Types, Carrier, Payload, Copies, Whole
<1>2. ~Open(p)
  BY <1>1 DEF Right, Opened, Clear, Arrived
<1>3. Unsent(p)
  <2>. SUFFICES ASSUME NEW r \in wire, r.op = p
                PROVE  FALSE
    BY DEF Unsent
  <2>1. r.method \in Payloads /\ r.client = p
    BY <1>1 DEF Right, Requested, Ledger, Wired
  <2>2. r \in InFlight(p)
    BY <2>1 DEF InFlight, Payloads
  <2>. QED
    BY <1>1, <2>2 DEF Lone
<1>4. ASSUME NEW x \in Executors, On(x, p)
      PROVE  ~Holding(exec[x]) /\ exec[x].pc \notin Unwritten
  <2>1. ~Holding(exec[x])
    BY <1>2, <1>4 DEF Open, Holds, On
  <2>2. Stands(exec[x])
    BY <1>4 DEF Copies, Standing, On
  <2>. QED
    BY <2>1, <2>2 DEF Stands, Holding, After, Unwritten
<1>. QED
  BY <1>2, <1>3, <1>4

LEMMA ReadQueueCopies ==
    ASSUME Types, Ledger, Copies, ReadQueue
    PROVE  Copies'
<1>1. UNCHANGED <<journal, exec, wire, codex>> /\ ops' = ops /\ entries' = entries
  BY DEF ReadQueue, journal
<1>2. RowsKept
  BY <1>1 DEF RowsKept, Proper
<1>3. ASSUME NEW q \in Operations, Proper(q)'
      PROVE  Right(q)'
  <2>1. Proper(q)
    BY <1>1, <1>3 DEF Proper
  <2>2. PICK f \in Operations : EntryFor(q) = f
    BY <2>1, RowFields DEF Types
  <2>3. SameCalls(q) /\ SameWire(q)
    BY <1>1 DEF SameCalls, SameWire
  <2>4. Clear(f)' = Clear(f)
    BY <1>1, PlacesStay
  <2>. QED
    BY <1>1, <2>1, <2>2, <2>3, <2>4, JournalStays
<1>4. ASSUME NEW f \in Operations
      PROVE  Whole(f)'
  <2>1. /\ InFlight(f)' = InFlight(f) /\ InQueue(f)' = InQueue(f)
        /\ InTranscript(f)' = InTranscript(f)
    BY <1>1, PlacesStay
  <2>. QED
    BY <1>1, <1>2, <2>1, EntryStays
<1>5. Seen'
  <2>. SUFFICES ASSUME NEW o \in seen', ops[o.op].action = "add"
                PROVE  Arrived(o.op)'
    BY <1>1 DEF Seen, Mutation
  <2>1. /\ o.op \in Operations /\ Proper(o.op)
        /\ \E item \in queue : item.client = EntryFor(o.op)
    BY ReadQueueSees
  <2>2. EntryFor(o.op) = o.op
    BY <2>1, RowFields DEF Types
  <2>3. InQueue(o.op) # {}
    BY <2>1, <2>2 DEF InQueue
  <2>4. Arrived(o.op)' = Arrived(o.op)
    BY <1>1, PlacesStay
  <2>. QED
    BY <2>3, <2>4 DEF Arrived
<1>6. Standing'
  BY <1>1 DEF Copies, Standing, At
<1>. QED
  BY <1>3, <1>4, <1>5, <1>6 DEF Copies

(* An add observed in the queue has arrived; an edit carries no copy.      *)
LEMMA RecordQueuedCopies ==
    ASSUME Types, Ledger, Copies, NEW o \in seen, RecordQueued(o)
    PROVE  Copies'
<1>1. PICK p \in Operations, s \in Submissions : p = o.op /\ s = o.sub /\ Proper(p)
  BY DEF Types, SeenTypes, Sightings, Ledger, Sighted
<1>2. UNCHANGED <<exec, wire, codex>> /\ seen' \subseteq seen
  BY DEF RecordQueued
<1>3. Standing' /\ Standing /\ Right(p)
  BY <1>1, <1>2 DEF Copies, Standing, At
<1>4. \A q \in Operations : SameCalls(q) /\ SameWire(q)
  BY <1>2 DEF SameCalls, SameWire
<1>5. CASE J!ObserveQueued(p, s)
  <2>1. Journaled /\ RowsKept
    BY <1>5, AcknowledgeJournaled DEF Types, Journaled
  <2>2. PICK e \in Operations : EntryFor(p) = e /\ J!Exists(e)
    BY <1>1, RowFields DEF Types
  <2>3. /\ Mutation(e) = p /\ ops[p].action \in {"add", "update"}
        /\ RowStep(p, J!AckStatus(p))
        /\ EntryStep(e, Spared(e, "queued"), None, s)
    BY <1>5, <2>2, QueuedEffect DEF Types
  <2>4. p # None /\ entries'[e].mutation = None /\ ops'[p].entry = e
    BY <2>2, <2>3, Constants DEF EntryStep, RowStep, EntryFor
  <2>5. ~Waiting(p)'
    BY <2>4 DEF Waiting, EntryFor, Mutation
  <2>6. ASSUME Carrier(p)
        PROVE  /\ ops[p].action = "add" /\ ~Open(p) /\ Unsent(p)
               /\ \A x \in Executors : On(x, p) =>
                     ~Holding(exec[x]) /\ exec[x].pc \notin Unwritten
    <3>1. ops[p].action = "add"
      BY <2>3, <2>6 DEF Carrier
    <3>2. e = p
      BY <1>1, <2>2, <3>1, RowFields DEF Types
    <3>3. Arrived(p)
      BY <1>1, <2>3, <3>1, <3>2 DEF Copies, Seen
    <3>. QED
      BY <1>1, <3>1, <3>3, ArrivedIsWritten
  <2>7. ASSUME NEW x \in Executors, On(x, p)'
        PROVE  /\ exec'[x].prepared => Prepared(x, p)
               /\ exec'[x].pc # "steering"
               /\ exec'[x] = exec[x] /\ On(x, p)
    <3>1. exec'[x] = exec[x] /\ On(x, p)
      BY <1>2, <2>7 DEF On, At, Op
    <3>2. exec[x].pc # "steering"
      BY <1>3, <2>3, <3>1 DEF Right, Steers, At
    <3>. QED
      BY <3>1, <3>2 DEF Prepared
  <2>8. Right(p)'
    BY <1>1, <1>3, <1>4, <2>1, <2>2, <2>4, <2>5, <2>6, <2>7, Constants, Settled
  <2>9. Owed(e, Spared(e, "queued"), None)
    <3>1. Owed(e, entries[e].state, Mutation(e))
      BY <2>2, WholeOwes
    <3>. QED
      BY <3>1 DEF Owed, Spared
  <2>10. \A q \in Operations \ {p} : ops'[q] = ops[q]
    BY <2>3 DEF RowStep
  <2>11. None \in {p, None}
    OBVIOUS
  <2>. QED
    BY <1>1, <1>2, <1>3, <1>4, <2>1, <2>2, <2>3, <2>8, <2>9, <2>10, <2>11, JournalRest
<1>6. CASE UNCHANGED journal
  <2>1. ops' = ops /\ entries' = entries /\ RowsKept
    BY <1>6 DEF journal, RowsKept, Proper
  <2>2. ASSUME NEW q \in Operations, Proper(q)'
        PROVE  Right(q)'
    <3>1. Proper(q)
      BY <2>1, <2>2 DEF Proper
    <3>2. PICK f \in Operations : EntryFor(q) = f
      BY <3>1, RowFields DEF Types
    <3>3. Clear(f)' = Clear(f)
      BY <1>2, PlacesStay
    <3>. QED
      BY <1>4, <1>6, <3>1, <3>2, <3>3, JournalStays
  <2>3. ASSUME NEW f \in Operations
        PROVE  Whole(f)'
    <3>1. /\ InFlight(f)' = InFlight(f) /\ InQueue(f)' = InQueue(f)
          /\ InTranscript(f)' = InTranscript(f)
      BY <1>2, PlacesStay
    <3>. QED
      BY <2>1, <3>1, EntryStays
  <2>4. Seen'
    <3>. SUFFICES ASSUME NEW q \in seen, ops[q.op].action = "add", Mutation(q.op) = q.op
                  PROVE  Arrived(q.op)'
      BY <1>2, <2>1 DEF Seen, Mutation
    <3>1. Arrived(q.op)
      BY DEF Copies, Seen
    <3>2. Arrived(q.op)' = Arrived(q.op)
      BY <1>2, PlacesStay
    <3>. QED
      BY <3>1, <3>2
  <2>. QED
    BY <1>3, <2>2, <2>3, <2>4 DEF Copies
<1>. QED
  BY <1>1, <1>5, <1>6 DEF RecordQueued

LEMMA RecordRemovedCopies ==
    ASSUME Types, Ledger, Copies, NEW e \in Operations, RecordRemoved(e)
    PROVE  Copies'
<1>1. J!Remove(e) /\ UNCHANGED exec /\ UNCHANGED <<wire, codex, seen>>
  BY DEF RecordRemoved
<1>. QED
  BY <1>1, RemoveCopies

(* A proof settles an add whose message is in the history; a control of the*)
(* message keeps its mutation and can find nothing withdrawn any more.     *)
LEMMA RecordProofCopies ==
    ASSUME Types, Ledger, Copies, NEW item \in transcript, RecordProof(item)
    PROVE  Copies'
<1>1. PICK e \in Operations : e = item.client
  BY DEF Types, CodexTypes, Messaged
<1>2. PICK proof : J!Prove(e, proof) /\ proof \in J!Proof
  <2>1. [revision |-> item.revision, turn |-> item.turn, input |-> item.revision] \in J!Proof
    BY DEF Types, CodexTypes, Messaged, J!Proof
  <2>. QED
    BY <1>1, <2>1 DEF RecordProof
<1>3. UNCHANGED <<exec, wire, codex, seen>>
  BY DEF RecordProof
<1>4. /\ J!Exists(e) /\ EntryFor(e) = e
      /\ RowStep(e, "delivered")
      /\ EntryStep(e, "delivered", IF Mutation(e) = e THEN None ELSE Mutation(e),
                   entries[e].submission)
  BY <1>2, ProveEffect DEF Types
<1>5. Journaled /\ RowsKept
  BY <1>2, ProveJournaled DEF Types, Journaled
<1>6. InTranscript(e) # {} /\ Arrived(e) /\ ~Clear(e)
  BY <1>1 DEF InTranscript, Arrived, Clear
<1>7. /\ Proper(e) /\ ops[e].action = "add" /\ ops'[e].status = "delivered"
      /\ e # None /\ entries'[e].mutation # e /\ entries'[e].state = "delivered"
      /\ Mutation(e) # e => entries'[e].mutation = Mutation(e)
      /\ J!Exists(e)'
  BY <1>4, RowFields, Constants DEF RowStep, EntryStep, Types
<1>8. Right(e) /\ Standing /\ Standing' /\ \A q \in Operations : SameCalls(q) /\ SameWire(q)
  BY <1>3, <1>7 DEF Copies, Standing, At, SameCalls, SameWire
<1>9. Right(e)'
  <2>1. ~Waiting(e)'
    BY <1>7 DEF Waiting
  <2>2. /\ Unsent(e)
        /\ \A x \in Executors : On(x, e) => ~Holding(exec[x]) /\ exec[x].pc \notin Unwritten
    BY <1>6, <1>7, ArrivedIsWritten
  <2>3. ASSUME NEW x \in Executors, On(x, e)'
        PROVE  /\ exec'[x].prepared => Prepared(x, e)
               /\ exec'[x].pc # "steering"
               /\ exec'[x] = exec[x] /\ On(x, e)
    <3>1. exec'[x] = exec[x] /\ On(x, e)
      BY <1>3, <2>3 DEF On, At, Op
    <3>2. exec[x].pc # "steering"
      BY <1>7, <1>8, <3>1 DEF Right, Steers, At
    <3>. QED
      BY <3>1, <3>2 DEF Prepared
  <2>. QED
    BY <1>4, <1>5, <1>7, <1>8, <2>1, <2>2, <2>3, Settled
<1>10. ASSUME NEW q \in Operations, Proper(q)', q # e
       PROVE  Right(q)'
  <2>1. ops'[q] = ops[q] /\ Proper(q) /\ Right(q)
    BY <1>4, <1>10 DEF RowStep, Proper, Copies
  <2>2. PICK f \in Operations : EntryFor(q) = f
    BY <2>1, RowFields DEF Types
  <2>3. Clear(f)' = Clear(f)
    BY <1>3, PlacesStay
  <2>4. CASE f = e
    <3>1. ~Withdrawn(e)'
      BY <1>7 DEF Withdrawn
    <3>2. Mutation(f) = q =>
             /\ ops'[q] = ops[q] /\ entries'[f].mutation = q
             /\ Clear(f) => Clear(f)'
             /\ Withdrawn(f)' => Withdrawn(f)
             /\ Withdrawn(f) /\ Clear(f) => Withdrawn(f)'
      BY <1>6, <1>7, <1>10, <2>1, <2>3, <2>4, <3>1
    <3>3. q # None
      BY Constants
    <3>4. Mutation(f) # q =>
             entries'[f].mutation # q /\ (entries'[f].mutation = f => Mutation(f) = f)
      BY <1>4, <1>7, <2>4, <3>3 DEF EntryStep
    <3>. QED
      BY <1>5, <1>8, <2>1, <2>2, <3>2, <3>4, Undisturbed
  <2>5. CASE f # e
    <3>1. entries'[f] = entries[f]
      BY <1>4, <2>5 DEF EntryStep
    <3>2. Mutation(f) = q =>
             /\ ops'[q] = ops[q] /\ entries'[f].mutation = q
             /\ Clear(f) => Clear(f)'
             /\ Withdrawn(f)' => Withdrawn(f)
             /\ Withdrawn(f) /\ Clear(f) => Withdrawn(f)'
      BY <2>1, <2>3, <3>1 DEF Mutation, Withdrawn
    <3>3. Mutation(f) # q =>
             entries'[f].mutation # q /\ (entries'[f].mutation = f => Mutation(f) = f)
      BY <3>1 DEF Mutation
    <3>. QED
      BY <1>5, <1>8, <2>1, <2>2, <3>2, <3>3, Undisturbed
  <2>. QED
    BY <2>4, <2>5
<1>11. ASSUME NEW f \in Operations
       PROVE  Whole(f)'
  <2>1. /\ InFlight(f)' = InFlight(f) /\ InQueue(f)' = InQueue(f)
        /\ InTranscript(f)' = InTranscript(f)
    BY <1>3, PlacesStay
  <2>2. CASE f = e
    <3>1. Lone(e)
      BY DEF Copies, Whole
    <3>2. Lone(e)' /\ InTranscript(e)' # {}
      BY <1>6, <2>1, <2>2, <3>1 DEF Lone, Arrived
    <3>. QED
      BY <1>7, <2>2, <3>2 DEF Whole, Withdrawn
  <2>3. CASE f # e
    BY <1>4, <1>5, <2>1, <2>3, EntryStays DEF EntryStep
  <2>. QED
    BY <2>2, <2>3
<1>12. Seen'
  <2>. SUFFICES ASSUME NEW o \in seen, ops'[o.op].action = "add", entries'[o.op].mutation = o.op
                PROVE  Arrived(o.op)'
    BY <1>3 DEF Seen, Mutation
  <2>1. o.op \in Operations /\ Proper(o.op)
    BY DEF Types, SeenTypes, Sightings, Ledger, Sighted
  <2>2. ops[o.op].action = "add" /\ Mutation(o.op) = o.op
    BY <1>4, <1>5, <1>7, <2>1 DEF RowsKept, Mutation, EntryStep
  <2>3. Arrived(o.op)
    BY <2>2 DEF Copies, Seen
  <2>4. Arrived(o.op)' = Arrived(o.op)
    BY <1>3, PlacesStay
  <2>. QED
    BY <2>3, <2>4
<1>. QED
  BY <1>8, <1>9, <1>10, <1>11, <1>12 DEF Copies

-----------------------------------------------------------------------------
(* One copy: the whole system                                              *)

LEMMA CopiesStart ==
    ASSUME Init
    PROVE  Copies
<1>1. \A op \in Operations : ~Proper(op)
  BY DEF Init, J!Init, Proper, IsRow
<1>2. \A e \in Operations : ~J!Exists(e)
  BY DEF Init, J!Init, J!Exists
<1>3. \A x \in Executors : At(x, "idle")
  BY DEF Init, At, Idle
<1>4. \A e \in Operations : Clear(e) /\ Lone(e)
  BY DEF Init, Clear, Lone, Arrived, InFlight, InQueue, InTranscript
<1>5. Seen
  BY DEF Init, Seen
<1>. QED
  BY <1>1, <1>2, <1>3, <1>4, <1>5 DEF Copies, Whole, Standing

LEMMA IdleCopies ==
    ASSUME Types, Copies, UNCHANGED vars
    PROVE  Copies'
<1>1. /\ UNCHANGED <<journal, exec, wire, codex, seen>>
      /\ ops' = ops /\ entries' = entries /\ UNCHANGED <<queue, transcript>>
  BY DEF vars, journal, codex
<1>2. RowsKept
  BY <1>1 DEF RowsKept, Proper
<1>3. ASSUME NEW q \in Operations, Proper(q)'
      PROVE  Right(q)'
  <2>1. Proper(q)
    BY <1>1, <1>3 DEF Proper
  <2>2. PICK f \in Operations : EntryFor(q) = f
    BY <2>1, RowFields DEF Types
  <2>3. SameCalls(q) /\ SameWire(q) /\ Clear(f)' = Clear(f)
    BY <1>1, PlacesStay DEF SameCalls, SameWire
  <2>. QED
    BY <1>1, <2>1, <2>2, <2>3, JournalStays
<1>4. ASSUME NEW f \in Operations
      PROVE  Whole(f)'
  <2>1. /\ InFlight(f)' = InFlight(f) /\ InQueue(f)' = InQueue(f)
        /\ InTranscript(f)' = InTranscript(f)
    BY <1>1, PlacesStay
  <2>. QED
    BY <1>1, <1>2, <2>1, EntryStays
<1>5. Seen' /\ Standing'
  BY <1>1, SeenStays DEF Copies, Standing, At
<1>. QED
  BY <1>3, <1>4, <1>5 DEF Copies

LEMMA CopiesStep ==
    ASSUME Types, Aimed, Ledger, Copies, [Next]_vars, ~RivalRefusal
    PROVE  Copies'
<1>1. CASE \/ \E op \in Messages : AdmitAdd(op)
           \/ \E op \in Operations \ Messages : AdmitControl(op)
           \/ \E op \in Operations : WithdrawSeat(op)
  <2>1. PICK op \in Operations : AdmitAdd(op) \/ AdmitControl(op) \/ WithdrawSeat(op)
    BY <1>1 DEF NativeQueueAssumption
  <2>. QED
    BY <2>1, AdmitCopies, WithdrawSeatCopies
<1>2. CASE \E x \in Executors : Execute(x)
  BY <1>2, ExecuteCopies
<1>3. CASE \E r \in wire : Serve(r)
  BY <1>3, ServeCopies
<1>4. CASE Dispatch \/ OtherTurn \/ EndTurn \/ LoseHost \/ ReplaceHost
  BY <1>4, MovesCopies
<1>5. CASE ReadQueue
  BY <1>5, ReadQueueCopies
<1>6. CASE \/ \E o \in seen : RecordQueued(o)
           \/ \E e \in Operations : RecordRemoved(e)
           \/ \E item \in transcript : RecordProof(item)
  BY <1>6, RecordQueuedCopies, RecordRemovedCopies, RecordProofCopies
<1>7. CASE UNCHANGED vars
  BY <1>7, IdleCopies
<1>. QED
  BY <1>1, <1>2, <1>3, <1>4, <1>5, <1>6, <1>7 DEF Next

(* A refusal ends the call that makes it.                                  *)
LEMMA RefusalMoves ==
    ASSUME RivalRefusal
    PROVE  ~UNCHANGED vars
<1>1. PICK x \in Executors : exec[x].pc # "idle" /\ exec'[x] = Idle
  BY DEF RivalRefusal, At
<1>2. Idle.pc = "idle"
  BY DEF Idle
<1>. QED
  BY <1>1, <1>2 DEF vars

LEMMA PreparedStep ==
    ASSUME [Next /\ ~RivalRefusal]_vars
    PROVE  [Next]_vars /\ ~RivalRefusal
BY RefusalMoves

LEMMA CopiesHold == PreparedSpec => [](Types /\ Aimed /\ Ledger /\ Copies)
<1>1. Init => Types /\ Aimed /\ Ledger /\ Copies
  BY TypesStart, LedgerStart, CopiesStart
<1>2. ASSUME Types, Aimed, Ledger, Copies, [Next /\ ~RivalRefusal]_vars
      PROVE  Types' /\ Aimed' /\ Ledger' /\ Copies'
  BY <1>2, PreparedStep, TypesStep, LedgerStep, CopiesStep
<1>. QED
  BY <1>1, <1>2, PTL DEF PreparedSpec

LEMMA AtMostOne ==
    ASSUME NEW S, \A s, t \in S : s = t
    PROVE  Cardinality(S) \in {0, 1} /\ (Cardinality(S) = 1 <=> S # {})
<1>1. CASE S = {}
  BY <1>1, FS_EmptySet
<1>2. CASE S # {}
  <2>1. PICK s : S = {s}
    BY <1>2
  <2>. QED
    BY <2>1, FS_Singleton
<1>. QED
  BY <1>1, <1>2

LEMMA CopiesImply ==
    ASSUME Copies
    PROVE  OneCopy /\ RefusedLeavesNoCopy
<1>1. ASSUME NEW e \in Operations
      PROVE  Cardinality(InFlight(e)) + Cardinality(InQueue(e)) + Cardinality(InTranscript(e)) <= 1
  <2>1. Lone(e)
    BY DEF Copies, Whole
  <2>2. /\ \A r, s \in InFlight(e) : r = s
        /\ \A i, j \in InQueue(e) : i = j
        /\ \A i, j \in InTranscript(e) : i = j
        /\ InFlight(e) # {} => InQueue(e) = {} /\ InTranscript(e) = {}
        /\ InQueue(e) # {} => InTranscript(e) = {}
    BY <2>1 DEF Lone, Arrived
  <2>. DEFINE a == Cardinality(InFlight(e))
              b == Cardinality(InQueue(e))
              c == Cardinality(InTranscript(e))
  <2>3. a \in {0, 1} /\ (a = 1 <=> InFlight(e) # {})
    BY <2>2, AtMostOne
  <2>4. b \in {0, 1} /\ (b = 1 <=> InQueue(e) # {})
    BY <2>2, AtMostOne
  <2>5. c \in {0, 1} /\ (c = 1 <=> InTranscript(e) # {})
    BY <2>2, AtMostOne
  <2>6. a + b + c <= 1
    <3>. HIDE DEF a, b, c
    <3>1. (a = 1 => b = 0 /\ c = 0) /\ (b = 1 => c = 0)
      BY <2>2, <2>3, <2>4, <2>5
    <3>. QED
      BY <2>3, <2>4, <2>5, <3>1
  <2>. QED
    BY <2>6
<1>2. RefusedLeavesNoCopy
  BY DEF Copies, Whole, Clear, Withdrawn, Mutation, RefusedLeavesNoCopy
<1>. QED
  BY <1>1, <1>2 DEF OneCopy

(* However many executors carry however many operations of a message, with *)
(* lost replies, crashes, withdrawals before a steer and reconciliation    *)
(* between any two of their steps: as long as no call refuses an operation *)
(* that another call has prepared and not settled, Codex never has a       *)
(* message twice.                                                          *)
THEOREM PreparedOneCopy == PreparedSpec => []OneCopy
BY CopiesHold, CopiesImply, PTL

(* Under the same condition a message the journal calls refused, removed or*)
(* withdrawn and open for another start is nowhere in Codex's hands.       *)
THEOREM PreparedLeavesNoCopy == PreparedSpec => []RefusedLeavesNoCopy
BY CopiesHold, CopiesImply, PTL

-----------------------------------------------------------------------------
(* One executor at a time                                                  *)

(* What a call is at work on and did not prepare, nobody has prepared.     *)
Alone ==
    \A x \in Executors : ~At(x, "idle") /\ ~At(x, "caught") /\ ~exec[x].prepared
                            => ops[Op(x)].status # "delivering"

(* A row that does not become "delivering".                                *)
LEMMA AloneRest ==
    ASSUME Types, Alone, UNCHANGED exec,
           \A q \in Operations : Proper(q) /\ ops'[q].status = "delivering"
                                    => ops[q].status = "delivering"
    PROVE  Alone'
<1>. SUFFICES ASSUME NEW x \in Executors, ~At(x, "idle"), ~At(x, "caught"), ~exec[x].prepared,
                     ops'[Op(x)].status = "delivering"
              PROVE  FALSE
  BY DEF Alone, At, Op
<1>1. Op(x) \in Operations /\ Proper(Op(x))
  BY AtWork DEF Types
<1>. QED
  BY <1>1 DEF Alone

(* A call that goes on unprepared leaves the journal as it is.             *)
LEMMA AloneExecute ==
    ASSUME Types, Standing, Alone, NEW x \in Executors, \A y \in Executors : y = x, Execute(x)
    PROVE  Alone'
<1>. DEFINE Kept == \/ exec'[x].pc \in {"idle", "caught"}
                    \/ exec'[x].prepared
                    \/ ops'[exec'[x].op].status # "delivering"
<1>0. SUFFICES Kept
  BY DEF Alone, At, Op
<1>1. ASSUME NEW v, exec' = [exec EXCEPT ![x] = v], v = Idle \/ v.pc = "caught" \/ v.prepared
      PROVE  Kept
  <2>1. exec'[x] = v /\ Idle.pc = "idle"
    BY <1>1, Stepped DEF ExecStep, Idle
  <2>. QED
    BY <1>1, <2>1
<1>2. ASSUME ~At(x, "idle"), ~At(x, "caught"), UNCHANGED ops, NEW v,
             exec' = [exec EXCEPT ![x] = v], v.op = Op(x), v.prepared = exec[x].prepared
      PROVE  Kept
  <2>1. exec'[x] = v
    BY <1>2, Stepped DEF ExecStep
  <2>. QED
    BY <1>2, <2>1 DEF Alone
<1>3. ASSUME NEW pc \in Stages, Move(x, pc), ~At(x, "idle"),
             exec[x].prepared \/ (~At(x, "caught") /\ UNCHANGED ops)
      PROVE  Kept
  <2>1. /\ exec[x] \in Workers
        /\ exec' = [exec EXCEPT ![x] = Moved(exec[x], pc)]
    BY <1>3, AtWork DEF Types, Move, Moved
  <2>2. /\ Moved(exec[x], pc).op = Op(x)
        /\ Moved(exec[x], pc).prepared = exec[x].prepared
    BY <2>1, MovedFields DEF Op
  <2>. HIDE DEF Moved
  <2>. QED
    BY <1>1, <1>2, <1>3, <2>1, <2>2
<1>4. ASSUME Stop(x)
      PROVE  Kept
  BY <1>1, <1>4 DEF Stop
<1>5. ASSUME NEW ends \in {"failed", "uncertain"}, Throw(x, ends), ~At(x, "idle")
      PROVE  Kept
  <2>1. exec[x] \in Workers /\ exec' = [exec EXCEPT ![x] = Thrown(exec[x], ends)]
    BY <1>5, AtWork DEF Types, Throw, Thrown
  <2>2. Thrown(exec[x], ends).pc = "caught"
    BY <2>1, ThrownFields
  <2>. QED
    BY <1>1, <2>1, <2>2
<1>6. ASSUME NEW op \in Operations, Pick(x, op)
      PROVE  Kept
  <2>1. exec' = [exec EXCEPT ![x] = Working(op)] /\ ops' = ops /\ ops[op].status = "queued"
    BY <1>6 DEF Pick, journal
  <2>2. exec'[x] = Working(op)
    BY <2>1, Stepped DEF ExecStep
  <2>3. Working(op).op = op
    BY DEF Working
  <2>. QED
    BY <2>1, <2>2, <2>3
<1>7. ~At(x, "idle") => exec[x] \in Workers /\ Stands(exec[x])
  BY AtWork DEF Types, Standing
<1>8. CASE Terminate(x) \/ FenceSettled(x) \/ Postpone(x)
  BY <1>3, <1>8 DEF Terminate, FenceSettled, Postpone, At, Stages, journal
<1>9. CASE \/ HealthRefuses(x) \/ HealthWaits(x) \/ FenceUnreadable(x) \/ RefuseFenced(x)
           \/ RefuseNow(x) \/ Unauthorized(x) \/ LoseReply(x)
           \/ ReceiveRefusal(x) \/ End(x) \/ Crash(x)
  BY <1>4, <1>5, <1>9 DEF HealthRefuses, HealthWaits, FenceUnreadable, RefuseFenced, RefuseNow,
                          Unauthorized, LoseReply, ReceiveRefusal, End, Crash, At
<1>10. CASE ReadEntry(x)
  <2>. DEFINE v == Informed(exec[x], IF host = 0 THEN "refusing" ELSE "read",
                            entries[EntryOf(x)].submission,
                            entries[EntryOf(x)].state = "withdrawn",
                            entries[EntryOf(x)].revision, host)
  <2>1. /\ At(x, "known") /\ ~At(x, "idle") /\ ~At(x, "caught") /\ UNCHANGED ops
        /\ Stop(x) \/ exec' = [exec EXCEPT ![x] = v]
    BY <1>10 DEF ReadEntry, Informed, At, journal
  <2>2. v.op = Op(x) /\ v.prepared = exec[x].prepared
    BY <1>7, <2>1 DEF Informed, Workers, Op
  <2>. HIDE DEF v
  <2>. QED
    BY <1>2, <1>4, <2>1, <2>2
<1>11. CASE HealthAllows(x)
  <2>1. /\ ~At(x, "idle") /\ ~At(x, "caught") /\ UNCHANGED ops
        /\ exec' = [exec EXCEPT ![x] = Readied(exec[x], active = None)]
    BY <1>11 DEF HealthAllows, Readied, At, journal
  <2>2. (active = None) \in BOOLEAN
    OBVIOUS
  <2>3. /\ Readied(exec[x], active = None).op = Op(x)
        /\ Readied(exec[x], active = None).prepared = exec[x].prepared
    BY <1>7, <2>1, <2>2, ReadiedFields DEF Op
  <2>. HIDE DEF Readied
  <2>. QED
    BY <1>2, <2>1, <2>3
<1>12. CASE Prepare(x)
  <2>1. /\ ~At(x, "idle")
        /\ exec' = [exec EXCEPT ![x] = Swapped(exec[x])] \/ Throw(x, "failed")
    BY <1>12 DEF Prepare, Swapped, At
  <2>2. Swapped(exec[x]).prepared
    BY <1>7, <2>1, SwappedFields
  <2>. HIDE DEF Swapped
  <2>. QED
    BY <1>1, <1>5, <2>1, <2>2
<1>13. ASSUME NEW method \in Methods, Send(x, method), At(x, "prepared") \/ At(x, "steering")
       PROVE  Kept
  <2>1. ~At(x, "idle") /\ exec[x].prepared
    BY <1>7, <1>13 DEF At, Stands, After
  <2>2. exec' = [exec EXCEPT ![x] = Asking(exec[x], method)]
    BY <1>13 DEF Send, Asking
  <2>3. Asking(exec[x], method).prepared
    BY <1>7, <2>1, AskingFields
  <2>. HIDE DEF Asking
  <2>. QED
    BY <1>1, <2>2, <2>3
<1>14. CASE Actuate(x)
  <2>1. PICK guarded \in BOOLEAN : \/ Send(x, MethodFor(x, guarded))
                                   \/ Throw(x, "failed")
    BY <1>14 DEF Actuate
  <2>2. MethodFor(x, guarded) \in Methods /\ At(x, "prepared") /\ ~At(x, "idle")
    BY <1>14, MethodTyped DEF Actuate, At
  <2>. QED
    BY <1>5, <1>13, <2>1, <2>2
<1>15. CASE Steer(x)
  BY <1>5, <1>13, <1>15 DEF Steer, At, Methods
<1>16. CASE ReceiveReply(x) \/ RemoveEntry(x) \/ ReceiveWithdrawal(x)
  <2>1. /\ ~At(x, "idle") /\ exec[x].prepared
    BY <1>7, <1>16 DEF ReceiveReply, RemoveEntry, ReceiveWithdrawal, At, Stands, After
  <2>2. Stop(x) \/ Move(x, "removing") \/ Move(x, "steering") \/ Throw(x, "uncertain")
    BY <1>16 DEF ReceiveReply, RemoveEntry, ReceiveWithdrawal
  <2>. QED
    BY <1>3, <1>4, <1>5, <2>1, <2>2 DEF Stages
<1>17. CASE CatchStatus(x)
  <2>1. /\ At(x, "caught") /\ ~At(x, "idle") /\ UNCHANGED ops
        /\ \/ Stop(x)
           \/ Move(x, "checked") /\ (ops[Op(x)].status # "delivering" \/ exec[x].prepared)
    BY <1>17 DEF CatchStatus, At, journal
  <2>2. CASE Move(x, "checked") /\ ~exec[x].prepared /\ ops[Op(x)].status # "delivering"
    <3>1. exec' = [exec EXCEPT ![x] = Moved(exec[x], "checked")]
      BY <2>2 DEF Move, Moved
    <3>2. Moved(exec[x], "checked").op = Op(x)
      BY <1>7, <2>1, MovedFields DEF Stages, Op
    <3>3. exec'[x] = Moved(exec[x], "checked")
      BY <3>1, Stepped DEF ExecStep
    <3>. QED
      BY <2>1, <2>2, <3>2, <3>3
  <2>. QED
    BY <1>3, <1>4, <2>1, <2>2 DEF Stages
<1>18. CASE CatchDeferred(x) \/ CatchEntry(x)
  <2>1. /\ ~At(x, "idle") /\ ~At(x, "caught") /\ UNCHANGED ops
        /\ Stop(x) \/ Move(x, "checked") \/ Move(x, "ending")
    BY <1>18 DEF CatchDeferred, CatchEntry, At, journal
  <2>. QED
    BY <1>3, <1>4, <2>1 DEF Stages
<1>19. CASE Defer(x)
  <2>1. ~At(x, "idle")
    BY <1>19 DEF Defer, At
  <2>2. CASE Stop(x) \/ Throw(x, "failed")
    BY <1>4, <1>5, <2>1, <2>2
  <2>3. CASE J!Defer(Op(x)) /\ exec' = [exec EXCEPT ![x] = Unprepared(exec[x])]
    <3>1. Op(x) \in Operations /\ exec[x] \in Workers
      BY <2>1, AtWork DEF Types
    <3>2. RowStep(Op(x), "queued")
      BY <2>3, <3>1, DeferEffect DEF Types
    <3>3. Unprepared(exec[x]).op = Op(x) /\ exec'[x] = Unprepared(exec[x])
      BY <2>3, <3>1, UnpreparedFields, Stepped DEF ExecStep, Op
    <3>. QED
      BY <3>2, <3>3 DEF RowStep
  <2>. QED
    BY <1>19, <2>2, <2>3 DEF Defer, Unprepared
<1>. QED
  BY <1>6, <1>8, <1>9, <1>10, <1>11, <1>12, <1>14, <1>15, <1>16, <1>17, <1>18, <1>19 DEF Execute

LEMMA AloneStep ==
    ASSUME Types, Aimed, Ledger, Copies, Alone, [Next]_vars,
           \A x, y \in Executors : x = y
    PROVE  Alone'
<1>1. ASSUME UNCHANGED exec, NEW p \in Operations, NEW status, RowStep(p, status),
             status # "delivering"
      PROVE  Alone'
  BY <1>1, AloneRest DEF RowStep
<1>2. CASE \E x \in Executors : Execute(x)
  BY <1>2, AloneExecute DEF Copies
<1>3. CASE \E r \in wire : Serve(r)
  <2>1. PICK r \in wire : Serve(r)
    BY <1>3
  <2>2. ops' = ops
    BY <2>1 DEF Serve, journal
  <2>3. PICK reply \in Replies : Reached(r, reply)
    BY <2>1, ServeTyped
  <2>4. CASE UNCHANGED exec
    BY <2>2, <2>4, AloneRest
  <2>5. CASE r.by \in Executors /\ At(r.by, "sent") /\ ExecStep(r.by, Answered(exec[r.by], reply))
    <3>1. exec[r.by] \in Workers /\ ~At(r.by, "idle") /\ exec[r.by].prepared
      BY <2>5, AtWork DEF At, Types, Copies, Standing, Stands, After
    <3>2. exec'[r.by].prepared
      BY <2>5, <3>1, AnsweredFields DEF ExecStep
    <3>. QED
      BY <2>5, <3>2 DEF Alone
  <2>. QED
    BY <2>3, <2>4, <2>5 DEF Reached
<1>4. CASE \/ Dispatch \/ OtherTurn \/ EndTurn \/ LoseHost \/ ReplaceHost \/ ReadQueue
           \/ UNCHANGED vars
  <2>1. UNCHANGED exec /\ ops' = ops
    BY <1>4 DEF Dispatch, OtherTurn, EndTurn, LoseHost, ReplaceHost, ReadQueue, vars, journal
  <2>. QED
    BY <2>1, AloneRest
<1>5. CASE \/ \E op \in Messages : AdmitAdd(op)
           \/ \E op \in Operations \ Messages : AdmitControl(op)
  <2>1. PICK p \in Operations : AdmitAdd(p) \/ AdmitControl(p)
    BY <1>5 DEF NativeQueueAssumption
  <2>2. UNCHANGED exec
    BY <2>1 DEF AdmitAdd, AdmitControl
  <2>3. \E action, e : RowAdmitted(p, action, e)
    <3>1. CASE AdmitAdd(p)
      BY <3>1, AdmitAddEffect DEF AdmitAdd, Types
    <3>2. CASE AdmitControl(p)
      BY <3>2, AdmitControlEffect DEF AdmitControl, Types
    <3>. QED
      BY <2>1, <3>1, <3>2
  <2>. QED
    BY <2>2, <2>3, AloneRest DEF RowAdmitted
<1>6. CASE \E op \in Operations : WithdrawSeat(op)
  <2>1. PICK op \in Operations : WithdrawSeat(op)
    BY <1>6
  <2>2. RowStep(op, "failed") /\ UNCHANGED exec
    BY <2>1, WithdrawSeatEffect DEF WithdrawSeat, Types
  <2>. QED
    BY <1>1, <2>2
<1>7. CASE \E o \in seen : RecordQueued(o)
  <2>1. PICK o \in seen : RecordQueued(o)
    BY <1>7
  <2>2. o.op \in Operations /\ o.sub \in Submissions /\ Proper(o.op)
    BY DEF Types, SeenTypes, Sightings, Ledger, Sighted
  <2>3. UNCHANGED exec /\ (ops' = ops \/ J!ObserveQueued(o.op, o.sub))
    BY <2>1 DEF RecordQueued, journal
  <2>4. CASE ops' = ops
    BY <2>3, <2>4, AloneRest
  <2>5. CASE J!ObserveQueued(o.op, o.sub)
    <3>1. RowStep(o.op, J!AckStatus(o.op)) /\ J!AckStatus(o.op) # "delivering"
      BY <2>2, <2>5, QueuedEffect, StatusFacts DEF Types
    <3>. QED
      BY <1>1, <2>2, <2>3, <3>1
  <2>. QED
    BY <2>3, <2>4, <2>5
<1>8. CASE \E e \in Operations : RecordRemoved(e)
  <2>1. PICK e \in Operations : RecordRemoved(e)
    BY <1>8
  <2>2. RowStep(e, "failed") /\ UNCHANGED exec
    BY <2>1, RemoveEffect DEF RecordRemoved, Types
  <2>. QED
    BY <1>1, <2>2
<1>9. CASE \E item \in transcript : RecordProof(item)
  <2>1. PICK item \in transcript : RecordProof(item)
    BY <1>9
  <2>2. item.client \in Operations
    BY DEF Types, CodexTypes, Messaged
  <2>3. RowStep(item.client, "delivered") /\ UNCHANGED exec
    BY <2>1, <2>2, ProveEffect DEF RecordProof, Types
  <2>. QED
    BY <1>1, <2>2, <2>3
<1>. QED
  BY <1>2, <1>3, <1>4, <1>5, <1>6, <1>7, <1>8, <1>9 DEF Next

LEMMA AloneRefusesNothing ==
    ASSUME Types, Alone, [Next]_vars, \A x, y \in Executors : x = y
    PROVE  ~RivalRefusal
<1>. SUFFICES ASSUME RivalRefusal PROVE FALSE
  OBVIOUS
<1>1. PICK x \in Executors : /\ ~At(x, "idle") /\ ~exec[x].prepared
                             /\ ops[Op(x)].status = "delivering"
                             /\ ops'[Op(x)].status = "failed"
                             /\ exec'[x] = Idle
  BY DEF RivalRefusal
<1>2. At(x, "caught") /\ ops' # ops /\ exec' # exec
  BY <1>1 DEF Alone, At, Idle
<1>3. ~UNCHANGED vars /\ ~\E r \in wire : Serve(r)
  BY <1>2 DEF vars, Serve, journal
<1>4. Execute(x)
  BY <1>1, <1>2, <1>3 DEF Next, AdmitAdd, AdmitControl, WithdrawSeat, Dispatch, OtherTurn,
                          EndTurn, LoseHost, ReplaceHost, ReadQueue, RecordQueued,
                          RecordRemoved, RecordProof
<1>5. ops' = ops
  BY <1>2, <1>4 DEF Execute, Pick, Terminate, ReadEntry, HealthRefuses, HealthWaits,
        HealthAllows, FenceUnreadable, FenceSettled, RefuseFenced, RefuseNow, Prepare,
        Unauthorized, Postpone, Defer, Actuate, LoseReply, ReceiveRefusal, ReceiveReply,
        RemoveEntry, ReceiveWithdrawal, Steer, CatchStatus, CatchDeferred, CatchEntry, End, Crash, At, journal
<1>. QED
  BY <1>2, <1>5

-----------------------------------------------------------------------------
(* The sender's view                                                       *)

custodies == [e \in Operations |-> CustodyOf(e)]

Passages ==
    {<<"absent", "journal">>, <<"journal", "codex">>, <<"codex", "journal">>,
     <<"codex", "history">>, <<"history", "proven">>, <<"journal", "ended">>}

Passes(e) == CustodyOf(e)' = CustodyOf(e) \/ <<CustodyOf(e), CustodyOf(e)'>> \in Passages

LEMMA PassesNext ==
    ASSUME NEW e \in Operations, Passes(e),
           \A f \in Operations \ {e} : CustodyOf(f)' = CustodyOf(f)
    PROVE  [Custody!Next]_custodies
<1>1. custodies' = [custodies EXCEPT ![e] = CustodyOf(e)']
  BY DEF custodies
<1>2. custodies[e] = CustodyOf(e)
  BY DEF custodies
<1>3. CASE CustodyOf(e)' = CustodyOf(e)
  BY <1>3 DEF custodies
<1>4. CASE <<CustodyOf(e), CustodyOf(e)'>> \in Passages
  BY <1>1, <1>2, <1>4
     DEF Passages, custodies, Custody!Next, Custody!Goes, Custody!Admit, Custody!HandOver,
         Custody!TakeBack, Custody!Show, Custody!Prove, Custody!End
<1>. QED
  BY <1>3, <1>4 DEF Passes

(* A step that moves copies of one message and leaves the journal alone.   *)
LEMMA PlacesPass ==
    ASSUME entries' = entries, NEW e \in Operations,
           InTranscript(e) # {} => InTranscript(e)' # {},
           InTranscript(e) = {} /\ InTranscript(e)' # {} => InFlight(e) \cup InQueue(e) # {}
    PROVE  Passes(e)
<1>1. J!Exists(e)' <=> J!Exists(e)
  BY DEF J!Exists
<1>. QED
  BY <1>1 DEF Passes, Passages, CustodyOf

(* A step that changes one entry.  What has ended or is proven stays so.   *)
EntryMoves(e) ==
    /\ \A f \in Operations \ {e} : entries'[f] = entries[f]
    /\ J!Exists(e)'
    /\ J!Exists(e) /\ entries[e].state \in {"refused", "removed", "delivered"}
          => entries'[e].state = entries[e].state
    /\ ~J!Exists(e) => entries'[e].state = "admitted"

LEMMA EntryPasses ==
    ASSUME Copies, Copies', UNCHANGED <<wire, codex>>, NEW e \in Operations, EntryMoves(e)
    PROVE  [Custody!Next]_custodies
<1>1. /\ InFlight(e)' = InFlight(e) /\ InQueue(e)' = InQueue(e)
      /\ InTranscript(e)' = InTranscript(e)
      /\ Clear(e)' = Clear(e)
  BY PlacesStay
<1>2. ASSUME NEW f \in Operations \ {e}
      PROVE  CustodyOf(f)' = CustodyOf(f)
  <2>1. /\ InFlight(f)' = InFlight(f) /\ InQueue(f)' = InQueue(f)
        /\ InTranscript(f)' = InTranscript(f)
    BY PlacesStay
  <2>2. entries'[f] = entries[f] /\ (J!Exists(f)' <=> J!Exists(f))
    BY DEF EntryMoves, J!Exists
  <2>. QED
    BY <2>1, <2>2 DEF CustodyOf
<1>3. /\ Whole(e)
      /\ Whole(e)'
  BY DEF Copies
<1>4. CASE ~J!Exists(e)
  <2>1. Clear(e) /\ Clear(e)'
    BY <1>1, <1>3, <1>4 DEF Whole
  <2>2. CustodyOf(e) = "absent"
    BY <1>4 DEF CustodyOf
  <2>3. CustodyOf(e)' = "journal"
    BY <1>4, <2>1 DEF EntryMoves, CustodyOf, Clear
  <2>. QED
    BY <1>2, <2>2, <2>3, PassesNext DEF Passes, Passages
<1>5. CASE J!Exists(e)
  <2>1. /\ entries'[e].state \in {"refused", "removed"} => Clear(e)
        /\ entries'[e].state = "delivered" => InTranscript(e) # {}
    BY <1>1, <1>3 DEF Whole, EntryMoves
  <2>2. Passes(e)
    <3>1. CASE entries[e].state \in {"refused", "removed", "delivered"}
      BY <1>5, <3>1 DEF Passes, EntryMoves, CustodyOf
    <3>2. CASE entries[e].state \notin {"refused", "removed", "delivered"}
      <4>1. CASE entries'[e].state \in {"refused", "removed"}
        BY <1>5, <2>1, <3>2, <4>1 DEF EntryMoves, CustodyOf, Passes, Passages, Clear
      <4>2. CASE entries'[e].state = "delivered"
        BY <1>5, <2>1, <3>2, <4>2 DEF EntryMoves, CustodyOf, Passes, Passages
      <4>3. CASE entries'[e].state \notin {"refused", "removed", "delivered"}
        BY <1>1, <1>5, <3>2, <4>3 DEF EntryMoves, CustodyOf, Passes
      <4>. QED
        BY <4>1, <4>2, <4>3
    <3>. QED
      BY <3>1, <3>2
  <2>. QED
    BY <1>2, <2>2, PassesNext
<1>. QED
  BY <1>4, <1>5

(* No transition reopens a message that has ended or is proven.            *)
LEMMA OwnedMoves ==
    ASSUME Types, NEW op \in Operations, NEW e \in Operations, EntryFor(op) = e,
           J!Exists(e), Mutation(e) = op, NEW state, NEW mutation, NEW sub,
           EntryStep(e, state, mutation, sub),
           entries[e].state = "delivered" => state = "delivered"
    PROVE  EntryMoves(e)
<1>1. entries[e].state \notin {"refused", "removed"}
  BY EntryFields, Constants DEF Types
<1>. QED
  BY <1>1 DEF EntryMoves, EntryStep

LEMMA ExecuteMoves ==
    ASSUME Types, NEW x \in Executors, Execute(x)
    PROVE  entries' = entries \/ \E e \in Operations : EntryMoves(e)
<1>1. CASE UNCHANGED journal
  BY <1>1 DEF journal
<1>2. ASSUME ~At(x, "idle")
      PROVE  Op(x) \in Operations /\ Proper(Op(x))
  BY <1>2, AtWork DEF Types
<1>3. ASSUME ~At(x, "idle"), NEW p, p = Op(x),
             \/ J!Prepare(p, exec[x].revision, Thread)
             \/ J!Refuse(p) \/ J!Defer(p) \/ J!Remove(EntryFor(p))
             \/ J!MarkUncertain(p) \/ J!MarkWithdrawn(p)
             \/ /\ exec[x].reply # None /\ exec[x].reply \in Replies
                /\ exec[x].reply.kind = "queued"
                /\ J!AcknowledgeQueued(p, exec[x].reply.sub)
             \/ \E turn \in Turns : J!AcknowledgeDispatched(p, turn)
             \/ \E deleted \in BOOLEAN : J!AcknowledgeDeleted(p, deleted)
      PROVE  entries' = entries \/ \E e \in Operations : EntryMoves(e)
  <2>1. p \in Operations /\ Proper(p)
    BY <1>2, <1>3
  <2>2. PICK e \in Operations : EntryFor(p) = e /\ J!Exists(e)
    BY <2>1, RowFields DEF Types
  <2>3. CASE J!Prepare(p, exec[x].revision, Thread)
    BY <2>1, <2>2, <2>3, PrepareEffect, OwnedMoves DEF Types, Waiting
  <2>4. CASE J!Refuse(p)
    BY <2>1, <2>2, <2>4, RefuseEffect, OwnedMoves DEF Types, RefusedState, Spared
  <2>5. CASE J!Defer(p)
    BY <2>1, <2>5, DeferEffect DEF Types
  <2>6. CASE J!Remove(EntryFor(p))
    BY <2>2, <2>6, RemoveEffect DEF Types
  <2>7. CASE J!MarkUncertain(p)
    BY <2>1, <2>2, <2>7, MarkUncertainEffect, OwnedMoves DEF Types, Spared
  <2>8. CASE J!MarkWithdrawn(p)
    BY <2>1, <2>2, <2>8, MarkWithdrawnEffect, OwnedMoves DEF Types, Spared
  <2>9. CASE /\ exec[x].reply # None /\ exec[x].reply \in Replies
             /\ exec[x].reply.kind = "queued"
             /\ J!AcknowledgeQueued(p, exec[x].reply.sub)
    <3>1. exec[x].reply.sub \in Submissions
      BY <2>9, ReplyTypes
    <3>. QED
      BY <2>1, <2>2, <2>9, <3>1, QueuedEffect, OwnedMoves DEF Types, Spared
  <2>10. CASE \E turn \in Turns : J!AcknowledgeDispatched(p, turn)
    BY <2>1, <2>2, <2>10, DispatchedEffect, OwnedMoves DEF Types, Spared
  <2>11. CASE \E deleted \in BOOLEAN : J!AcknowledgeDeleted(p, deleted)
    BY <2>1, <2>2, <2>11, DeletedEffect, OwnedMoves DEF Types, Spared
  <2>. QED
    BY <1>3, <2>3, <2>4, <2>5, <2>6, <2>7, <2>8, <2>9, <2>10, <2>11
<1>. QED
  BY <1>1, <1>3, ExecuteJournal

LEMMA RestMoves ==
    ASSUME Types, Ledger, Copies,
           \/ \E op \in Messages : AdmitAdd(op)
           \/ \E op \in Operations \ Messages : AdmitControl(op)
           \/ \E op \in Operations : WithdrawSeat(op)
           \/ \E o \in seen : RecordQueued(o)
           \/ \E e \in Operations : RecordRemoved(e)
           \/ \E item \in transcript : RecordProof(item)
    PROVE  entries' = entries \/ \E e \in Operations : EntryMoves(e)
<1>1. CASE \/ \E op \in Messages : AdmitAdd(op)
           \/ \E op \in Operations \ Messages : AdmitControl(op)
  <2>1. PICK p \in Operations : AdmitAdd(p) \/ AdmitControl(p)
    BY <1>1 DEF NativeQueueAssumption
  <2>2. CASE AdmitAdd(p)
    <3>1. PICK send \in BOOLEAN : J!AdmitAdd(p, send, Thread)
      BY <2>2 DEF AdmitAdd
    <3>2. ~J!Exists(p) /\ EntryStep(p, "admitted", p, None)
      BY <3>1, AdmitAddEffect DEF Types
    <3>. QED
      BY <3>2 DEF EntryMoves, EntryStep
  <2>3. CASE AdmitControl(p)
    <3>1. PICK action \in {"update", "delete", "start", "send-now"}, e \in Operations :
             /\ J!Exists(e)
             /\ J!AdmitControl(p, action, e, Thread, entries[e].revision)
      BY <2>3 DEF AdmitControl
    <3>2. EntryStep(e, entries[e].state, p, entries[e].submission)
      BY <3>1, AdmitControlEffect DEF Types
    <3>. QED
      BY <3>1, <3>2 DEF EntryMoves, EntryStep
  <2>. QED
    BY <2>1, <2>2, <2>3
<1>2. CASE \E op \in Operations : WithdrawSeat(op)
  <2>1. PICK op \in Operations : WithdrawSeat(op)
    BY <1>2
  <2>2. J!WithdrawSeat(op)
    BY <2>1 DEF WithdrawSeat
  <2>3. EntryStep(op, "refused", None, entries[op].submission) /\ Waiting(op) /\ EntryFor(op) = op
    BY <2>2, WithdrawSeatEffect DEF Types
  <2>4. entries[op].state = "admitted"
    BY <2>2 DEF J!WithdrawSeat, J!CanWithdrawSeat
  <2>5. J!Exists(op)
    BY <2>3, RowFields DEF Types, Waiting
  <2>. QED
    BY <2>3, <2>4, <2>5 DEF EntryMoves, EntryStep
<1>3. CASE \E o \in seen : RecordQueued(o)
  <2>1. PICK o \in seen : RecordQueued(o)
    BY <1>3
  <2>2. PICK p \in Operations, s \in Submissions : p = o.op /\ s = o.sub /\ Proper(p)
    BY DEF Types, SeenTypes, Sightings, Ledger, Sighted
  <2>3. PICK e \in Operations : EntryFor(p) = e /\ J!Exists(e)
    BY <2>2, RowFields DEF Types
  <2>4. CASE J!ObserveQueued(p, s)
    BY <2>3, <2>4, QueuedEffect, OwnedMoves DEF Types, Spared
  <2>5. CASE UNCHANGED journal
    BY <2>5 DEF journal
  <2>. QED
    BY <2>1, <2>2, <2>4, <2>5 DEF RecordQueued
<1>4. CASE \E e \in Operations : RecordRemoved(e)
  BY <1>4, RemoveEffect DEF RecordRemoved, Types
<1>5. CASE \E item \in transcript : RecordProof(item)
  <2>1. PICK item \in transcript : RecordProof(item)
    BY <1>5
  <2>2. PICK e \in Operations : e = item.client
    BY DEF Types, CodexTypes, Messaged
  <2>3. PICK proof : J!Prove(e, proof)
    BY <2>1, <2>2 DEF RecordProof
  <2>4. /\ J!Exists(e)
        /\ EntryStep(e, "delivered", IF Mutation(e) = e THEN None ELSE Mutation(e),
                     entries[e].submission)
    BY <2>3, ProveEffect DEF Types
  <2>5. ~Clear(e)
    BY <2>1, <2>2 DEF Clear, InTranscript
  <2>6. entries[e].state \notin {"refused", "removed"}
    BY <2>4, <2>5 DEF Copies, Whole
  <2>. QED
    BY <2>4, <2>6 DEF EntryMoves, EntryStep
<1>. QED
  BY <1>1, <1>2, <1>3, <1>4, <1>5

(* Of a request's message nothing is in history but what was on its way or *)
(* queued, and nothing leaves history.                                     *)
LEMMA ServeShows ==
    ASSUME Types, Ledger, NEW r \in wire, Serve(r), NEW e \in Operations, r.client = e
    PROVE  /\ InTranscript(e) # {} => InTranscript(e)' # {}
           /\ InTranscript(e) = {} /\ InTranscript(e)' # {} => InFlight(e) \cup InQueue(e) # {}
<1>1. transcript \subseteq transcript'
  BY DEF Serve, ServeAdd, ServeUpdate, ServeDelete, ServeQueueStart, ServeTurnStart, ServeSteer,
         RefuseRequest, codex
<1>2. CASE ServeQueueStart(r)
  <2>1. PICK item \in queue : item.sub = r.sub
    BY <1>2 DEF ServeQueueStart
  <2>2. item \in InQueue(e)
    BY <2>1, ServeClaims DEF InQueue
  <2>. QED
    BY <1>1, <2>2 DEF InTranscript
<1>3. CASE ServeTurnStart(r) \/ ServeSteer(r)
  <2>1. r \in InFlight(e)
    BY <1>3 DEF ServeTurnStart, ServeSteer, InFlight
  <2>. QED
    BY <1>1, <2>1 DEF InTranscript
<1>4. CASE ServeAdd(r) \/ ServeUpdate(r) \/ ServeDelete(r) \/ RefuseRequest(r)
  <2>1. transcript' = transcript
    BY <1>4 DEF ServeAdd, ServeUpdate, ServeDelete, RefuseRequest, codex
  <2>. QED
    BY <2>1 DEF InTranscript
<1>. QED
  BY <1>2, <1>3, <1>4 DEF Serve

LEMMA SamePlaces ==
    ASSUME entries' = entries, NEW f \in Operations, InFlight(f)' = InFlight(f),
           InQueue(f)' = InQueue(f), InTranscript(f)' = InTranscript(f)
    PROVE  CustodyOf(f)' = CustodyOf(f)
BY DEF CustodyOf, J!Exists

LEMMA CustodyStays ==
    ASSUME entries' = entries, UNCHANGED <<wire, queue, transcript>>
    PROVE  [Custody!Next]_custodies
<1>1. \A f \in Operations : CustodyOf(f)' = CustodyOf(f)
  BY SamePlaces DEF InFlight, InQueue, InTranscript
<1>. QED
  BY <1>1 DEF custodies

LEMMA CustodyStep ==
    ASSUME Types, Aimed, Ledger, Copies, Copies', [Next]_vars
    PROVE  [Custody!Next]_custodies
<1>1. ASSUME UNCHANGED <<wire, codex>>,
             entries' = entries \/ \E e \in Operations : EntryMoves(e)
      PROVE  [Custody!Next]_custodies
  BY <1>1, EntryPasses, CustodyStays DEF codex
<1>2. CASE \E x \in Executors : Execute(x)
  <2>1. PICK x \in Executors : Execute(x)
    BY <1>2
  <2>2. CASE UNCHANGED wire
    BY <1>1, <2>1, <2>2, ExecuteWire, ExecuteMoves
  <2>3. CASE ~UNCHANGED wire
    <3>1. PICK method \in Methods : /\ At(x, "prepared") \/ At(x, "steering")
                                    /\ UNCHANGED <<journal, codex>>
                                    /\ wire' = wire \cup {Request(x, method)}
      BY <2>1, <2>3, ExecuteWire
    <3>2. Op(x) \in Operations /\ Proper(Op(x))
      BY <3>1, AtStage DEF Types, Stages
    <3>3. PICK e \in Operations : EntryFor(Op(x)) = e
      BY <3>2, RowFields DEF Types
    <3>4. Request(x, method).client = e
      BY <3>3 DEF Request, EntryOf, EntryFor
    <3>5. entries' = entries /\ queue' = queue /\ transcript' = transcript
      BY <3>1 DEF journal, codex
    <3>6. ASSUME NEW f \in Operations
          PROVE  /\ InQueue(f)' = InQueue(f) /\ InTranscript(f)' = InTranscript(f)
                 /\ f # e => InFlight(f)' = InFlight(f)
      BY <3>1, <3>4, <3>5 DEF InFlight, InQueue, InTranscript
    <3>7. \A f \in Operations \ {e} : CustodyOf(f)' = CustodyOf(f)
      BY <3>5, <3>6, SamePlaces
    <3>8. Passes(e)
      BY <3>5, <3>6, PlacesPass
    <3>. QED
      BY <3>7, <3>8, PassesNext
  <2>. QED
    BY <2>2, <2>3
<1>3. CASE \E r \in wire : Serve(r)
  <2>1. PICK r \in wire : Serve(r)
    BY <1>3
  <2>2. PICK e \in Operations : r.client = e
    BY DEF Types, WireTypes, Requests
  <2>3. entries' = entries
    BY <2>1 DEF Serve, journal
  <2>4. \A f \in Operations \ {e} : CustodyOf(f)' = CustodyOf(f)
    BY <2>1, <2>2, <2>3, ServeElsewhere, SamePlaces
  <2>5. Passes(e)
    BY <2>1, <2>2, <2>3, ServeShows, PlacesPass
  <2>. QED
    BY <2>4, <2>5, PassesNext
<1>4. CASE Dispatch
  <2>1. PICK item \in queue : /\ queue' = queue \ {item}
                              /\ transcript' = transcript \cup {Delivered(item, active')}
    BY <1>4 DEF Dispatch
  <2>2. PICK e \in Operations : item.client = e
    BY DEF Types, CodexTypes, Items
  <2>3. entries' = entries /\ wire' = wire
    BY <1>4 DEF Dispatch, journal
  <2>4. item \in InQueue(e) /\ (InTranscript(e) # {} => InTranscript(e)' # {})
    BY <2>1, <2>2 DEF InQueue, InTranscript
  <2>5. Passes(e)
    BY <2>3, <2>4, PlacesPass
  <2>6. ASSUME NEW f \in Operations \ {e}
        PROVE  CustodyOf(f)' = CustodyOf(f)
    <3>1. /\ InFlight(f)' = InFlight(f) /\ InQueue(f)' = InQueue(f)
          /\ InTranscript(f)' = InTranscript(f)
      BY <2>1, <2>2, <2>3 DEF InFlight, InQueue, InTranscript, Delivered
    <3>. QED
      BY <2>3, <3>1, SamePlaces
  <2>. QED
    BY <2>5, <2>6, PassesNext
<1>5. CASE OtherTurn \/ EndTurn \/ LoseHost \/ ReplaceHost \/ ReadQueue \/ UNCHANGED vars
  <2>1. entries' = entries /\ UNCHANGED <<wire, queue, transcript>>
    BY <1>5 DEF OtherTurn, EndTurn, LoseHost, ReplaceHost, ReadQueue, vars, journal, codex
  <2>. QED
    BY <2>1, CustodyStays
<1>6. CASE \/ \E op \in Messages : AdmitAdd(op)
           \/ \E op \in Operations \ Messages : AdmitControl(op)
           \/ \E op \in Operations : WithdrawSeat(op)
           \/ \E o \in seen : RecordQueued(o)
           \/ \E e \in Operations : RecordRemoved(e)
           \/ \E item \in transcript : RecordProof(item)
  <2>1. UNCHANGED <<wire, codex>>
    BY <1>6 DEF AdmitAdd, AdmitControl, WithdrawSeat, RecordQueued, RecordRemoved, RecordProof
  <2>. QED
    BY <1>1, <1>6, <2>1, RestMoves
<1>. QED
  BY <1>2, <1>3, <1>4, <1>5, <1>6 DEF Next

LEMMA CustodyStart ==
    ASSUME Init
    PROVE  Custody!Init
<1>1. \A e \in Operations : CustodyOf(e) = "absent"
  BY DEF Init, J!Init, J!Exists, CustodyOf
<1>. QED
  BY <1>1 DEF Custody!Init

(* Under the same condition every step, a crash and a late reply included, *)
(* moves a message the way its sender may believe: out of the runtime's    *)
(* hands and back, into history once, proven only from there, ended only   *)
(* in the runtime's hands and never sent again.                            *)
THEOREM PreparedCustody == PreparedSpec => ImplementsCustody
<1>1. Init => Custody!Init
  BY CustodyStart
<1>2. /\ Types /\ Aimed /\ Ledger /\ Copies
      /\ Copies'
      /\ [Next /\ ~RivalRefusal]_vars
      => [Custody!Next]_custodies
  BY CustodyStep, PreparedStep
<1>. QED
  BY <1>1, <1>2, CopiesHold, PTL DEF PreparedSpec, ImplementsCustody, Custody!Spec, custodies

LEMMA AloneHold ==
    ASSUME \A x, y \in Executors : x = y
    PROVE  Spec => [](Types /\ Aimed /\ Ledger /\ Copies)
<1>1. Init => Types /\ Aimed /\ Ledger /\ Copies /\ Alone
  BY TypesStart, LedgerStart, CopiesStart DEF Init, Alone, At, Idle
<1>2. ASSUME Types, Aimed, Ledger, Copies, Alone, [Next]_vars
      PROVE  Types' /\ Aimed' /\ Ledger' /\ Copies' /\ Alone'
  BY <1>2, TypesStep, LedgerStep, CopiesStep, AloneStep, AloneRefusesNothing
<1>. QED
  BY <1>1, <1>2, PTL DEF Spec

(* Where one executor at a time serves the conversation no rival can       *)
(* refuse, and a message has one copy without a condition: crashes, lost   *)
(* replies, retries after a postponement, withdrawals before a steer and   *)
(* reconciliation behind the executor's back do not make a second.         *)
THEOREM OneCallOneCopy ==
    ASSUME \A x, y \in Executors : x = y
    PROVE  Spec => []OneCopy /\ []RefusedLeavesNoCopy
BY AloneHold, CopiesImply, PTL

(* There the hand-over implements the sender's view without a condition.   *)
THEOREM OneCallCustody ==
    ASSUME \A x, y \in Executors : x = y
    PROVE  Spec => ImplementsCustody
<1>1. Init => Custody!Init
  BY CustodyStart
<1>2. /\ Types /\ Aimed /\ Ledger /\ Copies
      /\ Copies'
      /\ [Next]_vars
      => [Custody!Next]_custodies
  BY CustodyStep
<1>. QED
  BY <1>1, <1>2, AloneHold, PTL DEF Spec, ImplementsCustody, Custody!Spec, custodies
=============================================================================
