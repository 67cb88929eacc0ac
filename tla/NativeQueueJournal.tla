------------------------- MODULE NativeQueueJournal -------------------------
(***************************************************************************)
(* The runtime host's journal of Codex native queue entries: admission,    *)
(* the transition of one operation with the entry it mutates, and the      *)
(* compaction that may drop operation rows (src/runtime-host/              *)
(* nativeQueueJournal.ts inside journal.ts's transactions).                *)
(*                                                                         *)
(* Every method is one SQLite transaction, so every method is one action;  *)
(* a call the code answers with an exception is rolled back and is no step.*)
(* Who calls is left open: any caller may ask any transition at any time,  *)
(* late and repeated ones included.  NativeQueue composes this journal     *)
(* with the executors that really call it.                                 *)
(***************************************************************************)
EXTENDS Naturals, Sequences

CONSTANTS
    Operations,   \* operation ids; the id of an add is also its entry's id
    Bindings,     \* (thread, account) pairs a conversation may run on
    Submissions,  \* ids Codex gives to queued submissions
    Turns,        \* turn ids
    Inputs,       \* prepared payloads
    MaxRevision,  \* the retained edit bound, 128 in the code
    None          \* the code's null

ASSUME JournalAssumption ==
    /\ None \notin Operations \cup Bindings \cup Submissions \cup Turns \cup Inputs
    /\ None \notin [revision : Nat, turn : Turns, input : Inputs]
    /\ MaxRevision \in Nat \ {0}

VARIABLES
    ops,      \* the operations table: request, receipt and owed effect
    entries   \* the native_queue_entries table, by entry id

journalVars == <<ops, entries>>

Actions == {"add", "update", "delete", "start", "send-now", "reorder"}
States == {"admitted", "queued", "dispatching", "withdrawn", "removed",
           "uncertain", "delivered", "refused"}
Settled == {"delivered", "removed", "refused"}

(* The receipt's status; "pending" is handled as "queued" wherever a native*)
(* operation is concerned.                                                 *)
Statuses == {"queued", "delivering", "applied", "delivered", "failed", "uncertain"}

(* `send` marks an ordinary message the journal converted to a native add, *)
(* `entry` is None for a reorder, `effect` says execution is still owed.   *)
Operation == [action : Actions, send : BOOLEAN, entry : Operations \cup {None},
              binding : Bindings, revision : Nat, status : Statuses, effect : BOOLEAN]
NoOp == [status |-> "absent", effect |-> FALSE]
RejectedOp == [status |-> "rejected", effect |-> FALSE]

Version == [op : Operations, input : Inputs \cup {None}]
Proof == [revision : 1..MaxRevision, turn : Turns, input : Inputs]

Entry == [binding : Bindings, state : States, mutation : Operations \cup {None},
          submission : Submissions \cup {None}, revision : 1..MaxRevision,
          versions : Seq(Version), dispatched : 0..MaxRevision,
          turn : Turns \cup {None}, proof : Proof \cup {None}]
NoEntry == [state |-> "absent"]

Retained(op) == ops[op] # NoOp
Exists(e) == entries[e] # NoEntry
Current(entry) == entry.versions[entry.revision]

Init ==
    /\ ops = [op \in Operations |-> NoOp]
    /\ entries = [e \in Operations |-> NoEntry]

-----------------------------------------------------------------------------
(* Admission                                                               *)

Admitted(action, send, e, b, revision) ==
    [action |-> action, send |-> send, entry |-> e, binding |-> b,
     revision |-> revision, status |-> "queued", effect |-> TRUE]

(* An id is fresh when no retained operation and no entry has it: an entry *)
(* outlives its compacted add.                                             *)
Fresh(op) == ~Retained(op) /\ ~Exists(op)

AdmitAdd(op, send, b) ==
    /\ Fresh(op)
    /\ ops' = [ops EXCEPT ![op] = Admitted("add", send, op, b, 0)]
    /\ entries' = [entries EXCEPT ![op] =
          [binding |-> b, state |-> "admitted", mutation |-> op, submission |-> None,
           revision |-> 1, versions |-> <<[op |-> op, input |-> None]>>,
           dispatched |-> 0, turn |-> None, proof |-> None]]

(* A control of one entry: it names the revision it saw, and an entry with *)
(* an unresolved mutation admits no other.                                 *)
Controllable(action, e, b, revision) ==
    /\ Exists(e)
    /\ entries[e].binding = b
    /\ entries[e].revision = revision
    /\ entries[e].mutation = None
    /\ entries[e].state \in {"queued", "withdrawn"}
    /\ entries[e].state = "withdrawn" => action = "start"
    /\ action = "update" => Len(entries[e].versions) < MaxRevision

Controlled(op, action, entry) ==
    IF action = "update"
    THEN [entry EXCEPT !.mutation = op,
                       !.revision = Len(entry.versions) + 1,
                       !.versions = Append(entry.versions, [op |-> op, input |-> None])]
    ELSE [entry EXCEPT !.mutation = op]

AdmitControl(op, action, e, b, revision) ==
    /\ Fresh(op)
    /\ Controllable(action, e, b, revision)
    /\ ops' = [ops EXCEPT ![op] = Admitted(action, FALSE, e, b, revision)]
    /\ entries' = [entries EXCEPT ![e] = Controlled(op, action, entries[e])]

(* A reorder and a queue-level start have no entry.                        *)
AdmitReorder(op, b) ==
    /\ Fresh(op)
    /\ ops' = [ops EXCEPT ![op] = Admitted("reorder", FALSE, None, b, 0)]
    /\ UNCHANGED entries

(* The session row refuses the request: a receipt, and nothing else.       *)
AdmitRejected(op) ==
    /\ Fresh(op)
    /\ ops' = [ops EXCEPT ![op] = RejectedOp]
    /\ UNCHANGED entries

-----------------------------------------------------------------------------
(* Transitions                                                             *)

(* The receipt transitions journal.ts accepts: queueing, beginning and     *)
(* completing; `progress` are the native phases it accepts in any status.  *)
Allowed(op, status, progress) ==
    \/ ops[op].status = "delivering" /\ status = "queued"
    \/ ops[op].status = "queued" /\ status = "delivering"
    \/ ops[op].status \in {"queued", "delivering"} /\ status \notin {"queued", "delivering"}
    \/ progress

Completing(op, status) ==
    ops[op].status \in {"queued", "delivering"} /\ status \notin {"queued", "delivering"}

(* The effect stays owed until it is acknowledged or the receipt completes.*)
Owing(op, status, done) == ops[op].effect /\ ~done /\ ~Completing(op, status)

Receipt(op, status, done) ==
    [ops[op] EXCEPT !.status = status, !.effect = Owing(op, status, done)]

SetReceipt(op, status, done) == ops' = [ops EXCEPT ![op] = Receipt(op, status, done)]

SetEntry(e, entry) == entries' = [entries EXCEPT ![e] = entry]

(* The operation is retained and, if it targets an entry, that entry is    *)
(* still the one it was admitted for; an add follows its entry's binding.  *)
Owns(op) ==
    /\ ops[op] \notin {NoOp, RejectedOp}
    /\ ops[op].entry # None =>
          /\ ops[op].action # "add" => entries[ops[op].entry].binding = ops[op].binding
          /\ entries[ops[op].entry].mutation = op

(* Broken variants, named ...Bug here and below: the properties must tell  *)
(* them from the code.                                                     *)
CanPrepareUnfencedBug(op, input, b) ==
    /\ Owns(op)
    /\ Allowed(op, "delivering", ops[op].status = "delivering")
    /\ ops[op].entry # None =>
          LET entry == entries[ops[op].entry] IN
          /\ b = entry.binding
          /\ Current(entry).input \in {None, input}

CanPrepareThawedBug(op, input, b) ==
    /\ Owns(op)
    /\ ops[op].status = "queued"
    /\ ops[op].entry # None => entries[ops[op].entry].binding = b

(* "prepared": the compare-and-swap that freezes the payload before the    *)
(* first native write, and the only moment an add may follow a successor.  *)
CanPrepare(op, input, b) ==
    /\ Owns(op)
    /\ ops[op].status = "queued"
    /\ ops[op].entry # None =>
          LET entry == entries[ops[op].entry] IN
          /\ b # entry.binding =>
                /\ ops[op].action = "add"
                /\ entry.state = "admitted"
                /\ Current(entry).input = None
                /\ entry.submission = None
                /\ entry.proof = None
          /\ Current(entry).input \in {None, input}

Prepared(entry, input, b) ==
    [entry EXCEPT !.binding = b,
                  !.versions = [entry.versions EXCEPT ![entry.revision].input = input]]

Prepare(op, input, b) ==
    /\ CanPrepare(op, input, b)
    /\ SetReceipt(op, "delivering", FALSE)
    /\ IF ops[op].entry = None THEN UNCHANGED entries
       ELSE SetEntry(ops[op].entry, Prepared(entries[ops[op].entry], input, b))

(* "deferred": the native write never began.                               *)
Defer(op) ==
    /\ Owns(op)
    /\ Allowed(op, "queued", FALSE)
    /\ SetReceipt(op, "queued", FALSE)
    /\ UNCHANGED entries

(* "seat-withdrawal": the add is ended before it crossed the boundary.     *)
CanWithdrawSeat(op) ==
    /\ Owns(op)
    /\ ops[op].action = "add"
    /\ ops[op].status = "queued"
    /\ entries[op].state = "admitted"
    /\ Current(entries[op]).input = None
    /\ entries[op].submission = None
    /\ entries[op].proof = None

WithdrawSeat(op) ==
    /\ CanWithdrawSeat(op)
    /\ SetReceipt(op, "failed", FALSE)
    /\ SetEntry(op, [entries[op] EXCEPT !.state = "refused", !.mutation = None])

(* A proven entry keeps its state.                                         *)
Marked(entry, state) ==
    [entry EXCEPT !.state = IF entry.proof = None THEN state ELSE entry.state]

(* "withdrawn": Codex handed the queued payload back for a send-now.       *)
CanMarkWithdrawn(op) ==
    /\ Owns(op)
    /\ ops[op].action = "send-now"
    /\ Allowed(op, "delivering", ops[op].status = "delivering")

MarkWithdrawn(op) ==
    /\ CanMarkWithdrawn(op)
    /\ SetReceipt(op, "delivering", FALSE)
    /\ SetEntry(ops[op].entry, Marked(entries[ops[op].entry], "withdrawn"))

(* "uncertain": the mutation fence stays, no new key can retry it.         *)
CanMarkUncertain(op) == Owns(op) /\ Allowed(op, "uncertain", FALSE)

MarkUncertain(op) ==
    /\ CanMarkUncertain(op)
    /\ SetReceipt(op, "uncertain", FALSE)
    /\ IF ops[op].entry = None THEN UNCHANGED entries
       ELSE SetEntry(ops[op].entry, Marked(entries[ops[op].entry], "uncertain"))

RefusedAnyRevisionBug(op, entry) ==
    [entry EXCEPT !.mutation = None,
                  !.state = IF ops[op].action = "add" /\ entry.proof = None
                            THEN "refused" ELSE entry.state,
                  !.revision = ops[op].revision]

RefusedKeepsRevisionBug(op, entry) ==
    [entry EXCEPT !.mutation = None,
                  !.state = IF ops[op].action = "add" /\ entry.proof = None
                            THEN "refused" ELSE entry.state]

(* "refused": an edit goes back to the revision it was an edit of.         *)
Refused(op, entry) ==
    [entry EXCEPT !.mutation = None,
                  !.state = IF ops[op].action = "add" /\ entry.proof = None
                            THEN "refused" ELSE entry.state,
                  !.revision = IF ops[op].action = "update" /\ entry.proof = None
                               THEN ops[op].revision ELSE entry.revision]

CanRefuse(op) == Owns(op) /\ Allowed(op, "failed", FALSE)

Refuse(op) ==
    /\ CanRefuse(op)
    /\ SetReceipt(op, "failed", FALSE)
    /\ IF ops[op].entry = None THEN UNCHANGED entries
       ELSE SetEntry(ops[op].entry, Refused(op, entries[ops[op].entry]))

(* "acknowledged": a converted send stays queued until its proof.          *)
AckStatus(op) == IF ops[op].send THEN "queued" ELSE "applied"
CanAcknowledge(op) == Owns(op) /\ Allowed(op, AckStatus(op), FALSE)

QueuedOverProofBug(entry, s) ==
    [entry EXCEPT !.submission = s, !.mutation = None, !.state = "queued"]

Queued(entry, s) ==
    [entry EXCEPT !.submission = s, !.mutation = None,
                  !.state = IF entry.proof = None THEN "queued" ELSE entry.state]

AcceptsSubmission(op, s) ==
    /\ ops[op].action \in {"add", "update"}
    /\ entries[ops[op].entry].submission \in {None, s}

AcknowledgeQueued(op, s) ==
    /\ CanAcknowledge(op)
    /\ AcceptsSubmission(op, s)
    /\ SetReceipt(op, AckStatus(op), TRUE)
    /\ SetEntry(ops[op].entry, Queued(entries[ops[op].entry], s))

(* A turn was started or steered with the entry's current version.         *)
Dispatches(op) ==
    \/ ops[op].action \in {"start", "send-now"}
    \/ /\ ops[op].action = "add"
       /\ entries[op].submission = None
       /\ Current(entries[op]).input # None

Dispatched(entry, turn) ==
    [entry EXCEPT !.mutation = None,
                  !.state = IF entry.proof = None THEN "dispatching" ELSE entry.state,
                  !.dispatched = IF entry.dispatched = 0 THEN entry.revision
                                 ELSE entry.dispatched,
                  !.turn = IF entry.turn = None THEN turn ELSE entry.turn]

AcknowledgeDispatched(op, turn) ==
    /\ CanAcknowledge(op)
    /\ Dispatches(op)
    /\ SetReceipt(op, AckStatus(op), TRUE)
    /\ SetEntry(ops[op].entry, Dispatched(entries[ops[op].entry], turn))

Deleted(entry, deleted) ==
    [entry EXCEPT !.mutation = None,
                  !.state = IF entry.proof # None THEN entry.state
                            ELSE IF deleted THEN "removed" ELSE "uncertain"]

AcknowledgeDeleted(op, deleted) ==
    /\ CanAcknowledge(op)
    /\ ops[op].action = "delete"
    /\ SetReceipt(op, AckStatus(op), TRUE)
    /\ SetEntry(ops[op].entry, Deleted(entries[ops[op].entry], deleted))

AcknowledgeReorder(op) ==
    /\ CanAcknowledge(op)
    /\ ops[op].action = "reorder"
    /\ SetReceipt(op, AckStatus(op), TRUE)
    /\ UNCHANGED entries

(* "observed-queued": a read of Codex's queue finds exactly the frozen     *)
(* input; it settles a mutation whose acknowledgement was lost.            *)
CanObserveQueued(op, s) ==
    /\ Owns(op)
    /\ ops[op].entry # None
    /\ AcceptsSubmission(op, s)
    /\ Current(entries[ops[op].entry]).input # None

ObserveQueued(op, s) ==
    /\ CanObserveQueued(op, s)
    /\ SetReceipt(op, AckStatus(op), TRUE)
    /\ SetEntry(ops[op].entry, Queued(entries[ops[op].entry], s))

(* "removed": the add of an entry Codex deleted ends as discarded.         *)
CanRemove(e) ==
    /\ Retained(e) /\ Exists(e)
    /\ entries[e].state = "removed"
    /\ entries[e].proof = None
    /\ entries[e].mutation = None

Remove(e) ==
    /\ CanRemove(e)
    /\ SetReceipt(e, "failed", FALSE)
    /\ UNCHANGED entries

(* "proven": Codex's canonical history holds one retained version.         *)
Proves(entry, proof) ==
    /\ entry.turn \in {None, proof.turn}
    /\ proof.revision \in DOMAIN entry.versions
    /\ entry.versions[proof.revision].input = proof.input
    /\ entry.proof \in {None, proof}

Proven(e, entry, proof) ==
    [entry EXCEPT !.proof = proof, !.dispatched = proof.revision, !.turn = proof.turn,
                  !.state = "delivered",
                  !.mutation = IF entry.mutation = e THEN None ELSE entry.mutation]

CanProve(e, proof) == Retained(e) /\ Exists(e) /\ Proves(entries[e], proof)

Prove(e, proof) ==
    /\ CanProve(e, proof)
    /\ SetReceipt(e, "delivered", TRUE)
    /\ SetEntry(e, Proven(e, entries[e], proof))

-----------------------------------------------------------------------------
(* Compaction                                                              *)

HeldByUnansweredBug(e) == IF Exists(e) THEN {entries[e].mutation} \ {None} ELSE {}
HeldByUnfencedBug(e) == IF Exists(e) /\ entries[e].state \notin Settled THEN {e} ELSE {}

(* The ids an entry still has to be answered through.                      *)
HeldBy(e) ==
    IF ~Exists(e) THEN {}
    ELSE (IF entries[e].state \in Settled THEN {} ELSE {e})
         \cup ({entries[e].mutation} \ {None, e})

Held == UNION {HeldBy(e) : e \in Operations}

(* Any operation behind the anchor goes, unless its effect is owed, an     *)
(* entry holds it or (left open here) its receipt awaits a projection.     *)
Compact(gone) ==
    /\ gone \subseteq {op \in Operations : Retained(op) /\ ~ops[op].effect} \ Held
    /\ ops' = [op \in Operations |-> IF op \in gone THEN NoOp ELSE ops[op]]
    /\ UNCHANGED entries

-----------------------------------------------------------------------------
Admit(op) ==
    \/ \E send \in BOOLEAN, b \in Bindings : AdmitAdd(op, send, b)
    \/ \E action \in Actions \ {"add", "reorder"}, e \in Operations, b \in Bindings,
          revision \in 1..MaxRevision : AdmitControl(op, action, e, b, revision)
    \/ \E b \in Bindings : AdmitReorder(op, b)
    \/ AdmitRejected(op)

Transition(op) ==
    \/ \E input \in Inputs, b \in Bindings : Prepare(op, input, b)
    \/ Defer(op)
    \/ WithdrawSeat(op)
    \/ MarkWithdrawn(op)
    \/ MarkUncertain(op)
    \/ Refuse(op)
    \/ \E s \in Submissions : AcknowledgeQueued(op, s)
    \/ \E turn \in Turns : AcknowledgeDispatched(op, turn)
    \/ \E deleted \in BOOLEAN : AcknowledgeDeleted(op, deleted)
    \/ AcknowledgeReorder(op)
    \/ \E s \in Submissions : ObserveQueued(op, s)
    \/ Remove(op)
    \/ \E proof \in Proof : Prove(op, proof)

Next ==
    \/ \E op \in Operations : Admit(op) \/ Transition(op)
    \/ \E gone \in SUBSET Operations : Compact(gone)

Spec == Init /\ [][Next]_journalVars

-----------------------------------------------------------------------------
(* Properties                                                              *)

(* Type of the two tables; an entry's revision names one of its versions.  *)
TypeOK ==
    /\ ops \in [Operations -> Operation \cup {NoOp, RejectedOp}]
    /\ entries \in [Operations -> Entry \cup {NoEntry}]
    /\ \A e \in Operations : Exists(e) =>
          Len(entries[e].versions) \in entries[e].revision..MaxRevision

(* The mutation fence of an entry is a live operation on that entry, and   *)
(* an operation whose native write may have happened, or is still owed,    *)
(* is the fence of its entry.  So an unknown outcome freezes the entry:    *)
(* no transition, admission or compaction lets another mutation past it.   *)
Unresolved(op) == ops[op].effect \/ ops[op].status \in {"delivering", "uncertain"}

FenceLive ==
    /\ \A e \in Operations : Exists(e) /\ entries[e].mutation # None =>
          LET m == entries[e].mutation IN
          /\ ops[m] \notin {NoOp, RejectedOp}
          /\ ops[m].entry = e
          /\ Unresolved(m)
    /\ \A op \in Operations : ops[op] \notin {NoOp, RejectedOp} /\ ops[op].entry # None =>
          LET e == ops[op].entry IN
          /\ Exists(e)
          /\ ops[op].action = "add" <=> e = op
          /\ Unresolved(op) => entries[e].mutation = op

(* Compaction never takes the operation an entry is still answered through *)
(* (#1664), and that operation's receipt tells the entry's story: a sender *)
(* never reads delivered, failed or in flight of an entry that is not.     *)
ReceiptTruth ==
    \A e \in Operations : Exists(e) =>
        LET entry == entries[e] IN
        /\ entry.state \notin Settled => Retained(e)
        /\ Retained(e) =>
              /\ ops[e] # RejectedOp
              /\ ops[e].entry = e
              /\ entry.state = "admitted" => Unresolved(e) /\ ops[e].status # "uncertain"
              /\ entry.state \in {"queued", "dispatching", "withdrawn"} =>
                    ops[e].status = AckStatus(e) /\ ~ops[e].effect
              /\ entry.state = "delivered" <=> ops[e].status = "delivered"
              /\ entry.state = "refused" => ops[e].status = "failed"
              /\ ops[e].status = "failed" => entry.state \in {"refused", "removed"}

(* An entry is delivered exactly when a canonical proof of one of its      *)
(* frozen versions is recorded, under the turn it was dispatched with.     *)
ProofExact ==
    \A e \in Operations : Exists(e) =>
        LET entry == entries[e] IN
        /\ entry.state = "delivered" <=> entry.proof # None
        /\ entry.proof # None =>
              /\ entry.dispatched = entry.proof.revision
              /\ entry.turn = entry.proof.turn
              /\ entry.versions[entry.proof.revision].input = entry.proof.input

JournalInv == TypeOK /\ FenceLive /\ ReceiptTruth /\ ProofExact

(* What was handed to Codex is never rewritten: an entry, its prepared     *)
(* payloads, its native submission and its proof stay, and its owner stays *)
(* once a payload is prepared.                                             *)
Kept(old, new) ==
    /\ \A i \in DOMAIN old.versions :
          /\ i \in DOMAIN new.versions
          /\ old.versions[i].op = new.versions[i].op
          /\ old.versions[i].input # None => new.versions[i].input = old.versions[i].input
    /\ old.submission # None => new.submission = old.submission
    /\ old.proof # None => new.proof = old.proof
    /\ (\E i \in DOMAIN old.versions : old.versions[i].input # None)
          => new.binding = old.binding

HistoryFrozen ==
    [][\A e \in Operations : Exists(e) =>
          entries'[e] # NoEntry /\ Kept(entries[e], entries'[e])]_journalVars
=============================================================================
