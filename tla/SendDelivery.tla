---------------------------- MODULE SendDelivery ----------------------------
(***************************************************************************)
(* One message sent to an agent: the operation in the runtime journal      *)
(* (src/runtime-host/journal.ts), the executors that hand it to the agent's *)
(* host (lib/runtime/structuredDeliveryQueue.ts), the durable delivery      *)
(* record in the agent registry (lib/agent/registry.ts) that answers the    *)
(* sender, and everyone else who decides about it: the settlement at the    *)
(* deadline (sendSettlement.ts), the repair of an outcome the record missed *)
(* (structuredDeliveryController.ts) and the operator's Retry and Discard   *)
(* (http.ts).                                                               *)
(*                                                                         *)
(* Journal and record are two stores: a call of either is one transaction, *)
(* and between two calls anything else may happen.                          *)
(***************************************************************************)
EXTENDS Naturals

CONSTANTS
    Executors,   \* queue instances, one in each Viewer process
    MaxRetries,  \* bound: retries the operator asks for
    MaxFaults,   \* bound: processes that die, hosts that are lost, calls that fail
    None

VARIABLES
    op,          \* the operation: its receipt
    winner,      \* its row in delivery_operation_actions
    replaced,    \* a fresh attempt was admitted in its place
    rec,         \* the delivery record
    taken,       \* the agent has the message
    host,        \* the executor whose process hosts the agent
    exec,        \* the executors' passes
    settle,      \* a settlement at work
    repair,      \* a projection of the journal's outcome at work
    discard,     \* a Discard request at work
    retry,       \* a Retry request at work
    retries, faults

journal == <<op, winner, replaced>>
calls == <<settle, repair, discard, retry>>
vars == <<journal, rec, taken, host, exec, calls, retries, faults>>

(* `pending' counts as queued.  "discarded" is `failed' with the operator's *)
(* reason; its effect, like that of every terminal status, has left the     *)
(* outbox.                                                                  *)
Open == {"queued", "delivering"}
Terminal == {"delivered", "failed", "uncertain", "discarded"}

(* Who wrote the delivering fence, and whether the host's writer claim it   *)
(* recorded is still the current one.                                       *)
Owners == [by : Executors \cup {"gone"}, claim : {"current", "moved", "unknown"}]

ASSUME SendAssumption ==
    /\ MaxRetries \in Nat /\ MaxFaults \in Nat
    /\ None \notin {"retry", "discard"} /\ None \notin Owners

InFlight(r) == r.state \in {"assigned", "delivery-uncertain"}

(* resendGuidance: only a record that says "lost" allows a resend.          *)
ResendSafe(r) == r.state = "failed" /\ r.disposition = "lost"
DuplicateRisk(r) == r.state = "failed" /\ r.disposition # "lost"

Outcome(state, disposition, discarded) ==
    [state |-> state, disposition |-> disposition, discarded |-> discarded]
Delivered == Outcome("delivered", "delivered", FALSE)
Lost == Outcome("failed", "lost", FALSE)
Unverified == Outcome("failed", "unverified", FALSE)
Unproven == Outcome("failed", None, FALSE)
Discarded == Outcome("failed", "unverified", TRUE)
Outcomes == {Delivered, Lost, Unverified, Unproven, Discarded}

(* journalVerdict: what a terminal status proves.                           *)
Verdict(status) ==
    CASE status = "delivered" -> Delivered
      [] status = "failed"    -> Lost
      [] status = "uncertain" -> Unverified
      [] status = "discarded" -> Discarded

-----------------------------------------------------------------------------
(* The journal: each of these is one transaction.                           *)

(* Mutant: an operation that ends keeps the stamp of its executor.          *)
ToStampedBug(status) == [op EXCEPT !.status = status]

To(status) == [status |-> status, owner |-> None]

(* transitionOperation into a terminal status, as the queue and the         *)
(* settlement ask for it: from an open one, or again into the same.         *)
MayEnd(status) ==
    op.status \in Open \cup {status} \cup (IF status = "failed" THEN {"discarded"} ELSE {})
EndBy(status) ==
    op' = IF op.status \in Open THEN To(status) ELSE op

(* A confirmed delivery also corrects `failed' and `uncertain', and is      *)
(* refused to a discarded operation.                                        *)
MayConfirm == winner # "discard" /\ op.status # "discarded"
Confirm == op' = To("delivered")

(* Back to the queue from `delivering', whoever delivers it.                *)
Requeue == op' = IF op.status = "delivering" THEN To("queued") ELSE op

(* claimDeliveryAction: the first action recorded stands.                   *)
Claimable == winner # None \/ op.status \notin {"delivering", "delivered"}
(* Mutant: the last action to ask wins.                                     *)
ClaimLatestBug(action) ==
    /\ winner' = action
    /\ op' = IF action = "discard" THEN To("discarded") ELSE op

Claim(action) ==
    /\ winner' = IF winner = None THEN action ELSE winner
    /\ op' = IF winner' = "discard" THEN To("discarded") ELSE op

-----------------------------------------------------------------------------
(* The delivery record: each of these is one transaction.                   *)

(* discardableDeliveryFailure                                               *)
Discardable(r) == r.discarded \/ r.disposition # "lost"

(* recordDeliveryOutcomesForOperations                                      *)
(* Mutant: a failed record is final.                                        *)
RecordedOnceBug(r, o) ==
    IF \/ r.state = "delivery-uncertain"
       \/ o.discarded /\ r.state = "assigned"
       \/ o.discarded /\ r.state = "failed" /\ Discardable(r)
    THEN o ELSE r

Recorded(r, o) ==
    IF \/ r.state = "delivery-uncertain"
       \/ r.state = "failed" /\ o.state = "delivered" /\ ~r.discarded
       \/ o.discarded /\ r.state = "assigned"
       \/ o.discarded /\ r.state = "failed" /\ Discardable(r)
    THEN o ELSE r

(* recordDeliveryOutcome: whatever is not absorbing is overwritten.         *)
(* Mutant: a discarded record is overwritten too.                           *)
OverwrittenDiscardBug(r, o) == IF r.state = "delivered" THEN r ELSE o

Overwritten(r, o) == IF r.state = "delivered" \/ r.discarded THEN r ELSE o

-----------------------------------------------------------------------------
(* The executors                                                            *)

Idle == [pc |-> "idle"]
At(x, pc) == exec[x].pc = pc
Move(x, pc) == exec' = [exec EXCEPT ![x] = [pc |-> pc]]
Owe(x, o) == exec' = [exec EXCEPT ![x] = [pc |-> "owes", outcome |-> o]]

(* deliveringOwnerDisposition: only proof that its owner is gone makes a    *)
(* delivering row anyone else's.                                            *)
Abandoned(x) ==
    /\ op.status = "delivering" /\ op.owner # None
    /\ (op.owner.by = x \/ op.owner.claim = "moved")

(* A pass takes the effect up; a row another executor is delivering waits.  *)
Drain(x) ==
    /\ At(x, "idle")
    /\ \/ op.status = "queued" /\ Move(x, "listed")
       \/ Abandoned(x) /\ Move(x, "abandoned")
    /\ UNCHANGED <<journal, rec, taken, host, calls, retries, faults>>

(* The fence from the other store: the sender may already have its answer.  *)
ReadRecord(x) ==
    /\ At(x, "listed")
    /\ Move(x, IF rec.state = "failed" THEN "settled" ELSE "ready")
    /\ UNCHANGED <<journal, rec, taken, host, calls, retries, faults>>

(* transitionUnlessSettled into a terminal status: the outcome is owed to   *)
(* the record; a refusal means the journal has one already, which is the    *)
(* repair's to project.                                                     *)
End(x, status, o) ==
    /\ IF MayEnd(status) THEN EndBy(status) /\ Owe(x, o)
                         ELSE UNCHANGED op /\ Move(x, "idle")
    /\ UNCHANGED <<winner, replaced, rec, taken, host, calls, retries>>

(* terminalizeUnverified: when the first transition does not go through,    *)
(* the operation is failed with the same reason.                            *)
EndUnknown(x) ==
    \/ End(x, "uncertain", Unverified) /\ UNCHANGED faults
    \/ /\ faults < MaxFaults /\ faults' = faults + 1
       /\ End(x, "failed", Unproven)

EndSettled(x) == At(x, "settled") /\ EndUnknown(x)

(* An abandoned hand-over: the recipient's own evidence, else unknown,      *)
(* unless its acknowledgement is recorded and only its history unreadable.  *)
(* Mutant: an abandoned hand-over is taken to have arrived.                 *)
EndAbandonedTrustsBug(x) ==
    /\ At(x, "abandoned") /\ MayConfirm
    /\ Confirm /\ Owe(x, Delivered)
    /\ UNCHANGED <<winner, replaced, rec, taken, host, calls, retries, faults>>

EndAbandoned(x) ==
    /\ At(x, "abandoned")
    /\ \/ EndUnknown(x)
       \/ /\ taken /\ MayConfirm
          /\ Confirm /\ Owe(x, Delivered)
          /\ UNCHANGED <<winner, replaced, rec, taken, host, calls, retries, faults>>
       \/ /\ taken /\ Move(x, "idle")
          /\ UNCHANGED <<journal, rec, taken, host, calls, retries, faults>>

(* No host: the operation goes back to the queue and recovery is asked for. *)
DeadHost(x) ==
    /\ At(x, "ready") /\ host # x
    /\ IF op.status \in Open THEN Requeue /\ Move(x, "recovering")
                             ELSE UNCHANGED op /\ Move(x, "idle")
    /\ UNCHANGED <<winner, replaced, rec, taken, host, calls, retries, faults>>

(* A host comes up under a writer claim of its own; a row whose writer could *)
(* not read the claim then cannot be compared with it.                      *)
Opened(x) ==
    /\ host = None /\ host' = x
    /\ op' = IF op.owner # None /\ op.owner.claim = "current"
             THEN [op EXCEPT !.owner.claim = "moved"] ELSE op

(* recoverUnavailableHost: the host is back, it has to wait for the lane,   *)
(* or the send is failed.                                                   *)
Recover(x) ==
    /\ At(x, "recovering")
    /\ \/ /\ Opened(x) \/ UNCHANGED <<host, op>>
          /\ Move(x, "idle")
          /\ UNCHANGED <<winner, replaced, rec, taken, calls, retries, faults>>
       \/ End(x, "failed", Unproven) /\ UNCHANGED faults

(* The conversation's host comes back for another effect's sake.            *)
HostReturns(x) ==
    /\ Opened(x)
    /\ UNCHANGED <<winner, replaced, rec, taken, exec, calls, retries, faults>>

(* The delivering fence, only from a state nobody is delivering it in.      *)
Begin(x) ==
    /\ At(x, "ready") /\ host = x
    /\ IF op.status = "queued"
       THEN /\ \E claim \in {"current", "unknown"} :
                 op' = [status |-> "delivering", owner |-> [by |-> x, claim |-> claim]]
            /\ Move(x, "begun")
       ELSE UNCHANGED op /\ Move(x, "idle")
    /\ UNCHANGED <<winner, replaced, rec, taken, host, calls, retries, faults>>

Answers == {"delivered", "refused", "declined", "timeout", "error"}

(* sendWithReadRetry: what its last attempt at host.send says. Only a       *)
(* confirmation tells where the message is: one that says no, or is refused *)
(* its authorization, may be the second after one that wrote and whose      *)
(* thread read timed out.                                                   *)
Send(x) ==
    /\ At(x, "begun")
    /\ \E answer \in Answers :
         /\ host # x => answer = "error"
         /\ exec' = [exec EXCEPT ![x] = [pc |-> "answered", answer |-> answer]]
         /\ taken' \in IF answer = "delivered" THEN {TRUE} ELSE {taken, TRUE}
    /\ UNCHANGED <<journal, rec, host, calls, retries, faults>>

(* settleSendOutcome                                                        *)
SettleSend(x) ==
    /\ At(x, "answered")
    /\ LET answer == exec[x].answer
           queues == answer = "declined" \/ (answer = "timeout" /\ host = x)
       IN CASE answer = "delivered" -> End(x, "delivered", Delivered) /\ UNCHANGED faults
            [] answer = "refused"   -> End(x, "failed", Unproven) /\ UNCHANGED faults
            [] queues ->
                 /\ Requeue /\ Move(x, "idle")
                 /\ UNCHANGED <<winner, replaced, rec, taken, host, calls, retries, faults>>
            [] OTHER                -> EndUnknown(x)

(* The registry write that rides on the answer of a terminal transition.    *)
Project(x) ==
    /\ At(x, "owes")
    /\ rec' = Recorded(rec, exec[x].outcome)
    /\ Move(x, "idle")
    /\ UNCHANGED <<journal, taken, host, calls, retries, faults>>

(* A Viewer process dies, or its answer is lost after the last step it took.*)
(* Its host goes with it, its next queue has another executor id, and a     *)
(* message it was sending may have been taken.                              *)
Crash(x) ==
    /\ faults < MaxFaults /\ faults' = faults + 1
    /\ Move(x, "idle")
    /\ op' = IF op.owner # None /\ op.owner.by = x THEN [op EXCEPT !.owner.by = "gone"] ELSE op
    /\ host' = IF host = x THEN None ELSE host
    /\ taken' \in IF At(x, "begun") THEN {taken, TRUE} ELSE {taken}
    /\ UNCHANGED <<winner, replaced, rec, calls, retries>>

(* A pass is dropped: a call of a store failed, or its lane was released.   *)
PassStops(x) ==
    /\ faults < MaxFaults /\ faults' = faults + 1
    /\ ~At(x, "idle") /\ Move(x, "idle")
    /\ UNCHANGED <<journal, rec, taken, host, calls, retries>>

LoseHost ==
    /\ faults < MaxFaults /\ faults' = faults + 1
    /\ host # None /\ host' = None
    /\ UNCHANGED <<journal, rec, taken, exec, calls, retries>>

-----------------------------------------------------------------------------
(* The repair of a record that missed its outcome: what an executor's queue *)
(* owes, and every start of the controller.                                 *)

RepairRead ==
    /\ repair = None /\ op.status \in Terminal /\ ~replaced
    /\ Recorded(rec, Verdict(op.status)) # rec
    /\ repair' = Verdict(op.status)
    /\ UNCHANGED <<journal, rec, taken, host, exec, settle, discard, retry, retries, faults>>

(* At a start the recipient's evidence speaks first.                        *)
RepairConfirms ==
    /\ repair = None /\ taken /\ MayConfirm /\ ~replaced
    /\ rec.state \in {"delivery-uncertain", "failed"} /\ ~rec.discarded
    /\ Confirm /\ repair' = Delivered
    /\ UNCHANGED <<winner, replaced, rec, taken, host, exec, settle, discard, retry, retries, faults>>

RepairWrite ==
    /\ repair # None /\ repair' = None
    /\ rec' = Recorded(rec, repair)
    /\ UNCHANGED <<journal, taken, host, exec, settle, discard, retry, retries, faults>>

-----------------------------------------------------------------------------
(* The settlement of an overdue send: by a receipt query or by the timer.   *)

Answer(o) == settle' = [pc |-> "verdict", outcome |-> o]

(* settleSendReceipt reads the record: one that waits, or that a late       *)
(* acknowledgement could still correct, is worth asking about.              *)
SettleAsks ==
    /\ settle = Idle /\ ~replaced
    /\ InFlight(rec) \/ (DuplicateRisk(rec) /\ ~rec.discarded)
    /\ settle' = [pc |-> "asked", waits |-> InFlight(rec)]
    /\ UNCHANGED <<journal, rec, taken, host, exec, repair, discard, retry, retries, faults>>

(* The recipient has the message, and the journal decides whether that or a *)
(* discard won.                                                             *)
SettleConfirms ==
    /\ settle.pc = "asked" /\ taken /\ ~replaced
    /\ \/ MayConfirm /\ Confirm /\ Answer(Delivered)
       \/ op.status = "discarded" /\ Answer(Discarded) /\ UNCHANGED op
    /\ UNCHANGED <<winner, replaced, rec, taken, host, exec, repair, discard, retry, retries, faults>>

(* No evidence: the journal is read for a record that waits. A terminal     *)
(* status is its own verdict; another one, or none, is kept.                *)
SettleRead ==
    /\ settle.pc = "asked"
    /\ IF settle.waits /\ ~replaced
       THEN \/ op.status \in Terminal /\ Answer(Verdict(op.status))
            \/ op.status \in Open /\ settle' = [pc |-> "read", status |-> op.status]
            \/ settle' = [pc |-> "read", status |-> None]
       ELSE settle' = Idle
    /\ UNCHANGED <<journal, rec, taken, host, exec, repair, discard, retry, retries, faults>>

(* The record again, past the deadline: what still waits is fenced, or ends *)
(* unverified when the journal was not there to ask.                        *)
SettleChecks ==
    /\ settle.pc = "read"
    /\ IF ~InFlight(rec) THEN settle' = Idle
       ELSE IF settle.status = None THEN Answer(Unverified)
       ELSE settle' = [settle EXCEPT !.pc = "fence"]
    /\ UNCHANGED <<journal, rec, taken, host, exec, repair, discard, retry, retries, faults>>

(* fenceOperation: a send nobody began is failed and lost, any other is     *)
(* uncertain, or failed when that transition does not go through; a fence   *)
(* the journal refuses, or does not answer, proves nothing.                 *)
SettleFence ==
    /\ settle.pc = "fence"
    /\ \/ /\ settle.status = "queued" /\ op.status = "queued"
          /\ EndBy("failed") /\ UNCHANGED faults
          /\ Answer(Lost) \/ Answer(Unverified)
       \/ /\ settle.status = "queued" /\ op.status = "delivering"
          /\ settle' = [settle EXCEPT !.status = "delivering"]
          /\ UNCHANGED <<op, faults>>
       \/ /\ settle.status = "queued" /\ op.status \in Terminal
          /\ Answer(Verdict(op.status)) /\ UNCHANGED <<op, faults>>
       \/ /\ settle.status = "delivering" /\ Answer(Unverified)
          /\ \/ EndBy("uncertain") /\ UNCHANGED faults
             \/ /\ faults < MaxFaults /\ faults' = faults + 1
                /\ EndBy("failed")
       \/ Answer(Unverified) /\ UNCHANGED <<op, faults>>
    /\ UNCHANGED <<winner, replaced, rec, taken, host, exec, repair, discard, retry, retries>>

(* settleProjection reads the record and then waits for its lock.           *)
Projected(write) ==
    settle' = [pc |-> "answer", outcome |-> settle.outcome, write |-> write]

(* Mutant: a reservation waiting for its attempt is not settled.            *)
SettleProjectsBegunBug ==
    /\ settle.pc = "verdict"
    /\ Projected(IF settle.outcome.discarded THEN "outcome"
                 ELSE IF rec.state = "delivery-uncertain" THEN "overwrite"
                 ELSE IF settle.outcome.state = "delivered" THEN "outcome" ELSE "leave")
    /\ UNCHANGED <<journal, rec, taken, host, exec, repair, discard, retry, retries, faults>>

SettleProjects ==
    /\ settle.pc = "verdict"
    /\ Projected(IF settle.outcome.discarded THEN "outcome"
                 ELSE IF InFlight(rec) THEN "overwrite"
                 ELSE IF settle.outcome.state = "delivered" THEN "outcome" ELSE "leave")
    /\ UNCHANGED <<journal, rec, taken, host, exec, repair, discard, retry, retries, faults>>

SettleWrite ==
    /\ settle.pc = "answer" /\ settle' = Idle
    /\ rec' = CASE settle.write = "outcome"   -> Recorded(rec, settle.outcome)
                [] settle.write = "overwrite" -> Overwritten(rec, settle.outcome)
                [] settle.write = "leave"     -> rec
    /\ UNCHANGED <<journal, taken, host, exec, repair, discard, retry, retries, faults>>

-----------------------------------------------------------------------------
(* The operator discards: handleRuntimeDiscard                              *)

DiscardRead ==
    /\ discard = Idle /\ ~replaced
    /\ \/ op.status = "delivered" /\ discard' = [pc |-> "deliver"]
       \/ op.status = "queued" /\ discard' = [pc |-> "journal", risk |-> DuplicateRisk(rec)]
       \/ op.status \in {"uncertain", "discarded"} /\ discard' = [pc |-> "claim"]
       \/ op.status = "failed" /\ DuplicateRisk(rec) /\ discard' = [pc |-> "claim"]
    /\ UNCHANGED <<journal, rec, taken, host, exec, settle, repair, retry, retries, faults>>

(* The queued send is failed in the journal if it is queued still and no    *)
(* retry has won; one that has moved on is read again.                      *)
DiscardJournal ==
    /\ discard.pc = "journal"
    /\ IF winner # "retry" /\ op.status = "queued"
       THEN /\ winner' = "discard" /\ op' = To("discarded")
            /\ discard' = [pc |-> "record",
                           disposition |-> IF discard.risk THEN "unverified" ELSE "lost"]
       ELSE /\ UNCHANGED <<op, winner>>
            /\ discard' = IF winner = "retry" \/ op.status \in {"delivering", "failed"} THEN Idle
                          ELSE IF op.status = "delivered" THEN [pc |-> "deliver"]
                          ELSE [pc |-> "record", disposition |-> "unverified"]
    /\ UNCHANGED <<replaced, rec, taken, host, exec, settle, repair, retry, retries, faults>>

DiscardClaim ==
    /\ discard.pc = "claim"
    /\ IF Claimable
       THEN /\ Claim("discard")
            /\ discard' = IF winner' = "discard" THEN [pc |-> "record", disposition |-> "unverified"]
                                                 ELSE Idle
       ELSE discard' = Idle /\ UNCHANGED <<op, winner>>
    /\ UNCHANGED <<replaced, rec, taken, host, exec, settle, repair, retry, retries, faults>>

(* discardDeliveryForOperation; a delivered send's record says so instead.  *)
DiscardRecord ==
    /\ discard.pc \in {"record", "deliver"}
    /\ rec' = IF discard.pc = "deliver" THEN Recorded(rec, Delivered)
              ELSE IF InFlight(rec) \/ (rec.state = "failed" /\ Discardable(rec))
              THEN Outcome("failed", discard.disposition, TRUE)
              ELSE rec
    /\ discard' = Idle
    /\ UNCHANGED <<journal, taken, host, exec, settle, repair, retry, retries, faults>>

-----------------------------------------------------------------------------
(* The operator retries: handleRuntimeRetry                                 *)

RetryMay == retry = Idle /\ ~replaced /\ op.status # "discarded" /\ ~rec.discarded

(* A record that calls the resend safe while the journal is still open      *)
(* fences the journal first.                                                *)
RetryFences ==
    /\ RetryMay /\ ResendSafe(rec) /\ op.status \in Open
    /\ EndBy("failed")
    /\ UNCHANGED <<winner, replaced, rec, taken, host, exec, calls, retries, faults>>

(* A new attempt of its own, in place of a failed one.                      *)
RetryFresh ==
    /\ RetryMay /\ op.status = "failed" /\ winner # "discard"
    /\ retries < MaxRetries /\ retries' = retries + 1
    /\ winner' = "retry" /\ replaced' = TRUE
    /\ UNCHANGED <<op, rec, taken, host, exec, calls, faults>>

(* The same operation again, when its fate is unknown.                      *)
RetryRead ==
    /\ RetryMay /\ op.status # "delivering"
    /\ InFlight(rec) \/ DuplicateRisk(rec)
    /\ ~(op.status = "queued" /\ InFlight(rec))
    /\ retries < MaxRetries /\ retries' = retries + 1
    /\ retry' = [pc |-> "section"]
    /\ UNCHANGED <<journal, rec, taken, host, exec, settle, repair, discard, faults>>

(* Read again inside the conversation's section.                            *)
RetrySection ==
    /\ retry.pc = "section"
    /\ retry' = IF op.status = "delivering" \/ (op.status = "queued" /\ InFlight(rec))
                THEN Idle ELSE [pc |-> "claim", status |-> op.status]
    /\ UNCHANGED <<journal, rec, taken, host, exec, settle, repair, discard, retries, faults>>

RetryClaim ==
    /\ retry.pc = "claim"
    /\ IF Claimable
       THEN /\ Claim("retry")
            /\ retry' = IF winner' = "retry" THEN [retry EXCEPT !.pc = "rearm"] ELSE Idle
       ELSE retry' = Idle /\ UNCHANGED <<op, winner>>
    /\ UNCHANGED <<replaced, rec, taken, host, exec, settle, repair, discard, retries, faults>>

(* rearmUncertainDeliveryForOperation                                       *)
RetryRearm ==
    /\ retry.pc = "rearm"
    /\ IF InFlight(rec) \/ (rec.state = "failed" /\ rec.disposition = "unverified")
       THEN /\ rec' = Outcome("assigned", None, FALSE)
            /\ retry' = [retry EXCEPT !.pc = "begin"]
       ELSE UNCHANGED rec /\ retry' = Idle
    /\ UNCHANGED <<journal, taken, host, exec, settle, repair, discard, retries, faults>>

(* beginDeliveryAttempt, which a reservation of no host generation skips.   *)
RetryBegin ==
    /\ retry.pc = "begin"
    /\ \/ /\ rec.state = "assigned"
          /\ rec' = [rec EXCEPT !.state = "delivery-uncertain"]
          /\ retry' = [retry EXCEPT !.pc = "requeue"]
       \/ rec.state # "assigned" /\ UNCHANGED rec /\ retry' = Idle
       \/ UNCHANGED rec /\ retry' = [retry EXCEPT !.pc = "requeue"]
    /\ UNCHANGED <<journal, taken, host, exec, settle, repair, discard, retries, faults>>

(* retryOperation in place: the same operation and effect, back in the      *)
(* queue; a discard that won refuses it.                                    *)
RetryRequeue ==
    /\ retry.pc = "requeue" /\ retry' = Idle
    /\ IF retry.status # "queued" /\ winner # "discard" /\ op.status \in {"queued", "failed", "uncertain"}
       THEN winner' = "retry" /\ op' = To("queued")
       ELSE UNCHANGED <<op, winner>>
    /\ UNCHANGED <<replaced, rec, taken, host, exec, settle, repair, discard, retries, faults>>

(* A call ends with its process, or waits for a lock longer than it may.    *)
CallStops ==
    /\ faults < MaxFaults /\ faults' = faults + 1
    /\ \/ settle # Idle /\ settle' = Idle /\ UNCHANGED <<repair, discard, retry>>
       \/ repair # None /\ repair' = None /\ UNCHANGED <<settle, discard, retry>>
       \/ discard # Idle /\ discard' = Idle /\ UNCHANGED <<settle, repair, retry>>
       \/ retry # Idle /\ retry' = Idle /\ UNCHANGED <<settle, repair, discard>>
    /\ UNCHANGED <<journal, rec, taken, host, exec, retries>>

-----------------------------------------------------------------------------
Init ==
    /\ op = [status |-> "queued", owner |-> None]
    /\ winner = None /\ replaced = FALSE
    /\ rec = Outcome("delivery-uncertain", None, FALSE)
    /\ taken = FALSE
    /\ host \in Executors
    /\ exec = [x \in Executors |-> Idle]
    /\ settle = Idle /\ repair = None /\ discard = Idle /\ retry = Idle
    /\ retries = 0 /\ faults = 0

Pass(x) ==
    \/ Drain(x) \/ ReadRecord(x) \/ EndSettled(x) \/ EndAbandoned(x) \/ DeadHost(x)
    \/ Recover(x) \/ Begin(x) \/ Send(x) \/ SettleSend(x) \/ Project(x)
Repairing == RepairRead \/ RepairConfirms \/ RepairWrite
Settling ==
    \/ SettleAsks \/ SettleConfirms \/ SettleRead \/ SettleChecks
    \/ SettleFence \/ SettleProjects \/ SettleWrite
Discarding == DiscardRead \/ DiscardJournal \/ DiscardClaim \/ DiscardRecord
Retrying ==
    \/ RetryFences \/ RetryFresh \/ RetryRead \/ RetrySection \/ RetryClaim
    \/ RetryRearm \/ RetryBegin \/ RetryRequeue

Next ==
    \/ \E x \in Executors : Pass(x) \/ HostReturns(x) \/ PassStops(x) \/ Crash(x)
    \/ LoseHost \/ Repairing \/ Settling \/ Discarding \/ Retrying \/ CallStops

Spec == Init /\ [][Next]_vars

(* The repair is owed until it has succeeded and the settlement runs on a   *)
(* timer; nothing promises that the operator acts.                          *)
FairSpec ==
    /\ Spec
    /\ WF_<<repair, rec>>(RepairRead \/ RepairWrite)
    /\ WF_<<settle, rec>>(Settling)

-----------------------------------------------------------------------------
(* Every call and every store holds what the code can hold; exactly the row *)
(* of a send being handed over names who does it.                           *)
Passes ==
    [pc : {"idle", "listed", "settled", "abandoned", "ready", "recovering", "begun"}]
        \cup [pc : {"answered"}, answer : Answers] \cup [pc : {"owes"}, outcome : Outcomes]
Settlements ==
    {Idle} \cup [pc : {"asked"}, waits : BOOLEAN]
        \cup [pc : {"read"}, status : Open \cup {None}] \cup [pc : {"fence"}, status : Open]
        \cup [pc : {"verdict"}, outcome : Outcomes]
        \cup [pc : {"answer"}, outcome : Outcomes, write : {"outcome", "overwrite", "leave"}]
Discards ==
    {Idle} \cup [pc : {"journal"}, risk : BOOLEAN] \cup [pc : {"claim", "deliver"}]
        \cup [pc : {"record"}, disposition : {"lost", "unverified"}]
Retries ==
    {Idle} \cup [pc : {"section"}]
        \cup [pc : {"claim", "rearm", "begin", "requeue"}, status : Open \cup Terminal]

TypeOK ==
    /\ op \in [status : Open \cup Terminal, owner : Owners \cup {None}]
    /\ op.status = "delivering" <=> op.owner # None
    /\ winner \in {None, "retry", "discard"} /\ replaced \in BOOLEAN
    /\ rec \in [state : {"assigned", "delivery-uncertain", "delivered", "failed"},
                disposition : {None, "delivered", "lost", "unverified"}, discarded : BOOLEAN]
    /\ taken \in BOOLEAN
    /\ host \in Executors \cup {None}
    /\ exec \in [Executors -> Passes]
    /\ settle \in Settlements /\ repair \in Outcomes \cup {None}
    /\ discard \in Discards /\ retry \in Retries
    /\ retries \in 0..MaxRetries /\ faults \in 0..MaxFaults

(* Whatever executors, settlements and requests race, the journal lets one  *)
(* of Retry and Discard decide about a send, for good: a discarded send     *)
(* neither leaves that status nor is replaced by a fresh attempt, and a     *)
(* retried one is never discarded (journal.ts:973, :1183, :1379).           *)
OneDecision == [][
    /\ winner # None => winner' = winner
    /\ winner = "discard" => op'.status = "discarded" /\ replaced' = replaced
    /\ op'.status = "discarded" => winner' = "discard"]_vars

(* Neither store calls a send delivered that never reached the agent,       *)
(* although its executor, the settlement, the repair and a Discard all may  *)
(* write it, from evidence or from what another wrote.                      *)
DeliveredArrived == op.status = "delivered" \/ rec.state = "delivered" => taken

(* An answer the sender already has stays one (sendSettlement.ts:100): the  *)
(* record of a delivered send never changes, that of a send called safe to  *)
(* send again never returns in flight, and what the journal discarded stays *)
(* discarded, whatever late verdict is still on its way to the record.      *)
AnswersStay == [][
    /\ rec.state = "delivered" => rec' = rec
    /\ ResendSafe(rec) => ~InFlight(rec')
    /\ rec.discarded /\ winner = "discard" => rec'.discarded]_rec

(* However a send was lost, by a dead Viewer, a dead host, an owner nobody  *)
(* can name or a retry that stopped half-way, its record ends               *)
(* (sendSettlement.ts:54, "queued is never a final answer").                *)
EverySendEnds == <>[](replaced \/ ~InFlight(rec))

(* A delivery the journal took but the record missed, because the answer    *)
(* was lost or the record had ended unverified by then, reaches the record  *)
(* (structuredDeliveryController.ts:436).                                   *)
DeliveredIsToldSo ==
    op.status = "delivered" ~> rec.state = "delivered" \/ rec.discarded \/ replaced

(* The settlement's fence from `queued' proves that the send never reached  *)
(* the agent: sendSettlement.ts:116, "accepted for delivery but never       *)
(* executed", and :102, non-execution is "the ONLY thing this module will   *)
(* call safe to send again".  The code breaks it: a timed out thread read   *)
(* puts a send that may have arrived back, by the automatic retry or by a   *)
(* second attempt that is declined, and the fence does not look at the      *)
(* receipt's deliveryUnverified, which only the former sets.                *)
FenceProvesUnsent ==
    [][op.status = "queued" /\ settle.pc = "fence" /\ settle' = [pc |-> "verdict", outcome |-> Lost]
         => ~taken]_settle
=============================================================================
