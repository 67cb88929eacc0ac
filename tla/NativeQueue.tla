---------------------------- MODULE NativeQueue -----------------------------
(***************************************************************************)
(* Exactly-once hand-over of queued messages to Codex's own queue: the     *)
(* executors that carry an admitted operation to Codex                     *)
(* (src/lib/runtime/nativeQueueExecutor.ts), the adapter that carries one  *)
(* request (nativeCodexQueue.ts), the journal they settle it in            *)
(* (NativeQueueJournal) and, external to the repository, Codex with its    *)
(* queue, its turns and its transcript.                                    *)
(*                                                                         *)
(* One conversation on one thread.  Between two awaits an executor is one  *)
(* step; at every await anything else may happen, a crash included.        *)
(***************************************************************************)
EXTENDS Naturals, FiniteSets

CONSTANTS
    Operations,   \* operation ids; the id of an add is also its entry's id
    Messages,     \* the operations that add a message; the others control it
    Executors,    \* concurrent calls of NativeQueueExecutor.execute
    Thread,       \* the conversation's binding
    MaxRevision,  \* bound: versions of one message
    MaxTurns,     \* bound: turns Codex starts
    MaxHosts,     \* bound: incarnations of the agent host
    None

ASSUME NativeQueueAssumption ==
    /\ Messages \subseteq Operations
    /\ IsFiniteSet(Operations)
    /\ MaxRevision \in Nat \ {0} /\ MaxTurns \in Nat /\ MaxHosts \in Nat \ {0}
    /\ None \notin Operations \cup {Thread} \cup Nat
    /\ None \notin [revision : Nat, turn : Nat, input : Nat]

VARIABLES
    ops, entries,  \* the journal
    exec,          \* the executors' local states
    fence,         \* the turn a send-now named; a started turn, or None for idle
    wire,          \* requests on their way to Codex
    queue,         \* submissions Codex holds
    transcript,    \* messages in Codex's canonical history
    active,        \* Codex's running turn
    turns,         \* number of turns started
    issued,        \* number of submission ids issued
    host,          \* the resolved host's incarnation, 0 when there is none
    hosts,         \* incarnations so far
    seen           \* reconciliation: observed submissions not yet recorded

journal == <<ops, entries>>
codex == <<queue, transcript, active, turns, issued>>
hosting == <<host, hosts>>
vars == <<journal, exec, fence, wire, codex, hosting, seen>>

Turns == 1..MaxTurns
Submissions == 1..Cardinality(Operations)

(* A version's prepared payload is identified by its revision: it carries  *)
(* the delivery key of the entry and the revision.                         *)
J == INSTANCE NativeQueueJournal WITH
        Bindings <- {Thread}, Inputs <- 1..MaxRevision

-----------------------------------------------------------------------------
(* An executor at work                                                     *)

Methods == {"queue/add", "queue/update", "queue/delete", "queue/start",
            "turn/start", "turn/steer"}

Idle == [pc |-> "idle"]

(* What it read of its operation's entry, the host it resolved, the request*)
(* it waits for, and how it will end the operation if it throws.           *)
Working(op) ==
    [pc |-> "known", op |-> op, sub |-> None, withdrawn |-> FALSE, revision |-> 0,
     host |-> 0, idle |-> FALSE, prepared |-> FALSE, method |-> None, reply |-> None,
     ends |-> "failed"]

At(x, pc) == exec[x].pc = pc
Op(x) == exec[x].op
Action(x) == ops[Op(x)].action
EntryOf(x) == ops[Op(x)].entry
Move(x, pc) == exec' = [exec EXCEPT ![x].pc = pc]
Stop(x) == exec' = [exec EXCEPT ![x] = Idle]
Throw(x, ends) == exec' = [exec EXCEPT ![x] = [@ EXCEPT !.pc = "caught", !.ends = ends]]

(* owns(): the host it resolved is still the conversation's host.          *)
OwnsHost(x) == host # 0 /\ exec[x].host = host

(* An operation whose status has moved since it was listed is dropped.     *)
Pick(x, op) ==
    /\ At(x, "idle")
    /\ ops[op].effect
    /\ ops[op].status = "queued"
    /\ exec' = [exec EXCEPT ![x] = Working(op)]
    /\ UNCHANGED <<journal, fence, wire, codex, hosting, seen>>

(* The drain may end an operation instead of executing it: the conversation*)
(* was terminated or its account switch failed.                            *)
Terminate(x) ==
    /\ At(x, "known")
    /\ Move(x, "refusing")
    /\ UNCHANGED <<journal, fence, wire, codex, hosting, seen>>

(* Read the entry; an operation that is not its fence any more is dropped, *)
(* one without a host is refused.                                          *)
ReadEntry(x) ==
    /\ At(x, "known")
    /\ LET entry == entries[EntryOf(x)] IN
       IF entry.mutation # Op(x) THEN Stop(x)
       ELSE exec' = [exec EXCEPT ![x] =
              [@ EXCEPT !.pc = IF host = 0 THEN "refusing" ELSE "read",
                        !.sub = entry.submission,
                        !.withdrawn = entry.state = "withdrawn",
                        !.revision = entry.revision,
                        !.host = host]]
    /\ UNCHANGED <<journal, fence, wire, codex, hosting, seen>>

(* Preparing the input or reading the host's health fails, or the health   *)
(* forbids the action.                                                     *)
HealthRefuses(x) ==
    /\ At(x, "read")
    /\ Throw(x, "failed")
    /\ UNCHANGED <<journal, fence, wire, codex, hosting, seen>>

StartsTurn(x) ==
    \/ Action(x) = "start"
    \/ Action(x) = "send-now" /\ fence[Op(x)] = None

(* An add under a dispatch guard waits in the journal for an idle thread.  *)
HealthWaits(x) ==
    /\ At(x, "read")
    /\ Action(x) = "add"
    /\ active # None
    /\ Stop(x)
    /\ UNCHANGED <<journal, fence, wire, codex, hosting, seen>>

HealthAllows(x) ==
    /\ At(x, "read")
    /\ OwnsHost(x)
    /\ Action(x) = "send-now" => fence[Op(x)] = active
    /\ StartsTurn(x) => active = None
    /\ exec' = [exec EXCEPT ![x] = [@ EXCEPT !.pc = "ready", !.idle = active = None]]
    /\ UNCHANGED <<journal, fence, wire, codex, hosting, seen>>

(* The settlement fence of an add: the durable delivery record cannot be   *)
(* read, or has already ended the send.                                    *)
FenceUnreadable(x) ==
    /\ At(x, "ready")
    /\ Action(x) = "add"
    /\ Stop(x)
    /\ UNCHANGED <<journal, fence, wire, codex, hosting, seen>>

FenceSettled(x) ==
    /\ At(x, "ready")
    /\ Action(x) = "add"
    /\ Move(x, "fenced")
    /\ UNCHANGED <<journal, fence, wire, codex, hosting, seen>>

(* The journal's compare-and-swap, whose answer may be lost.               *)
Prepare(x) ==
    /\ At(x, "ready")
    /\ \/ /\ J!Prepare(Op(x), exec[x].revision, Thread)
          /\ \/ exec' = [exec EXCEPT ![x] = [@ EXCEPT !.pc = "prepared", !.prepared = TRUE]]
             \/ Throw(x, "failed")
       \/ /\ ~J!CanPrepare(Op(x), exec[x].revision, Thread)
          /\ Throw(x, "failed")
          /\ UNCHANGED journal
    /\ UNCHANGED <<fence, wire, codex, hosting, seen>>

(* A refusal outside any check of who prepared the operation.              *)
RefuseNow(x) ==
    /\ At(x, "refusing")
    /\ IF J!CanRefuse(Op(x)) THEN J!Refuse(Op(x)) ELSE UNCHANGED journal
    /\ Stop(x)
    /\ UNCHANGED <<fence, wire, codex, hosting, seen>>

RefuseFenced(x) ==
    /\ At(x, "fenced")
    /\ IF J!CanRefuse(Op(x)) THEN J!Refuse(Op(x)) /\ Stop(x)
       ELSE UNCHANGED journal /\ Throw(x, "failed")
    /\ UNCHANGED <<fence, wire, codex, hosting, seen>>

(* After the swap: the host changed, or the account or seat does not       *)
(* authorize the dispatch.                                                 *)
Unauthorized(x) ==
    /\ At(x, "prepared")
    /\ \/ ~OwnsHost(x)
       \/ Action(x) # "delete"
    /\ Throw(x, "failed")
    /\ UNCHANGED <<journal, fence, wire, codex, hosting, seen>>

(* ... or the authorization is unreadable, or a guarded add is not idle.   *)
Postpone(x) ==
    /\ At(x, "prepared")
    /\ OwnsHost(x)
    /\ Action(x) # "delete"
    /\ Move(x, "deferring")
    /\ UNCHANGED <<journal, fence, wire, codex, hosting, seen>>

(* If the answer of a committed deferral is lost, the call goes on to end  *)
(* an operation that is queued again and that it has not prepared again.   *)
Defer(x) ==
    /\ At(x, "deferring")
    /\ IF J!Owns(Op(x)) /\ J!Allowed(Op(x), "queued", FALSE)
       THEN /\ J!Defer(Op(x))
            /\ \/ Stop(x)
               \/ exec' = [exec EXCEPT ![x] =
                              [@ EXCEPT !.pc = "deferred", !.prepared = FALSE, !.ends = "failed"]]
       ELSE UNCHANGED journal /\ (Stop(x) \/ Throw(x, "failed"))
    /\ UNCHANGED <<fence, wire, codex, hosting, seen>>

(* The native write.                                                       *)
Send(x, method) ==
    /\ wire' = wire \cup {[by |-> x, op |-> Op(x), method |-> method,
                           client |-> EntryOf(x), revision |-> exec[x].revision,
                           sub |-> exec[x].sub, turn |-> fence[Op(x)]]}
    /\ exec' = [exec EXCEPT ![x] = [@ EXCEPT !.pc = "sent", !.method = method, !.reply = None]]

MethodFor(x, guarded) ==
    CASE Action(x) = "add" -> IF guarded THEN "turn/start" ELSE "queue/add"
      [] Action(x) = "update" -> "queue/update"
      [] StartsTurn(x) -> IF exec[x].withdrawn THEN "turn/start" ELSE "queue/start"
      [] OTHER -> "queue/delete"

(* sendWithdrawn checks the turn it expects before it writes.              *)
TurnHolds(x, method) ==
    /\ method = "turn/start" => active = None
    /\ method = "turn/steer" => active = fence[Op(x)]

Actuate(x) ==
    /\ At(x, "prepared")
    /\ OwnsHost(x)
    /\ \E guarded \in BOOLEAN :
          LET method == MethodFor(x, guarded) IN
          /\ Action(x) = "add" /\ guarded => exec[x].idle
          /\ IF TurnHolds(x, method) THEN Send(x, method)
             ELSE Throw(x, "failed") /\ UNCHANGED wire
    /\ UNCHANGED <<journal, fence, codex, hosting, seen>>

(* Broken variants, named ...Bug here and below: the properties must tell  *)
(* them from the code.                                                     *)
LoseReplyRefusesBug(x) ==
    /\ At(x, "sent")
    /\ Throw(x, "failed")
    /\ UNCHANGED <<journal, fence, wire, codex, hosting, seen>>

(* The request's deadline passes, the connection breaks, or the answer     *)
(* cannot be parsed: the outcome is unknown.                               *)
LoseReply(x) ==
    /\ At(x, "sent")
    /\ Throw(x, "uncertain")
    /\ UNCHANGED <<journal, fence, wire, codex, hosting, seen>>

(* Codex, or the disposed adapter, refused the request.                    *)
ReceiveRefusal(x) ==
    /\ At(x, "sent")
    /\ exec[x].reply # None /\ exec[x].reply.kind = "refused"
    /\ Throw(x, "failed")
    /\ UNCHANGED <<journal, fence, wire, codex, hosting, seen>>

Acknowledge(x, reply) ==
    CASE reply.kind = "queued" -> J!AcknowledgeQueued(Op(x), reply.sub)
      [] reply.kind = "turn" -> J!AcknowledgeDispatched(Op(x), reply.turn)
      [] reply.kind = "deleted" -> J!AcknowledgeDeleted(Op(x), reply.deleted)

Acknowledgeable(x, reply) ==
    /\ J!CanAcknowledge(Op(x))
    /\ CASE reply.kind = "queued" -> J!AcceptsSubmission(Op(x), reply.sub)
         [] reply.kind = "turn" -> J!Dispatches(Op(x))
         [] reply.kind = "deleted" -> Action(x) = "delete"

(* A delete that is the first half of a send-now is not acknowledged.      *)
Halfway(x) == Action(x) = "send-now" /\ exec[x].method = "queue/delete"

ReceiveReply(x) ==
    /\ At(x, "sent")
    /\ ~Halfway(x)
    /\ LET reply == exec[x].reply IN
       /\ reply # None /\ reply.kind # "refused"
       /\ \/ /\ Acknowledgeable(x, reply)
             /\ Acknowledge(x, reply)
             /\ \/ IF reply.kind = "deleted" /\ reply.deleted THEN Move(x, "removing")
                   ELSE Stop(x)
                \/ Throw(x, "uncertain")
          \/ /\ ~Acknowledgeable(x, reply)
             /\ Throw(x, "uncertain")
             /\ UNCHANGED journal
    /\ UNCHANGED <<fence, wire, codex, hosting, seen>>

(* The deleted entry's add ends as discarded.                              *)
RemoveEntry(x) ==
    /\ At(x, "removing")
    /\ IF J!CanRemove(EntryOf(x)) THEN J!Remove(EntryOf(x)) /\ Stop(x)
       ELSE UNCHANGED journal /\ Throw(x, "uncertain")
    /\ UNCHANGED <<fence, wire, codex, hosting, seen>>

WithdrawalUnprovenBug(x) ==
    /\ At(x, "sent")
    /\ Halfway(x)
    /\ exec[x].reply # None /\ exec[x].reply.kind = "deleted"
    /\ IF J!CanMarkWithdrawn(Op(x))
       THEN J!MarkWithdrawn(Op(x)) /\ (Move(x, "steering") \/ Throw(x, "uncertain"))
       ELSE UNCHANGED journal /\ Throw(x, "uncertain")
    /\ UNCHANGED <<fence, wire, codex, hosting, seen>>

(* Only a positive withdrawal is the authority to steer the payload.       *)
ReceiveWithdrawal(x) ==
    /\ At(x, "sent")
    /\ Halfway(x)
    /\ exec[x].reply # None /\ exec[x].reply.kind = "deleted"
    /\ IF exec[x].reply.deleted
       THEN IF J!CanMarkWithdrawn(Op(x))
            THEN J!MarkWithdrawn(Op(x)) /\ (Move(x, "steering") \/ Throw(x, "uncertain"))
            ELSE UNCHANGED journal /\ Throw(x, "uncertain")
       ELSE IF J!CanMarkUncertain(Op(x))
            THEN J!MarkUncertain(Op(x)) /\ Stop(x)
            ELSE UNCHANGED journal /\ Throw(x, "uncertain")
    /\ UNCHANGED <<fence, wire, codex, hosting, seen>>

(* The second half of a send-now: the payload is steered, refused, or, as  *)
(* its authorization is unreadable, left unknown.                          *)
Steer(x) ==
    /\ At(x, "steering")
    /\ \/ OwnsHost(x) /\ TurnHolds(x, "turn/steer") /\ Send(x, "turn/steer")
       \/ \E ends \in {"failed", "uncertain"} : Throw(x, ends) /\ UNCHANGED wire
    /\ UNCHANGED <<journal, fence, codex, hosting, seen>>

(* The catch block: leave an operation that has ended, or that somebody    *)
(* else prepared; then leave an entry another mutation owns; else end it.  *)
CatchStatus(x) ==
    /\ At(x, "caught")
    /\ IF \/ ops[Op(x)].status \in {"delivered", "applied"}
          \/ ops[Op(x)].status = "delivering" /\ ~exec[x].prepared
       THEN Stop(x) ELSE Move(x, "checked")
    /\ UNCHANGED <<journal, fence, wire, codex, hosting, seen>>

(* The call takes an operation it deferred for its own still, so it does   *)
(* not leave one that a rival has prepared since.                          *)
CatchDeferred(x) ==
    /\ At(x, "deferred")
    /\ IF ops[Op(x)].status \in {"delivered", "applied"} THEN Stop(x) ELSE Move(x, "checked")
    /\ UNCHANGED <<journal, fence, wire, codex, hosting, seen>>

CatchEntry(x) ==
    /\ At(x, "checked")
    /\ IF entries[EntryOf(x)].mutation # Op(x) THEN Stop(x) ELSE Move(x, "ending")
    /\ UNCHANGED <<journal, fence, wire, codex, hosting, seen>>

End(x) ==
    /\ At(x, "ending")
    /\ IF exec[x].ends = "failed"
       THEN IF J!CanRefuse(Op(x)) THEN J!Refuse(Op(x)) ELSE UNCHANGED journal
       ELSE IF J!CanMarkUncertain(Op(x)) THEN J!MarkUncertain(Op(x)) ELSE UNCHANGED journal
    /\ Stop(x)
    /\ UNCHANGED <<fence, wire, codex, hosting, seen>>

(* The process dies, or a journal read fails and the call is abandoned.    *)
Crash(x) ==
    /\ ~At(x, "idle")
    /\ Stop(x)
    /\ UNCHANGED <<journal, fence, wire, codex, hosting, seen>>

Execute(x) ==
    \/ \E op \in Operations : Pick(x, op)
    \/ Terminate(x) \/ ReadEntry(x)
    \/ HealthRefuses(x) \/ HealthWaits(x) \/ HealthAllows(x)
    \/ FenceUnreadable(x) \/ FenceSettled(x) \/ RefuseFenced(x) \/ RefuseNow(x)
    \/ Prepare(x) \/ Unauthorized(x) \/ Postpone(x) \/ Defer(x) \/ Actuate(x)
    \/ LoseReply(x) \/ ReceiveRefusal(x) \/ ReceiveReply(x) \/ RemoveEntry(x)
    \/ ReceiveWithdrawal(x) \/ Steer(x)
    \/ CatchStatus(x) \/ CatchDeferred(x) \/ CatchEntry(x) \/ End(x)
    \/ Crash(x)

-----------------------------------------------------------------------------
(* Admission: a user's message and controls, the owner's seat revocation   *)

AdmitAdd(op) ==
    /\ \E send \in BOOLEAN : J!AdmitAdd(op, send, Thread)
    /\ UNCHANGED <<exec, fence, wire, codex, hosting, seen>>

AdmitControl(op) ==
    /\ \E action \in {"update", "delete", "start", "send-now"}, e \in Operations :
          /\ J!Exists(e)
          /\ J!AdmitControl(op, action, e, Thread, entries[e].revision)
          /\ \E t \in IF action = "send-now" THEN {active, None} ELSE {None} :
                fence' = [fence EXCEPT ![op] = t]
    /\ UNCHANGED <<exec, wire, codex, hosting, seen>>

WithdrawSeat(op) ==
    /\ J!WithdrawSeat(op)
    /\ UNCHANGED <<exec, fence, wire, codex, hosting, seen>>

-----------------------------------------------------------------------------
(* Codex, external                                                         *)

Delivered(item, turn) ==
    [client |-> item.client, revision |-> item.revision, turn |-> turn]

StartTurn ==
    /\ active = None
    /\ turns < MaxTurns
    /\ turns' = turns + 1
    /\ active' = turns + 1

(* A request is taken off the wire; its reply reaches the executor only    *)
(* while that still waits for it, and may be lost on the way.              *)
Answer(r, reply) ==
    /\ wire' = wire \ {r}
    /\ \/ UNCHANGED exec
       \/ /\ At(r.by, "sent") /\ exec[r.by].op = r.op /\ exec[r.by].method = r.method
          /\ exec' = [exec EXCEPT ![r.by].reply = reply]

ServeAdd(r) ==
    /\ r.method = "queue/add"
    /\ issued < Cardinality(Operations)
    /\ issued' = issued + 1
    /\ queue' = queue \cup {[client |-> r.client, revision |-> r.revision, sub |-> issued + 1]}
    /\ Answer(r, [kind |-> "queued", sub |-> issued + 1])
    /\ UNCHANGED <<transcript, active, turns>>

ServeUpdate(r) ==
    /\ r.method = "queue/update"
    /\ \E item \in queue :
          /\ item.sub = r.sub
          /\ queue' = (queue \ {item}) \cup {[item EXCEPT !.revision = r.revision]}
    /\ Answer(r, [kind |-> "queued", sub |-> r.sub])
    /\ UNCHANGED <<transcript, active, turns, issued>>

ServeDelete(r) ==
    /\ r.method = "queue/delete"
    /\ queue' = {item \in queue : item.sub # r.sub}
    /\ Answer(r, [kind |-> "deleted", deleted |-> queue' # queue])
    /\ UNCHANGED <<transcript, active, turns, issued>>

ServeQueueStart(r) ==
    /\ r.method = "queue/start"
    /\ StartTurn
    /\ \E item \in queue :
          /\ item.sub = r.sub
          /\ queue' = queue \ {item}
          /\ transcript' = transcript \cup {Delivered(item, active')}
    /\ Answer(r, [kind |-> "turn", turn |-> active'])
    /\ UNCHANGED issued

ServeTurnStart(r) ==
    /\ r.method = "turn/start"
    /\ StartTurn
    /\ transcript' = transcript \cup {Delivered(r, active')}
    /\ Answer(r, [kind |-> "turn", turn |-> active'])
    /\ UNCHANGED <<queue, issued>>

ServeSteer(r) ==
    /\ r.method = "turn/steer"
    /\ active = r.turn
    /\ transcript' = transcript \cup {Delivered(r, active)}
    /\ Answer(r, [kind |-> "turn", turn |-> active])
    /\ UNCHANGED <<queue, active, turns, issued>>

(* Codex or a disposed adapter refuses, without an effect.                 *)
RefuseRequest(r) ==
    /\ Answer(r, [kind |-> "refused"])
    /\ UNCHANGED codex

Serve(r) ==
    /\ \/ ServeAdd(r) \/ ServeUpdate(r) \/ ServeDelete(r) \/ ServeQueueStart(r)
       \/ ServeTurnStart(r) \/ ServeSteer(r) \/ RefuseRequest(r)
    /\ UNCHANGED <<journal, fence, hosting, seen>>

(* An idle thread takes a queued submission by itself.                     *)
Dispatch ==
    /\ StartTurn
    /\ \E item \in queue :
          /\ queue' = queue \ {item}
          /\ transcript' = transcript \cup {Delivered(item, active')}
    /\ UNCHANGED <<journal, exec, fence, wire, issued, hosting, seen>>

(* Somebody else's turn; the bound keeps a turn for every message.         *)
Undelivered == {op \in Messages : \A item \in transcript : item.client # op}

OtherTurn ==
    /\ StartTurn
    /\ turns + Cardinality(Undelivered) < MaxTurns
    /\ UNCHANGED <<journal, exec, fence, wire, queue, transcript, issued, hosting, seen>>

EndTurn ==
    /\ active # None
    /\ active' = None
    /\ UNCHANGED <<journal, exec, fence, wire, queue, transcript, turns, issued, hosting, seen>>

-----------------------------------------------------------------------------
(* The agent host                                                          *)

(* Codex's queue and transcript outlive the host; its turn does not.       *)
LoseHost ==
    /\ host # 0
    /\ hosts < MaxHosts
    /\ host' = 0
    /\ active' = None
    /\ UNCHANGED <<journal, exec, fence, wire, queue, transcript, turns, issued, hosts, seen>>

ReplaceHost ==
    /\ host = 0
    /\ host' = hosts + 1
    /\ hosts' = hosts + 1
    /\ UNCHANGED <<journal, exec, fence, wire, codex, seen>>

-----------------------------------------------------------------------------
(* Reconciliation: NativeQueueExecutor.reconcile, pass after pass          *)

(* Read Codex's queue and keep, of every unresolved mutation, the single   *)
(* submission that shows its frozen input.  The records were read earlier; *)
(* the journal checks ownership and input again when it records one.       *)
ReadQueue ==
    /\ host # 0
    /\ seen' = {o \in [op : Operations, sub : Submissions, revision : 1..MaxRevision] :
          \E e \in Operations :
             /\ J!Exists(e)
             /\ entries[e].mutation = o.op
             /\ J!Current(entries[e]).input = o.revision
             /\ {[sub |-> item.sub, revision |-> item.revision] :
                    item \in {i \in queue : i.client = e}}
                  = {[sub |-> o.sub, revision |-> o.revision]}}
    /\ UNCHANGED <<journal, exec, fence, wire, codex, hosting>>

RecordQueued(o) ==
    /\ o \in seen
    /\ seen' = seen \ {o}
    /\ IF J!CanObserveQueued(o.op, o.sub) /\ entries[ops[o.op].entry].revision = o.revision
       THEN J!ObserveQueued(o.op, o.sub) ELSE UNCHANGED journal
    /\ UNCHANGED <<exec, fence, wire, codex, hosting>>

RecordRemovedOpenBug(e) ==
    /\ host # 0
    /\ J!CanRemove(e)
    /\ ops[e].status \in {"queued", "delivering"}
    /\ J!Remove(e)
    /\ UNCHANGED <<exec, fence, wire, codex, hosting, seen>>

(* Retry the discard a crash separated from its delete.                    *)
RecordRemoved(e) ==
    /\ host # 0
    /\ J!CanRemove(e)
    /\ ops[e].status # "failed"
    /\ J!Remove(e)
    /\ UNCHANGED <<exec, fence, wire, codex, hosting, seen>>

RecordUnsettledProofBug(item) ==
    LET e == item.client
        proof == [revision |-> item.revision, turn |-> item.turn, input |-> item.revision]
    IN  /\ host # 0
        /\ entries[e].state \in {"queued", "dispatching"}
        /\ J!CanProve(e, proof)
        /\ J!Prove(e, proof)
        /\ UNCHANGED <<exec, fence, wire, codex, hosting, seen>>

(* Canonical history shows the message.  The entry was picked from records *)
(* read before the history, and may have been refused, removed or proven   *)
(* since: the journal judges.  Messages never leave the history.           *)
RecordProof(item) ==
    LET e == item.client
        proof == [revision |-> item.revision, turn |-> item.turn, input |-> item.revision]
    IN  /\ host # 0
        /\ J!CanProve(e, proof)
        /\ J!Prove(e, proof)
        /\ UNCHANGED <<exec, fence, wire, codex, hosting, seen>>

-----------------------------------------------------------------------------
Init ==
    /\ J!Init
    /\ exec = [x \in Executors |-> Idle]
    /\ fence = [op \in Operations |-> None]
    /\ wire = {}
    /\ queue = {} /\ transcript = {}
    /\ active = None /\ turns = 0 /\ issued = 0
    /\ host = 1 /\ hosts = 1
    /\ seen = {}

Next ==
    \/ \E op \in Messages : AdmitAdd(op)
    \/ \E op \in Operations \ Messages : AdmitControl(op)
    \/ \E op \in Operations : WithdrawSeat(op)
    \/ \E x \in Executors : Execute(x)
    \/ \E r \in wire : Serve(r)
    \/ Dispatch \/ OtherTurn \/ EndTurn
    \/ LoseHost \/ ReplaceHost
    \/ ReadQueue
    \/ \E o \in seen : RecordQueued(o)
    \/ \E e \in Operations : RecordRemoved(e)
    \/ \E item \in transcript : RecordProof(item)

Spec == Init /\ [][Next]_vars

(* A call that did not prepare its operation refuses it in the journal     *)
(* while the call that did is between prepare and settlement: the code     *)
(* lets it, and the schedules without such a step are those in which the   *)
(* compare-and-swap of `prepared` is the boundary it is meant to be.       *)
RivalRefusal ==
    \E x \in Executors : /\ ~At(x, "idle") /\ ~exec[x].prepared
                         /\ ops[Op(x)].status = "delivering"
                         /\ ops'[Op(x)].status = "failed"
                         /\ exec'[x] = Idle

PreparedSpec == Init /\ [][Next /\ ~RivalRefusal]_vars

(* A recovered host serves the thread, Codex works through its queue and   *)
(* the controller's backoff repeats reconciliation; users, executors and   *)
(* replies owe nothing.                                                    *)
Fairness ==
    /\ WF_vars(ReplaceHost)
    /\ WF_vars(Dispatch)
    /\ WF_vars(EndTurn)
    /\ WF_vars(\E item \in transcript : RecordProof(item))
    /\ WF_vars(\E e \in Operations : RecordRemoved(e))

FairSpec == Spec /\ Fairness

-----------------------------------------------------------------------------
(* Properties                                                              *)

(* Type of the composed state.                                             *)
TypeOK ==
    /\ J!TypeOK
    /\ \A x \in Executors : At(x, "idle") \/ Op(x) \in Operations
    /\ \A item \in queue : item.client \in Operations /\ item.sub \in 1..issued
    /\ active \in {None, turns} /\ turns \in 0..MaxTurns
    /\ host \in {0, hosts} /\ hosts \in 1..MaxHosts

(* Where the payload of e is: on its way, in Codex's queue or in a turn.   *)
InFlight(e) ==
    {r \in wire : r.client = e /\ r.method \in {"queue/add", "turn/start", "turn/steer"}}
InQueue(e) == {item \in queue : item.client = e}
InTranscript(e) == {item \in transcript : item.client = e}

(* Lost replies, crashes, withdrawals and reconciliations never let Codex  *)
(* have a message twice: execute's prepared boundary, its refusal to retry *)
(* an unknown outcome and the withdrawal before a steer together leave one *)
(* copy at most.  With one executor at a time this is so without a         *)
(* condition; with several, as long as no call refuses what another has    *)
(* prepared (PreparedSpec).  Under Spec a rival's refusal breaks it.       *)
OneCopy ==
    \A e \in Operations :
        Cardinality(InFlight(e)) + Cardinality(InQueue(e)) + Cardinality(InTranscript(e)) <= 1

(* A message the journal calls refused or removed, and one it calls        *)
(* withdrawn and open for another start, is nowhere in Codex's hands and   *)
(* on no way there: its sender may send it again.                          *)
RefusedLeavesNoCopy ==
    \A e \in Operations :
        \/ J!Exists(e) /\ entries[e].state \in {"refused", "removed"}
        \/ J!Exists(e) /\ entries[e].state = "withdrawn" /\ entries[e].mutation = None
        => InFlight(e) = {} /\ InQueue(e) = {} /\ InTranscript(e) = {}

(* A message the journal calls queued or dispatching, with no change       *)
(* unresolved, is really with Codex, in the current revision if queued.    *)
AcknowledgedIsHeld ==
    \A e \in Operations : J!Exists(e) /\ entries[e].mutation = None =>
        /\ entries[e].state = "queued" =>
              \/ InTranscript(e) # {}
              \/ \E item \in InQueue(e) : item.revision = entries[e].revision
                                          /\ item.sub = entries[e].submission
        /\ entries[e].state = "dispatching" => InTranscript(e) # {}

(* The whole hand-over implements the sender's view of one message.        *)
CustodyOf(e) ==
    IF ~J!Exists(e) THEN "absent"
    ELSE IF entries[e].state \in {"refused", "removed"} THEN "ended"
    ELSE IF entries[e].state = "delivered" THEN "proven"
    ELSE IF InTranscript(e) # {} THEN "history"
    ELSE IF InFlight(e) \cup InQueue(e) # {} THEN "codex"
    ELSE "journal"

Custody == INSTANCE MessageCustody WITH
              Messages <- Operations, custody <- [e \in Operations |-> CustodyOf(e)]

ImplementsCustody == Custody!Spec

(* A message Codex queued is proven delivered at last, whatever replies,   *)
(* executors and hosts were lost, unless a control was to take it out of   *)
(* the queue.                                                              *)
TakenOut(e) ==
    \E op \in Operations : /\ ops[op] # J!NoOp
                           /\ ops[op].entry = e
                           /\ ops[op].action \in {"delete", "send-now"}

QueuedReachesProof ==
    \A e \in Operations :
        InQueue(e) # {} ~> (entries[e] # J!NoEntry /\ entries[e].state = "delivered") \/ TakenOut(e)

(* An entry Codex deleted is discarded in the journal at last: its add     *)
(* reads failed, although the executor may die, or lose an answer, between *)
(* the acknowledged delete and the discard.                                *)
RemovedIsDiscarded ==
    \A e \in Operations :
        entries[e] # J!NoEntry /\ entries[e].state = "removed" ~> ops[e].status = "failed"
=============================================================================
