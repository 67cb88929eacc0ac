# Delegatus in TLA+

Delegatus runs coding agents (Claude Code, Codex, Copilot) for a user: a *Viewer*
server holds conversations and talks to the browser, a *runtime host* process owns
the durable journal of operations, and *agent hosts* own one engine process each.
All three are restarted, replaced and updated while conversations go on. The
modules here specify the parts that decide whether a conversation keeps exactly
one owner and a message reaches its engine exactly once. Paths below are relative
to the repository; `src/lib/runtime/x.ts` is the code of the program.

## Contents

| module | models | extends / uses |
|---|---|---|
| `HandoffLease` | what a handoff promises one conversation (abstract) | |
| `HandoffQueue` | `src/lib/runtime/handoffQueue.ts`, the durable handoff reducer | instance of `HandoffLease` |
| `HandoffQueueProofs` | its theorems | `HandoffQueue`, TLAPS |
| `NativeQueueJournal` | `src/runtime-host/nativeQueueJournal.ts` and the admissions, transitions and compaction of `journal.ts` around it | |
| `NativeQueueJournalProofs` | its theorems | `NativeQueueJournal`, TLAPS |
| `MessageCustody` | what the native queue promises the sender of one message (abstract) | |
| `NativeQueue` | `src/lib/runtime/nativeQueueExecutor.ts`, the adapter `nativeCodexQueue.ts`, the journal and Codex | instances of `NativeQueueJournal`, `MessageCustody` |
| `NativeQueueProofs`, `NativeQueueCopies`, `NativeQueueHeld` | its theorems: types, the journal and submissions; copies and the sender's view; what the journal says Codex has | `NativeQueue`, instance of `NativeQueueJournalProofs`, TLAPS |
| `CpuAdmission` | `src/lib/runtime/cpuAdmission.ts`, the older release in `cpuAdmission.prePoll.fixture.ts`, and their callers | |
| `CpuAdmissionProofs` | its theorems | `CpuAdmission`, TLAPS |
| `SendDelivery` | one send: `journal.ts`, `structuredDeliveryQueue.ts`, `structuredDeliveryController.ts`, `sendSettlement.ts`, the delivery record of `lib/agent/registry.ts`, Retry and Discard of `http.ts` | |
| `SendDeliveryProofs` | its theorems | `SendDelivery`, TLAPS |
| `RuntimeHostFence` | `src/runtime-host/runtimeHostFence.ts`, `fenceLock.ts`, `fenceWait.ts` | |
| `RuntimeHostFenceProofs` | its theorems | `RuntimeHostFence`, TLAPS |
| `MC...` | TLC instances: model values, symmetry sets | |

Check with `tlc -config X.cfg M.tla` and `tlapm` on the six `...Proofs`
modules, `NativeQueueCopies` and `NativeQueueHeld`. Operators
whose name ends in `Bug` are broken variants of the definition after them; no
specification uses them. They show that the properties tell them from the code.

## Inventory

| component | state | operations | what is hard | what makes it correct |
|---|---|---|---|---|
| Handoff queue (`lib/runtime/handoffQueue*.ts`) | active rows, history, draining generations | enqueue, beginDrain, admitMessage, refreshTurnState, claim, acknowledgeReplay, failCandidate, markRetryableFailure | any caller, any order; crash between calls; repeated promotions | one row and one owner per conversation, coherent fence, no delivery lost or replayed after its confirmation |
| Native queue journal (`runtime-host/nativeQueueJournal.ts`) | entries, holds | admit, transition, proveCompacted | late and repeated transitions, compaction | one unresolved mutation per entry, truthful receipts, frozen history |
| Runtime journal (`runtime-host/journal.ts`) | operations, outbox effects, sessions, events, consumers | executeOperation, transitionOperation, retry/discard, compaction | idempotent replay, racing outcomes, retention | one outcome per operation, no owed effect dropped |
| Native queue executor and adapter (`lib/runtime/nativeQueueExecutor.ts`, `nativeCodexQueue.ts`) | a call's local state | execute, reconcile, withdrawNativeSeatMessage | unknown outcome of a write, stale reads across awaits, crashes, rivals | at most one copy, truthful journal, eventual proof |
| Structured delivery (`structuredDeliveryQueue/Controller`, `structuredMessageDelivery`, `sendSettlement`, `http`, `deliveryProgress`) | held deliveries, lanes, wakes, settlements | hold, drain, settle, repair, cancel, retry, discard | two stores without a common transaction; late verdicts, lost answers, two processes | one decision per send, an answer that stays, an end for every send |
| Runtime host fence (`runtimeHostFence`, `fenceLock`, `fenceWait`) | the file, its record, a lock and its descriptor | acquire, release, wait | death between two system calls, a replaced file, a predecessor without a lock, parked successors | one runtime host serves, and one comes to serve |
| CPU admission (`cpuAdmission`, `cpuPressure`, `scripts/cpu-admission.ts`) | tickets, holds, passed-over marks, admissions in one SQLite file | check, cancel, suspend, reconcile | every process of the machine, two releases, dead and silent owners, observations older than the lock | nobody waits for nobody, overtakes, or loses the place it polls for |
| Codex app-server host (`codexAppServerHost`) | process, turn, attention, native queue adapter | send, steer, withdrawn send, evidence | callbacks against awaits | a payload meets the turn it was meant for |
| Other agent hosts (`claudeStreamBrokerHost`), retirement, spawn | process, turn, attention | start, send, retire | callbacks against exits | idle retirement never kills work |
| Deployment (`runtime-host/deployment*`, `hostSuccessor`, `hostRollback`) | generations, proxy target | stage, promote, roll back | crash between steps | one generation serves |
| Accounts and migration (`lib/accounts/migration`) | migrations, held deliveries | prepare, commit, cancel | switch during delivery | a message follows its thread |
| State stores and locks (`lib/state`) | files, SQLite | transaction, barrier | several processes | lost updates excluded |
| Agent registry (`lib/agent`) | conversations, generations, spawn tickets | many | size | one host per generation |
| Pipelines, flows, workflows | runs, stages, budgets | start, advance, fail, cancel | restarts | budget bounds, one live worker per stage |
| Orchestrator, tasks, links | seats, tasks | assign, revoke | revocation during delivery | a revoked seat sends nothing |
| Stream mux, monitor, lifecycle, self update, UI, CLI | derived or process state | | I/O | |

Components interact through the journal and the stores. The Deployer drives the
handoff queue during a promotion. The delivery controller drains one conversation
at a time and calls the native executor for Codex threads; the seat channel calls
`withdrawNativeSeatMessage` outside that lane. The executor writes to Codex through
the agent host and settles every outcome in the journal; reconciliation settles
later what the executor could not.

## The handoff queue

`rows` is the active table and `history` the completed one, keyed by operation id
(a pair of conversation and host generation, as `collectHandoffCandidates` builds
it); `draining` are the draining generations. Each method runs in one store
transaction and is one action. Callers are unconstrained: any generation may call
any method at any time, which includes every crash between two calls. `enqueue`
takes a snapshot of several conversations, and `beginDrain` and `failCandidate`
sweep all rows, so a step may move several leases. Of a delivery, its id, its `seq` and its
place in the row's list (`nth`) are kept, because replay sorts by `seq` and leaves equal ones
as they are listed; of a history row its acknowledgements, all that is read again. What callers
pass is unconstrained too: any two generations, and any `seq`, also one that is used or older
than a renumbering. The repository calls only `rows()` (`structuredDeliveryController.ts:1303`,
`structuredHostRetirement.ts:1235`), so there is no caller whose habits could be assumed.
`"unknown"` turns behave as `"idle"`. `ackedBy` is a history variable for one property.

`HandoffLease` forgets rows, operations and history: a lease has a phase, an
owner, the owner before it, deliveries owed and done, and those whose confirmation
no rollback can withdraw.

Properties: `OneLease`, `LeaseCoherent`, `AcksInherited`, `DeliveriesKept`, the refinement
`ImplementsLease`, and `CarriedStayFirst`: a delivery to be replayed before another stays
before it while its row stays, and before everything new in a snapshot that supersedes the row
without listing it.

## The native queue

Codex has a queue of its own. An operation (add, update, delete, start, send-now)
is admitted in the journal together with its *entry*, prepared by a compare-and-swap,
written to Codex, and acknowledged; canonical history proves the delivery later. An
unknown outcome is never retried.

`NativeQueueJournal` has the operations table with its owed effects (`ops`) and the
entries. An action is a whole transaction: receipt, effect and entry together. Any
transition may come at any time from anybody. `send` marks ordinary sends that were
converted to adds: they stay queued until proven. `Compact` may drop any operation
the code may drop; which ones lie behind the anchor, and the projections that keep
more of them, are left open.

`NativeQueue` composes it with the executors. Between two awaits an executor is one
step: it reads status, entry and host, checks health, consults the settlement
fence, prepares, sends, waits, and acknowledges, or falls into the catch block and
ends the operation `refused` or `uncertain`. A deferral whose answer is lost after it was
committed ends in the catch block too, which refuses the operation; a steer that throws ends `failed` or `uncertain`. `wire` holds requests that may be
served or refused at any later time, also when the caller has given up; replies
may be lost; an executor may crash at any point; the journal's answer to a
transition may be lost after it was committed. Codex serves, dispatches by itself
when idle, and its turns end; its queue and history outlive a host. Reconciliation
reads the queue in one step and records what it read in later ones, each when the journal
accepts it, and discards the adds of removed entries again on every pass. The order of
Codex's queue, which no property is about, is left open, so any queued message may
be next; the adapter's barrier that fails a queue read while its own mutation is
pending is left out, so more reads are allowed than the code makes.

`MessageCustody` is the sender's view: a message is in the runtime's hands, in
Codex's, in history, proven, or ended; ended and proven are final, and a message in
Codex's hands cannot be called ended.

Not in these modules: the succession of a thread between accounts, the rebinding
it needs in the executor (the journal's side is modelled), reorders and queue-level
starts in the executor, `proveCompacted`, attachments, and the 2000-entry bound.

## The CPU admission queue

Stages and heavy commands of all processes wait in one file; a check inserts the
caller's ticket, judges the others and admits it when it is first, the spacing is
over and pressure allows (or its bound is). `db` is the file: every statement of the
code with the triggers it fires is a function on it (`Queued`, `Held`, `Released`,
`Cancelled`...), and a transaction composes them in the code's order. `Observe` is
what a check reads before the lock (owners, rows, the task board) and `Check` the
transaction; anything may come between. `LegacyCheck` is the older release, whose
fixed statements the triggers complete. `life` is a command's process or a stage's
durable state, `board` the tasks' priorities. Instants are ages, cut off at
`Horizon`; `seq` is left out, as the code keeps it equal to the order of
(priority, fifo_seq).

`HeadExists`: no two tickets wait for each other, whatever the mix of releases.
`PolledKept`: whoever polls keeps its place. `NoOvertaking`: an admission respects
the board's priorities as they are, not as they were observed. `PollerAdmitted`:
a stage that polls starts at last.

Simplified: the observation is one step (it is three reads); one clock, that does not
go back; a key stays with one release and, if bound, one task; `reconcile`'s set of
active stages is the one at the moment of its transaction; a command's owner dies for
good, and its key never comes back while its ticket is there. The opening and
migration of the file, slots inherited through kernel locks and the pressure
sampler are not modelled.

## One send

A message to an agent has two durable sides: its operation in the runtime journal
(`op`, `winner` for the row of `delivery_operation_actions`) and its delivery record in
the registry (`rec`), which answers the sender. Each call of either store is one
transaction and one action; nothing joins the two. `exec` is an executor's pass over
the operation: it reads the record, sets the delivering fence with its own stamp, hands
the message to the host and ends the operation, requeues it, or leaves it to be told.
`settle`, `repair`, `discard` and `retry` are the other parties, each with what it has
read so far. `taken` says that the agent has the message, which only `delivered`
answers or the recipient's own history prove: `Send` is both attempts at the host, so any other
answer may follow a first attempt that wrote. A Viewer dies with its host and its
executor id (the stamp then names nobody), a host is lost, a pass or a call ends
anywhere, and a call that fails where the code has a second one (`terminalizeUnverified`,
`fenceOperation`: `failed` in place of `uncertain`) is followed by it. The settlement reads the
record, the journal, the record again, fences, reads the record and writes, each a step of its own;
its verdict waits between. A retry may meet a reservation without a host generation, which begins no
attempt. Verdicts keep what the properties tell apart: state, disposition, and
whether the operator's discard is the reason.

`OneDecision`: Retry or Discard, for good. `AnswersStay`: what the sender was told is
not taken back. `DeliveredArrived`: neither store invents a delivery.
`DeliveredIsToldSo`: a delivery in the journal reaches the record although the answer
was lost. `EverySendEnds`: no send stays in flight.

The initial state is a send just admitted. Left out: admission and holding, several
messages of a lane (batches, coalescing), steers and injections, idle continuations,
the update drain, the operations a fresh attempt has of its own (`replaced` ends the
model's interest), old hosts without the `uncertain` status, a Viewer without a
journal, and what engines do to recognise a message handed over twice. A settlement
starts at any time: the deadline is not a clock.

## The runtime host fence

Each system call of `acquire` is an action of a process; a call may be followed by any
other process's or by a death. `path` is the file the pathname names, `record` what a
file says of its owner, `lock` the kernel's lock on a file, freed when its holder
closes it or dies. `legacy` is a predecessor of the release that only owned the
pathname; it may leave with or without its file, and an operator may remove the file
of a fence nobody serves behind. `fenceWait.ts` is `Refused` with `NextTries`: a parked
process tries again for ever, any other may be past its budget.

`OneHost`: one host serves at most, the predecessor included. `ParkedServes`: while a
parked process lives and no predecessor serves, somebody comes to serve, again and
again, except in the state `Abandoned`. Not modelled: `removeOwnedSocket`, the second
handle Windows locks, reused process ids, and the removal of the file of a fence that
is held.

## Runs

| run | instance | shows |
|---|---|---|
| `HandoffDeliveries` | 1 conversation, 2 generations, 2 deliveries | `TypeOK`, `OneLease`, `LeaseCoherent`, `AcksInherited`, `DeliveriesKept`, `CarriedStayFirst`, `ImplementsLease` |
| `HandoffLostAck` | 3 generations, 1 delivery | violation: see below |
| `HandoffReorder` | as the deliveries | violation: see below |
| `JournalEdits` | 2 operations, two of every identity | `TypeOK`, `ProofExact`, `FenceLive`, `ReceiptTruth`, `HistoryFrozen` |
| `NativeQueueLive` | a message and a control, 1 executor, 3 turns, 2 host incarnations, fair | `TypeOK`, `AcknowledgedIsHeld`, `OneCopy`, `RefusedLeavesNoCopy`, `ImplementsCustody`, `QueuedReachesProof`, `RemovedIsDiscarded` |
| `NativeQueueRivals` | the same operations, 2 executors that refuse nothing the other prepared (`PreparedSpec`), 2 turns, 1 host | `OneCopy`, `RefusedLeavesNoCopy` |
| `NativeQueueRefusal` | one message, 2 executors | violation: see below |
| `CpuCommands` | 2 commands, one a gate's, one bound to a task and unverifiable | `TypeOK`, `PolledKept`, `NoOvertaking` |
| `CpuReleases` | 2 stages, one of the older release, the other bound and polling, fair | `TypeOK`, `HeadExists`, `PolledKept`, `PollerAdmitted` |
| `SendEnds` | 1 executor, 1 retry, 2 faults, fair | `TypeOK`, `DeliveredArrived`, `OneDecision`, `AnswersStay`, `EverySendEnds`, `DeliveredIsToldSo` |
| `SendLost` | 1 executor, no retry or fault | violation: see below |
| `FenceServes` | a parked host, 2 others, a legacy predecessor, 3 files, fair | `TypeOK`, `OneHost`, `ParkedServes` |

Bounds. Two generations may hand a conversation back and forth for ever, roll back
and supersede each other; two deliveries are the fewest with an order. Longer chains
and several conversations are covered by the proofs. `MaxSeq` bounds the sequence numbers callers pick: two, as many
as there are deliveries, so that a late message takes a number that is used, one that is free, and one from before a
renumbering. `MaxRevision` bounds the
edits of one message (128 in the code; reaching it is part of the runs). A third
operation gives an entry two successive controls; with one executor, and with several as long as
none refuses what another prepared, the proofs cover it. `NativeQueueRivals` therefore states its properties of the
schedules without such a refusal (`PreparedSpec`); what one does when there is a second control is among the findings.
`MaxTurns` leaves two turns of somebody else's beside the one the message needs (one with two executors), so
that a send-now meets the turn it named, another and none; `MaxHosts` allows one loss of the host. `Messages`
are the operations that add a message: the properties speak of one message at a time, and others take part as turns. In `SendEnds` a fault is a death of a Viewer or a host, or a
call that fails; two of them interrupt a retry and what is to complete it, and one executor is dead, back, or another
Viewer's as its stamp says. More executors, retries and faults are covered by the proofs of the safety properties. `MaxFiles` is one
more than the replacements it takes to have two hosts hold two locks. In the CPU runs a tick is the spacing, the waiting bound and the short silence;
the long silence is two, and `Horizon` the next instant, so that every comparison is met on both sides. All runs but `FenceServes` disable the deadlock check:
the systems may come to rest, at the bounds and when nobody calls. A host that waits for the
fence never does.

Fairness (`NativeQueue!FairSpec`): a lost host is replaced (recovery is retried at
startup and by the controller), Codex dispatches its queue when idle and ends turns
(`recoverIdleNativeQueue` restarts a paused head after a resume), and the
reconciliation pass that records proofs is repeated with backoff as long as an
entry is owed (`reconcile` answers pending), and so is the discard of the adds of removed
entries. Nothing is assumed of users,
executors, replies or the refusals of Codex.

Of the CPU queue (`CpuAdmission!FairSpec`): time passes, a launch ends, a polling stage
begins and ends its checks and does so within the short bound (stages are polled every
five seconds, `engine.ts` `scheduleTick`), and in the end instances stop crashing,
holding and releasing stages. The last is needed: TLC shows that a stage which crashes
at each start keeps its first place and renews the spacing for ever. A command whose
process lives and never checks again keeps its place too, as the code says it should.

Of a send (`SendDelivery!FairSpec`): a repair owed to the record is tried on every pass and
at each start until it succeeds, and the settlement (`settleDueSends`, on a timer) comes to an
end with the recipient no longer at work on it. Nobody has to retry, discard or execute.

Of the fence (`RuntimeHostFence!FairSpec`): a process in `acquire` takes its next step, and the
wait polls; a predecessor that is leaving ends; and boots of other generations stop at last.
Without the last, attempts that each hold the lock for a moment can refuse the parked one for ever.

## Findings

* **A rollback withdraws earlier confirmations** (`HandoffLostAck`). `failCandidate`
  rebuilds `replayedDeliveryIds` from the history rows alone, so what an earlier
  generation of the chain confirmed in the same row is replayed again, although the
  field's comment counts every successor of the chain.
* **A superseding snapshot changes the replay order** (`HandoffReorder`). Owed
  deliveries the snapshot omits go before those it lists.
* **A rival's refusal ends a message on its way to Codex** (`NativeQueueRefusal`).
  Only `prepared` compares the status; an executor that read `queued` earlier ends
  the operation another one has meanwhile prepared. The sender reads that the message
  was never handed over, and Codex runs it. With a second control it breaks `OneCopy` too: a
  send-now withdraws the message from Codex and is about to steer it, a rival refuses the
  send-now, a start is admitted for the withdrawn entry, and both the steer and the start carry
  the message. TLC finds this in 29 states of `NativeQueueRivals` with three operations and `Spec`
  for `PreparedSpec`. A rival that refuses an edit gives the entry back its old revision, and Codex then queues the new one:
  the journal says of a queued message what Codex no longer has.
* **A send that may have arrived is called safe to send again** (`SendLost`). A host
  that is alive but whose thread read times out after the hand-over puts the operation back to `queued`,
  marked `deliveryUnverified`, or, when its second attempt is deferred or declined, without a mark. A
  settlement that comes before the next attempt fences it from `queued` as "never executed" and does
  not look at the mark.

Met while modelling, without a run of their own: of the refusals of a second attempt after a timed out
thread read, only a changed role memory is taken for unverified (`structuredDeliveryQueue.ts:820`), and a
revoked seat or a retired conversation (`:2583`, `:2585`) fails a send that may have arrived, although
`failed` on a message effect is to mean "never reached the engine" (`:2758`); an executor without a host requeues
the row a rival is delivering (`structuredDeliveryQueue.ts:2234` expects no status);
a discard whose send became `uncertain` under it is written to the record and not to
the journal (`http.ts:711`), so a Retry that is past its check takes it back; a host
that dies between truncating the fence and writing its record leaves a file which
`runtimeHostFence.ts:118` reads as held until somebody removes it, although
`fenceLock.ts:3` speaks of a fence the successor of a killed host can take.

## Proofs

`HandoffQueueProofs` proves for all conversations, generations, deliveries and
bounds (the assumptions are those of `HandoffQueue`: `None` is no generation,
deliveries are a finite set of naturals):

* `HandoffInvariant`: `Spec => []HandoffInv`. `HandoffInv` conjoins `TypeOK`,
  `OneLease`, `LeaseCoherent` and `AcksInherited`. None is
  inductive alone: coherence of a rolled back row needs the predecessor to be
  recorded exactly while there is a successor, and inheritance needs the single
  active row. Each action is a lemma with one step per conjunct it can disturb.
* `QueueImplementsLease`: `Spec => ImplementsLease`, from the invariant: each
  action maps every lease to itself or through one step of `HandoffLease`.
* `NoDeliveryLost`: `Spec => DeliveriesKept`.
* `OrderStands`: `Spec => CarriedStayFirst`, whatever numbers the callers choose. A row that stays
  changes its list only by one more delivery, which moves no other; a superseding one is numbered by rank in
  a list that has the carried deliveries first, and rank is monotone (`Ranked`).

Each part of `HandoffInv` is a theorem of its own too (`TypesKept`,
`OneRowPerConversation`, `RowsTellOneStory`, `ConfirmationsInherited`).

`NativeQueueJournalProofs` proves, for all operations, bindings, turns, submissions and
payloads, `JournalTyped`, `FencesLive`, `ReceiptsTrue`, `ProofsExact` and, as an action
property, `HistoryStays`. The inductive invariant `JournalInd` is `TypeOK` with one
condition on every operation (what its action, status and effect say of each other and
of the entry it is answered through) and one on every entry (state, mutation, versions,
dispatched revision and proof). The four safety invariants are not inductive together: a
receipt stays true after a refusal only because the refused operation owned the entry's
last revision, and compaction keeps them because an unresolved mutation is an owed effect.
Each transition of the journal is a lemma.

`RuntimeHostFenceProofs` proves `FenceTyped` and `FenceExcludes` for all sets of hosts and
any number of files. Mutual exclusion is not inductive: `FenceInd` adds that a host past its
open has a file, that one which serves holds the lock of the file the pathname names, so
that two would hold one lock, and that while the predecessor serves the pathname names its
file and its record stops everybody who reads it under the lock.

`SendDeliveryProofs` proves, for all executors and any number of retries and faults,
`SendTyped`, `NothingInvented`, `OneDecider` and `AnswersHold`. `SendInd` has one part for
each store and each party, and every action is a lemma. That nothing is invented needs what the
parties carry between their steps: a pass that was answered `delivered`, a settlement (with a verdict or
an answer), repair or discard that read it, know that the agent has the message. The decision needs that the journal's
`discarded` status is the row of the action table, and that a retry past its claim has won that row.
Its assumption is that `None` is neither an action nor an owner.

`CpuAdmissionProofs` proves, for all keys, tasks, bounds and both releases, `CpuTypes`,
`CpuHeadExists` and, as action properties, `CpuPolledKept` and `CpuNoOvertaking`. The inductive
invariant `CpuInd` (theorem `CpuInvariant`) says that the file is well typed, that every ticket is
of a key in line and every mark of a ticket that is there, that what a check in progress took for
dead is dead, that the priorities it read and nobody moved are the board's (`Informed`), and that a
process which was told its place finds it (`Spoken`). Each statement of the code keeps the relation
`Kept` of a polled ticket, and so does a transaction, which composes them (lemma `Transaction`). No
overtaking: only a check launches, and it launches who is first in the order of its own
observation, which agrees with the board's. A head exists because a finite set of tickets has a
first by class and arrival (`FirstInLine`, over the strict subsets of a finite set; the class is the
rank in the older release, the aged one in the current), and nothing orders before that ticket.

`NativeQueueProofs`, `NativeQueueCopies` and `NativeQueueHeld` are about the composed native queue, for all
operations, messages and executors and every bound on edits, turns and hosts; the assumption is
that of `NativeQueue` (a finite set of operations, and a `None` that is none of them).

* `SystemTyped`: the type invariant. `UsesJournal`: every step of the system is a step of
  `NativeQueueJournal` or leaves the journal alone, so that `NativeQueueJournalProofs` carries over
  (`SystemJournal`, `SystemHistory`: the journal's invariants and `HistoryFrozen` of the
  composed system). Inductive is `Types /\ Aimed`: the types, with the journal's invariant, what a
  call knows at each stage, and that a steer has a turn to aim at.
* `SubmissionsUnshared`: whatever names a submission id, an item of Codex's queue, an entry, a
  request, a reply or an observation not yet recorded, means the same message (`Ledger`).
* `PreparedOneCopy`, `PreparedLeavesNoCopy` and the refinement `PreparedCustody`, that is
  `OneCopy`, `RefusedLeavesNoCopy` and `ImplementsCustody` of `PreparedSpec`, the specification
  without the step `RivalRefusal`: no call refuses in the journal an operation that another call has
  prepared and not settled. The finding above is such a refusal, and of `Spec` itself the
  three are false with two executors, the first with three operations. The inductive invariant
  `Copies` has a part for each operation (`Right`: one call has prepared it; while it is open
  nothing of it is on its way, and a payload it may send is nowhere; what was read of the entry
  before the write still holds at the write; at most one request; a withdrawal that was answered
  left no copy), one for each message (`Whole`: one place at most, and the entry's state agrees with
  it), one for each call (`Standing`) and one for each observation (`Seen`). `OneCopy` alone says
  nothing of requests not yet sent, which is where a second copy would come from.
* `OneCallOneCopy` and `OneCallCustody`: with one executor at a time every behaviour of `Spec` is one of `PreparedSpec`
  (`Alone`: a call that did not prepare its operation meets it unprepared), so the three hold of `Spec`.
* `PreparedIsHeld` and, with one executor at a time, `OneCallIsHeld`: `AcknowledgedIsHeld`, of
  `PreparedSpec` and of `Spec`. The property speaks of entries with no change unresolved, so the
  invariant `Holdings` has to say what is true while one is: of the entry's mutation (`Sound`), that its
  callers and its request carry the revision and submission the entry has (`Bound`), that an answer or
  an observation which tells it queued is true (`Answers`, `Sights`), and that until it is done Codex
  has what a refusal would leave the entry with, for an edit the revision before it and not yet the new
  one (`Awaits`); of the entry (`Backs`), the property and that Codex has only revisions the entry
  records; and that only the mutation of an entry is open or on its way (`Exclusive`). `Awaits` is what
  decides: an edit is refused back to the old revision, which is true only while its request is unsent.
  A rival's refusal of a prepared edit breaks it: Codex serves the edit afterwards, and the journal
  says that the old revision is queued. TLC finds that in 20 states with two executors and two revisions.

Only model-checked: the liveness properties `QueuedReachesProof`, `RemovedIsDiscarded`, `PollerAdmitted`, `EverySendEnds`,
`DeliveredIsToldSo` and `ParkedServes` (liveness under fairness is outside the proof system's reach).

## Plan

1. Succession in `NativeQueue`: account switch, rebinding at prepare, reorders.
2. A lane of several sends over `SendDelivery`: order, batches, steers, lane release; the fresh attempt of a retry.
3. `Promotion`: the Deployer's sequence over `HandoffQueue`, with rollback;
   `collectHandoffCandidates` as a pure operator. In `CpuAdmission`, the migration of the file under two releases.
4. Migration coordinator, seat channel, stream mux; then the pipeline run.

## Not modelled

Most of the program by lines is presentation (components, translations, fixtures, geometry
scripts), projections derived from the stores, and adapters to engines and operating systems;
they hold no state of the kind specified here. Of the parts that do, the pipeline, flow and
workflow engines, account migration, deployment, the rest of the registry and of the delivery
queue's lanes are left for the plan above: each is a state machine over several stores, larger
than any module here, and none can be cut to a few transitions without losing the guards that
make it correct. The components of `PROJECT.json` name what is left out of those modelled in part.
