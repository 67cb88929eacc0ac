---------------------------- MODULE HandoffQueue ----------------------------
(***************************************************************************)
(* The blue-green handoff queue: the durable reducer that carries the      *)
(* lease and the pending deliveries of every conversation from one runtime *)
(* generation to the next (src/lib/runtime/handoffQueue.ts).               *)
(*                                                                         *)
(* Every public method runs as one read-modify-write transaction of the    *)
(* store, so every method is one action.  The Deployer and the runtime     *)
(* generations that call the methods are the environment: they may call    *)
(* any method in any order, and a crash between two calls is simply the    *)
(* next call arriving from somebody else.                                  *)
(***************************************************************************)
EXTENDS Naturals, FiniteSets

CONSTANTS
    Conversations,  \* conversation identities
    Generations,    \* runtime generations, "identity:epoch" in the code
    Deliveries,     \* delivery ids, numbered in the order of their creation
    MaxSeq,         \* bound: the largest `seq` a caller of admitMessage picks
    None            \* the code's null

ASSUME HandoffAssumption ==
    /\ None \notin Generations
    /\ Deliveries \subseteq Nat
    /\ IsFiniteSet(Deliveries)
    /\ MaxSeq \in Nat

VARIABLES
    rows,      \* the active rows, by operation id
    history,   \* the retained completed rows, by operation id
    draining,  \* generations that stopped admitting new hosts
    ackedBy    \* history variable: the generation that last acknowledged a
               \* delivery of a conversation

vars == <<rows, history, draining, ackedBy>>

(* `handoff_${conversation.id}_${hostGeneration}`                          *)
Operations == Conversations \X Generations
Turns == {"busy", "idle", "terminal"}  \* "unknown" is treated as "idle" throughout
Statuses == {"pending", "draining", "claimed", "terminal", "failed"}
Outcomes == {"completed", "interrupted", "none"}

(* Pending deliveries: the ids, each with the `seq` its sender gave it and *)
(* `nth`, when it joined the list.  orderedDeliveries sorts by seq, and the*)
(* sort is stable: of two deliveries with one seq the earlier stays first. *)
Seqs == 1..(MaxSeq + Cardinality(Deliveries))
ListsOf(S) ==
    {p \in [S -> [seq : Seqs, nth : 1..Cardinality(S)]] :
        \A d, e \in S : p[d].nth = p[e].nth => d = e}
DeliveryLists == UNION {ListsOf(S) : S \in SUBSET Deliveries}

Earlier(pending, d, e) ==
    \/ pending[d].seq < pending[e].seq
    \/ pending[d].seq = pending[e].seq /\ pending[d].nth < pending[e].nth

Row == [host : Generations, turn : Turns, pending : DeliveryLists,
        status : Statuses, predecessor : Generations \cup {None},
        successor : Generations \cup {None}, replayed : SUBSET Deliveries,
        outcome : Outcomes]

(* Of a completed row only its acknowledgements are ever read again.        *)
HistoryRow == [replayed : SUBSET Deliveries]

NoRow == [host |-> None]

(* What one conversation contributes to a pre-promotion snapshot; the ids  *)
(* of its held deliveries get the seqs 1, 2, ... in creation order.        *)
Snapshot == [host : Generations, turn : Turns, held : SUBSET Deliveries]
Numbered(n) == [seq |-> n, nth |-> n]
Ranked(S) == [d \in S |-> Numbered(Cardinality({e \in S : e <= d}))]

-----------------------------------------------------------------------------
(* Reading the queue                                                       *)

RowOf(c) == {op \in Operations : op[1] = c /\ rows[op] # NoRow}
Active(c) == CHOOSE op \in RowOf(c) : TRUE

(* Deliveries of c acknowledged in the rows of h.                          *)
AckedIn(h, c) ==
    UNION {h[op].replayed : op \in {o \in Operations : o[1] = c /\ h[o] # NoRow}}

(* The deliveries a claim hands its caller to replay, in `seq` order.      *)
Replay(row) == DOMAIN row.pending \ row.replayed

-----------------------------------------------------------------------------
Init ==
    /\ rows = [op \in Operations |-> NoRow]
    /\ history = [op \in Operations |-> NoRow]
    /\ draining = {}
    /\ ackedBy = [c \in Conversations |-> [d \in Deliveries |-> None]]

(* The deliveries of the row that replaces `previous`: those it still owes *)
(* that the snapshot does not mention, then the snapshot's, renumbered.    *)
(* Broken variants, named ...Bug here and below: the properties must tell  *)
(* them from the code.                                                     *)
ReplacementsForgetBug(previous, held) == Ranked(held \ previous.replayed)

ReplacementsFromZeroBug(previous, held) ==
    LET all == Replay(previous) \cup (held \ previous.replayed)
    IN  [d \in all |-> Numbered(Cardinality({e \in all : e < d}))]

ReplacementsLastBug(previous, held) ==
    LET fresh == held \ previous.replayed
        carried == Replay(previous) \ fresh
        Before(d, e) ==
            \/ d \in fresh /\ e \in carried
            \/ d \in carried /\ e \in carried /\ Earlier(previous.pending, d, e)
            \/ d \in fresh /\ e \in fresh /\ d < e
    IN  [d \in carried \cup fresh |->
            Numbered(1 + Cardinality({e \in carried \cup fresh : Before(e, d)}))]

ReplacementDeliveries(previous, held) ==
    LET fresh == held \ previous.replayed
        carried == Replay(previous) \ fresh
        Before(d, e) ==
            \/ d \in carried /\ e \in fresh
            \/ d \in carried /\ e \in carried /\ Earlier(previous.pending, d, e)
            \/ d \in fresh /\ e \in fresh /\ d < e
    IN  [d \in carried \cup fresh |->
            Numbered(1 + Cardinality({e \in carried \cup fresh : Before(e, d)}))]

(* A snapshot is ignored when its operation is already recorded or the     *)
(* conversation still has a row awaiting its transfer.                     *)
Enqueues(c, snapshot) ==
    /\ rows[<<c, snapshot.host>>] = NoRow
    /\ history[<<c, snapshot.host>>] = NoRow
    /\ \A op \in RowOf(c) : rows[op].status \notin {"pending", "draining"}

NewRow(c, snapshot) ==
    [host |-> snapshot.host, turn |-> snapshot.turn,
     pending |-> IF RowOf(c) = {} THEN Ranked(snapshot.held)
                 ELSE ReplacementDeliveries(rows[Active(c)], snapshot.held),
     status |-> "pending", predecessor |-> None, successor |-> None,
     replayed |-> AckedIn(history, c)
                  \cup (IF RowOf(c) = {} THEN {} ELSE rows[Active(c)].replayed),
     outcome |-> "none"]

(* enqueue: one transaction over a snapshot of several conversations.      *)
Accepted(inputs, c) == c \in DOMAIN inputs /\ Enqueues(c, inputs[c])

SupersededNeverBug(inputs, op) == FALSE

Superseded(inputs, op) ==
    Accepted(inputs, op[1]) /\ op \in RowOf(op[1]) /\ op = Active(op[1])

Enqueue(inputs) ==
    /\ rows' = [op \in Operations |->
                  IF Accepted(inputs, op[1]) /\ op[2] = inputs[op[1]].host
                  THEN NewRow(op[1], inputs[op[1]])
                  ELSE IF Superseded(inputs, op) THEN NoRow ELSE rows[op]]
    /\ history' = [op \in Operations |->
                     IF Superseded(inputs, op) THEN [replayed |-> rows[op].replayed]
                     ELSE history[op]]
    /\ UNCHANGED <<draining, ackedBy>>

(* Rows of the outgoing generation re-enter draining; terminal and failed  *)
(* rows stay at their boundary.                                            *)
BeginDrain(g) ==
    /\ draining' = draining \cup {g}
    /\ rows' = [op \in Operations |->
                  IF /\ rows[op] # NoRow
                     /\ rows[op].host = g
                     /\ rows[op].status \in {"pending", "claimed"}
                  THEN [rows[op] EXCEPT !.status = "draining"]
                  ELSE rows[op]]
    /\ UNCHANGED <<history, ackedBy>>

(* A message enqueued during the handoff, unless the row has it already.   *)
(* Its seq is whatever the sender counted, used in the row or not.         *)
AdmitMessage(op, d, seq) ==
    /\ rows[op] # NoRow
    /\ rows[op].status # "terminal"
    /\ d \notin DOMAIN rows[op].pending
    /\ LET ids == DOMAIN rows[op].pending \cup {d}
       IN  rows' = [rows EXCEPT ![op].pending =
                      [e \in ids |-> IF e = d THEN [seq |-> seq, nth |-> Cardinality(ids)]
                                     ELSE rows[op].pending[e]]]
    /\ UNCHANGED <<history, draining, ackedBy>>

(* The outgoing host's latest turn boundary; terminal is sticky.           *)
RefreshTurnState(op, g, turn) ==
    /\ rows[op] # NoRow
    /\ rows[op].host = g
    /\ rows[op].status \in {"pending", "draining"}
    /\ rows[op].turn = "terminal" => turn = "terminal"
    /\ rows' = [rows EXCEPT ![op].turn = turn]
    /\ UNCHANGED <<history, draining, ackedBy>>

OutcomeFor(turn) ==
    CASE turn = "terminal" -> "completed"
      [] turn = "busy" -> "interrupted"
      [] turn = "idle" -> "none"

(* A successor that already holds the lease re-claims it without effect.   *)
Reclaims(op, to) ==
    rows[op].successor = to /\ rows[op].status \in {"claimed", "terminal"}

ClaimUnfencedBug(op, from, to) ==
    /\ rows[op] # NoRow
    /\ ~Reclaims(op, to)
    /\ rows' = [rows EXCEPT ![op] =
          [@ EXCEPT !.predecessor = from, !.successor = to, !.host = to,
                    !.status = IF rows[op].turn = "terminal" THEN "terminal" ELSE "claimed",
                    !.outcome = OutcomeFor(rows[op].turn)]]
    /\ UNCHANGED <<history, draining, ackedBy>>

(* claim: compare-and-swap of the lease from the outgoing generation to a  *)
(* candidate.                                                              *)
Claim(op, from, to) ==
    /\ rows[op] # NoRow
    /\ ~Reclaims(op, to)
    /\ rows[op].host = from
    /\ rows' = [rows EXCEPT ![op] =
          [@ EXCEPT !.predecessor = from,
                    !.successor = to,
                    !.host = to,
                    !.status = IF rows[op].turn = "terminal" THEN "terminal" ELSE "claimed",
                    !.outcome = OutcomeFor(rows[op].turn)]]
    /\ UNCHANGED <<history, draining, ackedBy>>

(* Confirmed deliveries, recorded under the successor's ownership only.    *)
AcknowledgeReplay(op, g, ids) ==
    /\ rows[op] # NoRow
    /\ rows[op].successor = g
    /\ rows[op].status \in {"claimed", "terminal"}
    /\ ids \subseteq DOMAIN rows[op].pending
    /\ rows' = [rows EXCEPT ![op].replayed = @ \cup ids]
    /\ ackedBy' = [ackedBy EXCEPT ![op[1]] =
                     [d \in Deliveries |-> IF d \in ids THEN g ELSE ackedBy[op[1]][d]]]
    /\ UNCHANGED <<history, draining>>

ReleasedKeepsSuccessorBug(op) ==
    LET row == rows[op] IN
    [row EXCEPT
        !.host = IF row.predecessor = None THEN row.host ELSE row.predecessor,
        !.status = IF row.predecessor \in draining THEN "draining" ELSE "pending",
        !.predecessor = None,
        !.replayed = AckedIn(history, op[1]),
        !.outcome = "none"]

ReleasedForgetsAcksBug(op) ==
    LET row == rows[op] IN
    [row EXCEPT
        !.host = IF row.predecessor = None THEN row.host ELSE row.predecessor,
        !.status = IF row.predecessor \in draining THEN "draining" ELSE "pending",
        !.predecessor = None, !.successor = None, !.replayed = {}, !.outcome = "none"]

(* A failed candidate releases every row it claimed to the predecessor.    *)
Released(op) ==
    LET row == rows[op] IN
    [row EXCEPT
        !.host = IF row.predecessor = None THEN row.host ELSE row.predecessor,
        !.status = IF row.predecessor \in draining THEN "draining" ELSE "pending",
        !.predecessor = None,
        !.successor = None,
        !.replayed = AckedIn(history, op[1]),
        !.outcome = "none"]

FailCandidate(g) ==
    /\ rows' = [op \in Operations |->
                  IF rows[op] # NoRow /\ rows[op].successor = g THEN Released(op)
                  ELSE rows[op]]
    /\ UNCHANGED <<history, draining, ackedBy>>

(* An explicit retryable failure: a boundary for retirement without a      *)
(* transfer.                                                               *)
MarkRetryableFailure(op) ==
    /\ rows[op] # NoRow
    /\ rows' = [rows EXCEPT ![op].status = "failed"]
    /\ UNCHANGED <<history, draining, ackedBy>>

Next ==
    \/ \E C \in SUBSET Conversations : \E inputs \in [C -> Snapshot] : Enqueue(inputs)
    \/ \E g \in Generations : BeginDrain(g)
    \/ \E op \in Operations, d \in Deliveries, seq \in 1..MaxSeq : AdmitMessage(op, d, seq)
    \/ \E op \in Operations, g \in Generations, turn \in Turns : RefreshTurnState(op, g, turn)
    \/ \E op \in Operations, from, to \in Generations : Claim(op, from, to)
    \/ \E op \in Operations, g \in Generations, ids \in SUBSET Deliveries :
          AcknowledgeReplay(op, g, ids)
    \/ \E g \in Generations : FailCandidate(g)
    \/ \E op \in Operations : MarkRetryableFailure(op)

Spec == Init /\ [][Next]_vars

-----------------------------------------------------------------------------
(* Properties                                                              *)

(* Type of the durable tables (handoff_rows, handoff_history,              *)
(* handoff_draining_generations).                                          *)
TypeOK ==
    /\ rows \in [Operations -> Row \cup {NoRow}]
    /\ history \in [Operations -> HistoryRow \cup {NoRow}]
    /\ draining \subseteq Generations
    /\ ackedBy \in [Conversations -> [Deliveries -> Generations \cup {None}]]

(* A conversation never has two active rows (the unique index              *)
(* handoff_one_active_conversation never has to reject a transaction), one *)
(* it had is never dropped, and an operation that moved to the history     *)
(* never becomes active again.                                             *)
OneLease ==
    /\ \A c \in Conversations : \A o, p \in RowOf(c) : o = p
    /\ \A op \in Operations :
          history[op] # NoRow => rows[op] = NoRow /\ RowOf(op[1]) # {}

(* The fence fields of a row always tell one story: a row is at a transfer *)
(* boundary only under the successor that owns it, knows whom it came from *)
(* exactly when it was transferred, and is terminal exactly when the turn  *)
(* it was claimed with was (claim, beginDrain, failCandidate, refresh).    *)
LeaseCoherent ==
    \A op \in Operations : rows[op] # NoRow =>
        LET row == rows[op] IN
        /\ row.status \in {"claimed", "terminal"} => row.successor # None
        /\ row.status = "pending" => row.successor = None
        /\ row.successor # None => row.host = row.successor
        /\ (row.predecessor = None) = (row.successor = None)
        /\ row.status = "terminal" => row.turn = "terminal" /\ row.outcome = "completed"
        /\ row.status = "claimed" => row.turn # "terminal"

(* What was acknowledged in a completed row is acknowledged in the row     *)
(* that replaced it, however often that one is claimed and rolled back:    *)
(* it is never replayed to a later successor.  Beyond those, only          *)
(* deliveries the row itself carries are acknowledged in it.               *)
AcksInherited ==
    \A op \in Operations : rows[op] # NoRow =>
        /\ AckedIn(history, op[1]) \subseteq rows[op].replayed
        /\ rows[op].replayed \subseteq AckedIn(history, op[1]) \cup DOMAIN rows[op].pending

(* The inductive invariant behind the four above.                          *)
HandoffInv == TypeOK /\ OneLease /\ LeaseCoherent /\ AcksInherited

(* What the queue still has to deliver for c, and what it knows was.       *)
Owed(c) == UNION {Replay(rows[op]) : op \in RowOf(c)}
Acked(c) == AckedIn(history, c) \cup UNION {rows[op].replayed : op \in RowOf(c)}

(* No method loses a delivery: whatever the queue owes or knows to be      *)
(* acknowledged, it owes or knows to be acknowledged after the step, across*)
(* supersession of the row, rollback and retryable failure.                *)
DeliveriesKept ==
    [][\A c \in Conversations : Owed(c) \cup Acked(c) \subseteq (Owed(c) \cup Acked(c))']_vars

(* A delivery keeps its place before what comes after it.  While its row   *)
(* stays, whatever is admitted beside it (with whatever seq), admitted     *)
(* again, claimed, drained, confirmed or rolled back; and when a snapshot  *)
(* supersedes the row without listing the delivery, before everything the  *)
(* new row replays that the old one did not replay earlier.                *)
(* (admitMessage and replacementDeliveries write the places, a claim hands *)
(* them out in orderedDeliveries.)                                         *)
OrderKept(op) ==
    \A d, e \in DOMAIN rows[op].pending :
        Earlier(rows[op].pending, d, e) => Earlier(rows'[op].pending, d, e)

CarriedFirst(old, new, held) ==
    \A d \in Replay(old) \ held, e \in Replay(new) :
        e \notin Replay(old) \/ Earlier(old.pending, d, e) => Earlier(new.pending, d, e)

CarriedStayFirst ==
    [][\A op \in Operations : rows[op] # NoRow =>
          IF rows'[op] # NoRow THEN OrderKept(op)
          ELSE \A C \in SUBSET Conversations : \A inputs \in [C -> Snapshot] :
                  op[1] \in C /\ Enqueue(inputs) =>
                      CarriedFirst(rows[op], rows'[<<op[1], inputs[op[1]].host>>],
                                   inputs[op[1]].held)]_vars

(* The refinement mapping: a conversation's lease is its active row.       *)
PhaseOf(status) ==
    CASE status \in {"pending", "draining"} -> "offered"
      [] status \in {"claimed", "terminal"} -> "held"
      [] status = "failed" -> "failed"

RowLease(row, kept) ==
    [phase |-> PhaseOf(row.status), owner |-> row.host, previous |-> row.predecessor,
     owed |-> Replay(row), done |-> row.replayed, kept |-> kept]

LeaseOf(c) ==
    IF RowOf(c) = {}
    THEN [phase |-> "free", owner |-> None, previous |-> None,
          owed |-> {}, done |-> {}, kept |-> {}]
    ELSE RowLease(rows[Active(c)], AckedIn(history, c))

Abstract == INSTANCE HandoffLease WITH lease <- [c \in Conversations |-> LeaseOf(c)]

(* Every behaviour of the queue is a behaviour of the lease.               *)
ImplementsLease == Abstract!Spec

(* handoffQueue.ts:66 says replayedDeliveryIds are the "delivery ids       *)
(* acknowledged by every successor in the promotion chain": the rollback of*)
(* one candidate keeps what an earlier generation of the chain confirmed.  *)
RollbackKeepsEarlierAcks ==
    [][\A g \in Generations, op \in Operations :
          /\ FailCandidate(g)
          /\ rows[op] # NoRow
          => \A d \in rows[op].replayed :
                ackedBy[op[1]][d] # g => d \in rows'[op].replayed]_vars

(* handoffQueue.ts:85 and :325 say a successor replays the queued messages *)
(* in their durable order: of two deliveries the queue owes before and     *)
(* after a step, the one that was first stays first.                       *)
ReplayOrderKept ==
    [][\A o, p \in Operations :
          /\ o[1] = p[1] /\ rows[o] # NoRow /\ rows'[p] # NoRow
          => \A d, e \in Replay(rows[o]) \cap Replay(rows'[p]) :
                Earlier(rows[o].pending, d, e) => Earlier(rows'[p].pending, d, e)]_vars
=============================================================================
