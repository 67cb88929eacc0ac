---------------------------- MODULE CpuAdmission ----------------------------
(***************************************************************************)
(* The machine's CPU admission queue (src/lib/runtime/cpuAdmission.ts):    *)
(* pipeline stages and heavy commands of every process on the machine wait *)
(* in one SQLite file and start one at a time.  A process of an older      *)
(* release, whose statements are fixed                                     *)
(* (cpuAdmission.prePoll.fixture.ts), may share the file; triggers record  *)
(* for it what it does not know of.                                        *)
(*                                                                         *)
(* A transaction is a function from one state of the file to the next.     *)
(* Instants are kept as the time passed since then.                        *)
(***************************************************************************)
EXTENDS Naturals, FiniteSets

CONSTANTS
    Stages,     \* tickets without an owner, kept by their instance's polls
    Commands,   \* tickets a process owns
    Gates,      \* commands that start only while pressure is low
    Bound,      \* keys whose priority follows a task on the board
    Legacy,     \* keys polled by the older release
    Foreign,    \* commands a checker may be unable to verify
    Renewable,  \* keys that may come back as a new stage or process
    Polling,    \* keys whose process polls within the short bound until it starts
    Priorities, \* bound: the priorities tasks take, of 0 high, 1 normal, 2 low
    Spacing,    \* CPU_QUEUE_SPACING_MS
    MaxWait,    \* CPU_QUEUE_MAX_WAIT_MS
    Unpolled,   \* CPU_QUEUE_UNPOLLED_MS
    Abandoned,  \* CPU_QUEUE_ABANDONED_MS
    Horizon,    \* bound: no older instant is told from this one
    None

Keys == Stages \cup Commands

ASSUME CpuAssumption ==
    /\ Stages \cap Commands = {}
    /\ Gates \subseteq Commands /\ Foreign \subseteq Commands
    /\ Bound \cup Legacy \cup Renewable \cup Polling \subseteq Keys
    /\ Legacy \cap (Bound \cup Gates \cup Polling) = {}
    /\ {Spacing, MaxWait, Unpolled, Abandoned, Horizon} \subseteq Nat \ {0}
    /\ Priorities \subseteq 0..2
    /\ Unpolled <= Abandoned
    /\ Horizon > Abandoned /\ Horizon >= 2 * MaxWait /\ Horizon >= Spacing
    /\ None \notin Nat

VARIABLES
    db,     \* the file
    life,   \* the process of a command, or the durable state of a stage
    view,   \* what a check in progress observed before it took the lock
    board,  \* the tasks' priorities
    seen    \* history: how long ago its own process last held or polled a key

vars == <<db, life, view, board, seen>>

(* `earlier` holds, for each ticket, those with a smaller fifo_seq; `quiet`*)
(* is the age of `polled`; `last` the age of the last admission.           *)
File == [tickets : SUBSET Keys, earlier : [Keys -> SUBSET Keys],
         age : [Keys -> 0..Horizon], quiet : [Keys -> 0..Horizon \cup {None}],
         rank : [Keys -> 0..2],
         suspended : SUBSET Keys, unpolled : SUBSET Keys, admitted : SUBSET Keys,
         last : 0..Horizon]

EmptyFile == [tickets |-> {}, earlier |-> [k \in Keys |-> {}],
              age |-> [k \in Keys |-> 0], quiet |-> [k \in Keys |-> None],
              rank |-> [k \in Keys |-> 1],
              suspended |-> {}, unpolled |-> {}, admitted |-> {}, last |-> Horizon]

NoView == [open |-> FALSE]

-----------------------------------------------------------------------------
(* Statements, with the triggers they fire                                 *)
(*                                                                         *)
(* Broken variants of a statement, named ...Bug here and below, are what   *)
(* the properties must tell from the code.                                 *)

Put(f, S, value) == [k \in Keys |-> IF k \in S THEN value ELSE f[k]]

CancelledLeavesUnpolledBug(d, S) ==
    [d EXCEPT !.tickets = @ \ S,
              !.earlier = [k \in Keys |-> IF k \in S THEN {} ELSE @[k] \ S],
              !.age = Put(@, S, 0), !.quiet = Put(@, S, None), !.rank = Put(@, S, 1),
              !.suspended = @ \ (S \ d.unpolled), !.admitted = @ \ S]

(* cancel, or DELETE FROM tickets; tickets_gone leaves nothing behind.     *)
Cancelled(d, S) ==
    [d EXCEPT !.tickets = @ \ S,
              !.earlier = [k \in Keys |-> IF k \in S THEN {} ELSE @[k] \ S],
              !.age = Put(@, S, 0), !.quiet = Put(@, S, None), !.rank = Put(@, S, 1),
              !.suspended = @ \ S, !.unpolled = @ \ S, !.admitted = @ \ S]

(* Mutant: a check counts the waiting time of its ticket anew.             *)
QueuedAnewBug(d, k) ==
    LET e == [d EXCEPT !.unpolled = @ \ {k}, !.age[k] = 0] IN
    IF k \in d.tickets THEN [e EXCEPT !.quiet[k] = 0]
    ELSE [e EXCEPT !.tickets = @ \cup {k}, !.earlier[k] = d.tickets,
                   !.quiet[k] = IF k \in Stages THEN 0 ELSE None]

(* INSERT OR IGNORE INTO tickets: tickets_poll, tickets_queued and         *)
(* tickets_fifo.                                                           *)
Queued(d, k) ==
    LET e == [d EXCEPT !.unpolled = @ \ {k}] IN
    IF k \in d.tickets THEN [e EXCEPT !.quiet[k] = 0]
    ELSE [e EXCEPT !.tickets = @ \cup {k}, !.earlier[k] = d.tickets,
                   !.quiet[k] = IF k \in Stages THEN 0 ELSE None]

(* INSERT OR IGNORE INTO suspended ... owner IS NULL: suspended_hold.      *)
Held(d, S) ==
    LET held == S \cap d.tickets \cap Stages IN
    [d EXCEPT !.suspended = @ \cup held, !.unpolled = @ \ held]

ReleasedUnpolledBug(d, S) ==
    LET freed == S \cap d.suspended IN
    [d EXCEPT !.suspended = @ \ freed, !.quiet = Put(@, freed \cap Stages, None)]

ReleasedStaleBug(d, S) == [d EXCEPT !.suspended = @ \ (S \ d.unpolled)]

(* DELETE FROM suspended: suspended_keep, suspended_release.               *)
Released(d, S) ==
    LET freed == (S \cap d.suspended) \ d.unpolled IN
    [d EXCEPT !.suspended = @ \ freed, !.quiet = Put(@, freed \cap Stages, None)]

Touched(d, S) == [d EXCEPT !.quiet = Put(@, S \cap d.tickets, 0)]

(* How long a ticket has shown no sign of its process; a stage released by *)
(* the older release counts as seen now.                                   *)
Quiet(d, k) ==
    IF d.quiet[k] # None THEN d.quiet[k] ELSE IF k \in Commands THEN d.age[k] ELSE 0

(* Tickets that polls alone speak for: the abandoned ones are removed, the *)
(* unpolled ones passed over until they check again.                       *)
Judged(d, S) ==
    LET unheld == {k \in S \cap d.tickets : k \notin d.suspended \/ k \in d.unpolled}
        abandoned == {k \in unheld : Quiet(d, k) > Abandoned}
        passed == {k \in unheld \ abandoned : Quiet(d, k) > Unpolled}
        e == Cancelled(d, abandoned)
    IN  [e EXCEPT !.suspended = @ \cup passed, !.unpolled = @ \cup passed]

-----------------------------------------------------------------------------
(* Order                                                                   *)

Lane(k) == IF k \in Stages THEN Stages ELSE Commands
Counted(d) == d.tickets \ (d.suspended \cup d.admitted)

Aged(class, age) == IF class <= age \div MaxWait THEN 0 ELSE class - age \div MaxWait

ClassAgesAllBug(d, k) == Aged(d.rank[k], d.age[k])
(* Each full bound of waiting raises a ticket one class, but not one whose *)
(* process compares by task rank alone.                                    *)
Class(d, k) == IF k \in Legacy THEN d.rank[k] ELSE Aged(d.rank[k], d.age[k])

AheadOf(d, k, class, others) ==
    {j \in others : \/ class[j] < class[k]
                    \/ class[j] = class[k] /\ j \in d.earlier[k] \cup {k}}

AtBound(d, k) == k \notin Gates /\ d.age[k] >= MaxWait

(* The tickets a check of k counts up to itself.                           *)
Ahead(d, k) ==
    IF k \in Legacy THEN AheadOf(d, k, d.rank, Counted(d))
    ELSE AheadOf(d, k, [j \in Keys |-> Class(d, j)],
                 {j \in Counted(d) \cap Lane(k) : AtBound(d, k) => j \notin Gates \/ j = k})

Admits(d, k, pressureAllows) ==
    /\ Ahead(d, k) = {k}
    /\ d.last >= Spacing
    /\ pressureAllows \/ AtBound(d, k)

Consumed(d, k) ==
    IF k \in Stages THEN [d EXCEPT !.admitted = @ \cup {k}, !.last = 0]
    ELSE [Cancelled(d, {k}) EXCEPT !.last = 0]

-----------------------------------------------------------------------------
(* The current release                                                     *)

(* What a probe may read of the owners of tickets: the dead, and the ones  *)
(* it cannot verify.                                                       *)
Owned(d) == d.tickets \cap Commands
Dead(d) == {k \in Owned(d) : life[k] = "gone"}
Probes(d) ==
    {[dead |-> Dead(d) \ unverified, unverified |-> unverified] :
        unverified \in SUBSET (Owned(d) \cap Foreign)}

(* Before the lock: probe the owners, read the rows with a binding, and    *)
(* read the board for those that are not about to be passed over.          *)
Observe(k) ==
    /\ k \notin Legacy
    /\ life[k] = "live"
    /\ view[k] = NoView
    /\ \E probe \in Probes(db) :
          LET rows == {j \in db.tickets \cap Bound :
                          j \in Counted(db) \/ j = k}
              silent == {j \in rows \ {k} : Quiet(db, j) > Unpolled
                                            /\ j \in Stages \cup probe.unverified}
              ranked == (rows \ (probe.dead \cup silent)) \cup ({k} \cap Bound)
          IN  view' = [view EXCEPT ![k] =
                 [open |-> TRUE, dead |-> probe.dead, unverified |-> probe.unverified,
                  rows |-> [j \in rows |-> db.rank[j]],
                  ranks |-> [j \in ranked |-> board[j]],
                  moved |-> {}]]
    /\ UNCHANGED <<db, life, board, seen>>

FreshAlwaysBug(d, k, v, j) == TRUE

(* The sample of row j still fits it; a row that appeared since must be    *)
(* the checker's own.                                                      *)
Fresh(d, k, v, j) ==
    /\ j \in DOMAIN v.ranks
    /\ IF j \in DOMAIN v.rows THEN v.rows[j] = d.rank[j] ELSE j = k /\ d.rank[j] = 1

Returned(d, k) ==
    Touched([Released(Queued(d, k), {k}) EXCEPT !.admitted = @ \ {k}], {k})

Noticed(d) == [d EXCEPT !.quiet = [k \in Keys |->
                  IF k \in d.tickets \cap Stages /\ @[k] = None THEN 0 ELSE @[k]]]

JudgedUnverifiedDeadBug(d, k, v) == Cancelled(d, (v.dead \cup v.unverified) \ {k})

JudgedOwners(d, k, v) ==
    Judged(Cancelled(d, v.dead \cap d.tickets), v.unverified \ {k})

(* Under the lock, up to the priorities.                                   *)
Polled(d, k, v) == Judged(Returned(JudgedOwners(Noticed(d), k, v), k), Stages)

Sampled(d) == Counted(d) \cap Bound

Ranked(d, v) ==
    [d EXCEPT !.rank = [j \in Keys |->
        IF j \in Sampled(d) \cap DOMAIN v.ranks THEN v.ranks[j] ELSE @[j]]]

Seen(S) == seen' = Put(seen, S, 0)

(* check: the answer is an admission or a wait.  A consumed admission ends *)
(* the wait; the gate's readiness check does not consume.                  *)
Check(k, pressureAllows, consume) ==
    /\ view[k].open
    /\ LET polled == Polled(db, k, view[k])
           fresh == \A j \in Sampled(polled) : Fresh(polled, k, view[k], j)
           d == IF fresh THEN Ranked(polled, view[k]) ELSE polled
       IN  IF fresh /\ Admits(d, k, pressureAllows) /\ consume
           THEN /\ db' = Consumed(d, k)
                /\ life' = [life EXCEPT ![k] = IF @ = "live" THEN "launching" ELSE @]
           ELSE db' = d /\ UNCHANGED life
    /\ view' = [view EXCEPT ![k] = NoView]
    /\ Seen({k})
    /\ UNCHANGED board

(* A waiting process gives up, or the gate's helper finds its owner gone;  *)
(* a stage's instance holds it for a reason of its own.                    *)
Cancel(k) ==
    /\ k \in Commands \ Polling
    /\ life[k] \in IF k \in Gates THEN {"live", "gone"} ELSE {"live"}
    /\ view[k] = NoView
    /\ db' = Cancelled(db, {k})
    /\ life' = [life EXCEPT ![k] = "gone"]
    /\ Seen({k})
    /\ UNCHANGED <<view, board>>

Suspend(k) ==
    /\ k \in Stages
    /\ life[k] = "live" /\ view[k] = NoView
    /\ db' = LET d == Held(db, {k}) IN IF k \in Legacy THEN d ELSE Touched(d, {k})
    /\ Seen({k})
    /\ UNCHANGED <<life, view, board>>

(* An instance aligns its own stages' tickets with its durable rows.       *)
Reconciled(d, own, active, eligible) ==
    LET kept == [Cancelled(d, own \ active) EXCEPT !.admitted = @ \ own] IN
    Released(Held(kept, active \ eligible), eligible)

Reconcile(own, eligible) ==
    LET active == {k \in own : life[k] # "gone"}
        moved == ((active \ eligible) \cap db.tickets)
                 \cup ((eligible \cap db.suspended) \ db.unpolled)
        d == Reconciled(db, own, active, eligible)
    IN  /\ eligible \subseteq active
        /\ \A k \in own : view[k] = NoView
        /\ db' = IF own \subseteq Legacy THEN d ELSE Touched(d, moved)
        /\ Seen(moved)
        /\ UNCHANGED <<life, view, board>>

-----------------------------------------------------------------------------
(* The older release                                                       *)

LegacyPolled(d, k, dead) ==
    [Released(Queued(Cancelled(d, dead), k), {k}) EXCEPT !.admitted = @ \ {k}]

LegacyCheck(k, pressureAllows) ==
    /\ k \in Legacy
    /\ life[k] = "live"
    /\ \E probe \in Probes(db) :
          LET d == LegacyPolled(db, k, probe.dead) IN
          IF Admits(d, k, pressureAllows)
          THEN db' = Consumed(d, k) /\ life' = [life EXCEPT ![k] = "launching"]
          ELSE db' = d /\ UNCHANGED life
    /\ Seen({k})
    /\ UNCHANGED <<view, board>>

-----------------------------------------------------------------------------
(* Processes, stages and time                                              *)

(* A command's process exits, at work or waiting; the gate's helper ends   *)
(* the check it is in.  A stage starts for good or is dropped.             *)
End(k) ==
    /\ life[k] # "gone"
    /\ k \in Polling => life[k] = "launching"
    /\ life' = [life EXCEPT ![k] = "gone"]
    /\ view' = IF k \in Gates THEN view ELSE [view EXCEPT ![k] = NoView]
    /\ UNCHANGED <<db, board, seen>>

(* The instance of a stage crashes before the start is checkpointed.       *)
Crash(k) ==
    /\ k \in Stages \ Polling
    /\ life[k] \in {"live", "launching"}
    /\ life' = [life EXCEPT ![k] = "live"]
    /\ view' = [view EXCEPT ![k] = NoView]
    /\ UNCHANGED <<db, board, seen>>

(* Another process or attempt; a key is never shared with a former one's   *)
(* ticket, and no probe of the former speaks of it.                        *)
Renew(k) ==
    /\ k \in Renewable
    /\ life[k] = "gone" /\ k \notin db.tickets /\ view[k] = NoView
    /\ life' = [life EXCEPT ![k] = "live"]
    /\ view' = [j \in Keys |-> IF view[j].open THEN [view[j] EXCEPT !.dead = @ \ {k}] ELSE NoView]
    /\ UNCHANGED <<db, board, seen>>

Reprioritise(k, priority) ==
    /\ k \in Bound
    /\ priority # board[k]
    /\ board' = [board EXCEPT ![k] = priority]
    /\ view' = [j \in Keys |-> IF view[j].open THEN [view[j] EXCEPT !.moved = @ \cup {k}] ELSE NoView]
    /\ UNCHANGED <<db, life, seen>>

Older(t) == IF t = None \/ t = Horizon THEN t ELSE t + 1

Tick ==
    /\ \A k \in Polling : life[k] = "live" => seen[k] < Unpolled
    /\ db' = [db EXCEPT !.age = [k \in Keys |-> IF k \in db.tickets THEN Older(@[k]) ELSE 0],
                        !.quiet = [k \in Keys |-> Older(@[k])],
                        !.last = Older(@)]
    /\ seen' = [k \in Keys |->
          IF k \in db.tickets /\ life[k] # "gone" THEN Older(seen[k]) ELSE 0]
    /\ UNCHANGED <<life, view, board>>

-----------------------------------------------------------------------------
Init ==
    /\ db = EmptyFile
    /\ life = [k \in Keys |-> "live"]
    /\ view = [k \in Keys |-> NoView]
    /\ board \in [Bound -> Priorities]
    /\ seen = [k \in Keys |-> 0]

(* Only a gate's readiness check does not consume; it launches nothing,     *)
(* whatever the pressure.                                                  *)
CheckAny(k) ==
    \/ \E allows \in BOOLEAN : Check(k, allows, TRUE)
    \/ k \in Gates /\ Check(k, TRUE, FALSE)

ReconcileAny ==
    \E own \in {Stages \cap Legacy, Stages \ Legacy} : \E eligible \in SUBSET own :
        own # {} /\ Reconcile(own, eligible)

Next ==
    \/ \E k \in Keys :
          \/ Observe(k) \/ CheckAny(k) \/ Cancel(k) \/ Suspend(k)
          \/ \E allows \in BOOLEAN : LegacyCheck(k, allows)
          \/ End(k) \/ Crash(k) \/ Renew(k)
          \/ \E priority \in Priorities : Reprioritise(k, priority)
    \/ ReconcileAny
    \/ Tick

Spec == Init /\ [][Next]_vars

(* Time passes; a polling process begins a check and ends one it began; a  *)
(* launch ends.  Of Check and End, Answer and Launched state what fairness *)
(* is about.                                                               *)
Answer(k) == view[k].open /\ view' = [view EXCEPT ![k] = NoView]

Launched(k) == life[k] = "launching" /\ life' = [life EXCEPT ![k] = "gone"]

(* A stage that keeps its first place may hold up the others by crashing   *)
(* at each start, or by being held and released without a check.           *)
Disturbance == ReconcileAny \/ \E k \in Stages : Crash(k) \/ Suspend(k)

Fairness ==
    /\ WF_db(Tick)
    /\ \A k \in Keys : WF_life(Launched(k))
    /\ \A k \in Polling : WF_view(Observe(k)) /\ WF_view(Answer(k))
    /\ <>[][~Disturbance]_vars

FairSpec == Spec /\ Fairness

-----------------------------------------------------------------------------
(* Properties                                                              *)

(* Type of the state; the tickets stand in one line, and only those of     *)
(* stages are held or launched.                                            *)
TypeOK ==
    /\ db \in File
    /\ life \in [Keys -> {"live", "launching", "gone"}]
    /\ db.suspended \cup db.admitted \cup db.unpolled \subseteq db.tickets
    /\ db.unpolled \subseteq db.suspended
    /\ (db.suspended \ db.unpolled) \cup db.admitted \subseteq Stages
    /\ \A j, k \in db.tickets : j # k => (j \in db.earlier[k] <=> k \notin db.earlier[j])
    /\ \A k \in Keys : db.earlier[k] \subseteq db.tickets \ {k}

(* Whatever else waits, some ticket is the first in the eyes of its own    *)
(* release, and while all use the current one, some ticket in each lane:   *)
(* no two processes wait for each other.                                   *)
HeadExists ==
    LET heads == {k \in Counted(db) : Ahead(db, k) = {k}} IN
    /\ Counted(db) # {} => heads # {}
    /\ \A lane \in {Stages, Commands} :
          Counted(db) \cap lane # {} /\ Counted(db) \cap Legacy = {} => heads \cap lane # {}

(* A process that keeps polling keeps its place: nobody else passes over   *)
(* its ticket before it was silent for the short bound, nor removes it     *)
(* before it was silent for the long one, in whichever release it polls,   *)
(* is held and is released.                                                *)
PolledKept ==
    [][\A k \in Keys : life[k] # "gone" =>
          /\ k \in db'.unpolled \ db.unpolled => seen[k] > Unpolled
          /\ k \in db.tickets \ db'.tickets => seen'[k] = 0 \/ seen[k] > Abandoned]_vars

(* An admission overtakes nobody: at that moment no waiting ticket of the  *)
(* lane comes first by the board's priorities, aged, and by arrival,       *)
(* unless its priority changed during the check, or it waits for low       *)
(* pressure and the one admitted is past its bound.                        *)
Launches(k) == life[k] = "live" /\ life'[k] = "launching"

Steady(k, j) == j \notin view[k].moved

Due(k) == Aged(IF k \in Bound THEN board[k] ELSE 1, db.age[k])

Overtakes(k, j) ==
    /\ j \in (Counted(db)' \cap Lane(k)) \ {k}
    /\ j \notin Legacy
    /\ Steady(k, j) /\ Steady(k, k)
    /\ AtBound(db, k) => j \notin Gates
    /\ \/ Due(j) < Due(k)
       \/ Due(j) = Due(k) /\ k \notin db.earlier[j]

NoOvertaking ==
    [][\A k \in Keys \ Legacy : Launches(k) => \A j \in Keys : ~Overtakes(k, j)]_vars

(* A waiter that needs no low pressure and keeps polling starts at last,   *)
(* whoever stopped polling ahead of it.                                    *)
PollerAdmitted == \A k \in Polling \ Gates : <>(life[k] = "gone")
=============================================================================
