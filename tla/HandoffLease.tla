---------------------------- MODULE HandoffLease ----------------------------
(***************************************************************************)
(* What the handoff queue promises one conversation, without operations,   *)
(* rows or history: a lease with one owner that moves only by a            *)
(* compare-and-swap on that owner or back to where it came from, and a set *)
(* of deliveries each of which is owed until it is confirmed.              *)
(***************************************************************************)
CONSTANTS Conversations, Generations, Deliveries, None

VARIABLE lease

Phases == {"free", "offered", "held", "failed"}

(* `owed` and `done` are the unconfirmed and the confirmed deliveries;     *)
(* `kept` are the confirmations a rollback cannot withdraw, because they   *)
(* were made before the lease was last offered.                            *)
Lease == [phase : Phases, owner : Generations \cup {None},
          previous : Generations \cup {None},
          owed : SUBSET Deliveries, done : SUBSET Deliveries, kept : SUBSET Deliveries]

Free == [phase |-> "free", owner |-> None, previous |-> None,
         owed |-> {}, done |-> {}, kept |-> {}]

Init == lease = [c \in Conversations |-> Free]

(* The next promotion names the conversation's owner and its deliveries.   *)
Offer(old, new) ==
    /\ old.phase # "offered"
    /\ \E g \in Generations, D \in SUBSET Deliveries :
          new = [phase |-> "offered", owner |-> g, previous |-> None,
                 owed |-> old.owed \cup (D \ old.done),
                 done |-> old.done, kept |-> old.done]

(* The owner starts to drain a lease it holds.                             *)
Drain(old, new) ==
    /\ old.phase = "held"
    /\ new = [old EXCEPT !.phase = "offered"]

Accept(old, new) ==
    /\ old.phase # "free"
    /\ \E d \in Deliveries : new = [old EXCEPT !.owed = @ \cup ({d} \ old.done)]

Transfer(old, new) ==
    /\ old.phase # "free"
    /\ \E to \in Generations :
          new = [phase |-> "held", owner |-> to, previous |-> old.owner,
                 owed |-> old.owed, done |-> old.done, kept |-> old.kept]

Confirm(old, new) ==
    /\ old.phase = "held"
    /\ old.previous # None
    /\ \E D \in SUBSET old.owed :
          new = [phase |-> "held", owner |-> old.owner, previous |-> old.previous,
                 owed |-> old.owed \ D, done |-> old.done \cup D, kept |-> old.kept]

Rollback(old, new) ==
    /\ old.previous # None
    /\ new = [phase |-> "offered", owner |-> old.previous, previous |-> None,
              owed |-> old.owed \cup (old.done \ old.kept), done |-> old.kept,
              kept |-> old.kept]

GiveUp(old, new) ==
    /\ old.phase # "free"
    /\ new = [old EXCEPT !.phase = "failed"]

Step(old, new) ==
    \/ Offer(old, new) \/ Drain(old, new) \/ Accept(old, new) \/ Transfer(old, new)
    \/ Confirm(old, new) \/ Rollback(old, new) \/ GiveUp(old, new)

(* One transaction of the queue may move several leases, each by one step. *)
Next ==
    /\ DOMAIN lease' = Conversations
    /\ \A c \in Conversations : lease'[c] = lease[c] \/ Step(lease[c], lease'[c])

Spec == Init /\ [][Next]_lease
=============================================================================
