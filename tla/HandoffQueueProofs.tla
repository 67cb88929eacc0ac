------------------------- MODULE HandoffQueueProofs -------------------------
(***************************************************************************)
(* For every set of conversations, generations and deliveries: the         *)
(* invariants of the handoff queue, that it loses no delivery, and that it *)
(* implements the lease of HandoffLease.                                   *)
(***************************************************************************)
EXTENDS HandoffQueue, FiniteSetTheorems, TLAPS

USE HandoffAssumption DEF HandoffAssumption

-----------------------------------------------------------------------------
(* The order of the pending deliveries                                     *)

(* A set of deliveries numbered by the size of its strict down-sets under a*)
(* transitive, irreflexive order gets numbers within its own size.         *)
LEMMA PositionInRange ==
    ASSUME NEW S \in SUBSET Deliveries, NEW d \in S, NEW T \in SUBSET S, d \notin T
    PROVE  1 + Cardinality(T) \in 1..Cardinality(S)
<1>1. IsFiniteSet(S) /\ IsFiniteSet(T)
  BY FS_Subset
<1>2. IsFiniteSet(S \ {d}) /\ Cardinality(S \ {d}) = Cardinality(S) - 1
  BY <1>1, FS_RemoveElement
<1>3. Cardinality(T) <= Cardinality(S \ {d})
  BY <1>2, FS_Subset
<1>4. Cardinality(S) \in Nat /\ Cardinality(T) \in Nat
  BY <1>1, FS_CardinalityType
<1>. QED
  BY <1>2, <1>3, <1>4

LEMMA StrictlySmaller ==
    ASSUME NEW S \in SUBSET Deliveries, NEW T \in SUBSET S, S # T
    PROVE  Cardinality(T) < Cardinality(S)
<1>1. IsFiniteSet(S) /\ IsFiniteSet(T)
  BY FS_Subset
<1>2. Cardinality(T) <= Cardinality(S) /\ Cardinality(T) # Cardinality(S)
  BY <1>1, FS_Subset
<1>3. Cardinality(S) \in Nat /\ Cardinality(T) \in Nat
  BY <1>1, FS_CardinalityType
<1>. QED
  BY <1>2, <1>3

LEMMA SizesInRange ==
    ASSUME NEW S \in SUBSET Deliveries
    PROVE  1..Cardinality(S) \subseteq Seqs
<1>1. IsFiniteSet(S) /\ Cardinality(S) <= Cardinality(Deliveries)
  BY FS_Subset
<1>2. Cardinality(S) \in Nat /\ Cardinality(Deliveries) \in Nat
  BY <1>1, FS_CardinalityType
<1>. QED
  BY <1>1, <1>2 DEF Seqs

(* Numbering S along a total strict order R lists S in that order.         *)
Positions(S, R) == [d \in S |-> Numbered(1 + Cardinality({e \in S : <<e, d>> \in R}))]

LEMMA PositionsOrdered ==
    ASSUME NEW S \in SUBSET Deliveries, NEW R,
           \A d \in S : <<d, d>> \notin R,
           \A d, e \in S : d # e => <<d, e>> \in R \/ <<e, d>> \in R,
           \A d, e, g \in S : <<d, e>> \in R /\ <<e, g>> \in R => <<d, g>> \in R
    PROVE  /\ Positions(S, R) \in ListsOf(S)
           /\ \A d, e \in S : <<d, e>> \in R => Earlier(Positions(S, R), d, e)
<1>. DEFINE Below(d) == {e \in S : <<e, d>> \in R}
            f == [d \in S |-> Numbered(1 + Cardinality(Below(d)))]
<1>1. \A d \in S : Below(d) \in SUBSET S /\ d \notin Below(d)
  OBVIOUS
<1>2. ASSUME NEW d \in S, NEW e \in S, <<d, e>> \in R
      PROVE  Below(d) \in SUBSET Below(e) /\ Below(d) # Below(e)
  <2>1. d \in Below(e)
    BY <1>2
  <2>2. Below(d) \in SUBSET Below(e)
    BY <1>2
  <2>. QED
    BY <1>1, <2>1, <2>2
<1>. HIDE DEF Below
<1>3. \A d \in S : /\ 1 + Cardinality(Below(d)) \in 1..Cardinality(S)
                   /\ 1 + Cardinality(Below(d)) \in Seqs
  BY <1>1, PositionInRange, SizesInRange
<1>4. \A d \in S : Cardinality(Below(d)) \in Nat
  <2>1. \A d \in S : IsFiniteSet(Below(d))
    BY <1>1, FS_Subset
  <2>. QED
    BY <2>1, FS_CardinalityType
<1>5. \A d, e \in S : <<d, e>> \in R => Cardinality(Below(d)) < Cardinality(Below(e))
  <2>1. \A e \in S : Below(e) \in SUBSET Deliveries
    BY <1>1
  <2>. QED
    BY <1>2, <2>1, StrictlySmaller
<1>6. ASSUME NEW d \in S, NEW e \in S, Cardinality(Below(d)) = Cardinality(Below(e))
      PROVE  d = e
  <2>1. ~(Cardinality(Below(d)) < Cardinality(Below(e)))
    BY <1>4, <1>6
  <2>2. ~(Cardinality(Below(e)) < Cardinality(Below(d)))
    BY <1>4, <1>6
  <2>. QED
    BY <1>5, <2>1, <2>2
<1>7. f \in [S -> [seq : Seqs, nth : 1..Cardinality(S)]]
  BY <1>3 DEF Numbered
<1>8. \A d, e \in S : f[d].nth = f[e].nth => d = e
  BY <1>4, <1>6 DEF Numbered
<1>9. \A d, e \in S : <<d, e>> \in R => Earlier(f, d, e)
  BY <1>4, <1>5 DEF Numbered, Earlier
<1>10. f \in ListsOf(S)
  BY <1>7, <1>8 DEF ListsOf
<1>. QED
  BY <1>9, <1>10 DEF Below, Positions

(* A snapshot's deliveries are numbered in creation order.                 *)
LEMMA RankedOrdered ==
    ASSUME NEW S \in SUBSET Deliveries
    PROVE  Ranked(S) \in ListsOf(S)
<1>. DEFINE R == {p \in S \X S : p[1] < p[2]}
            f == Positions(S, R)
<1>1. \A d, e \in S : d \in Nat /\ e \in Nat /\ (<<d, e>> \in R <=> d < e)
  OBVIOUS
<1>2. f \in ListsOf(S)
  <2>. HIDE DEF R
  <2>1. \A d \in S : <<d, d>> \notin R
    BY <1>1
  <2>2. \A d, e \in S : d # e => <<d, e>> \in R \/ <<e, d>> \in R
    BY <1>1
  <2>3. \A d, e, g \in S : <<d, e>> \in R /\ <<e, g>> \in R => <<d, g>> \in R
    BY <1>1
  <2>. QED
    BY <2>1, <2>2, <2>3, PositionsOrdered
<1>3. ASSUME NEW d \in S
      PROVE  Cardinality({e \in S : e <= d}) = 1 + Cardinality({e \in S : <<e, d>> \in R})
  <2>. DEFINE B == {e \in S : <<e, d>> \in R}
  <2>1. B \in SUBSET S /\ d \notin B
    BY <1>1
  <2>2. {e \in S : e <= d} = B \cup {d}
    <3>1. \A e \in S : e <= d <=> e < d \/ e = d
      BY <1>1
    <3>2. \A e \in S : e \in B <=> e < d
      BY <1>1
    <3>. HIDE DEF B
    <3>. QED
      BY <2>1, <3>1, <3>2
  <2>3. IsFiniteSet(S)
    BY FS_Subset
  <2>4. IsFiniteSet(B)
    BY <2>1, <2>3, FS_Subset
  <2>5. Cardinality(B \cup {d}) = Cardinality(B) + 1 /\ Cardinality(B) \in Nat
    BY <2>1, <2>4, FS_AddElement, FS_CardinalityType
  <2>6. Cardinality({e \in S : e <= d}) = Cardinality(B) + 1
    BY <2>2, <2>5, Zenon
  <2>. HIDE DEF B
  <2>7. Cardinality({e \in S : e <= d}) = 1 + Cardinality(B)
    BY <2>5, <2>6
  <2>. QED
    BY <2>7 DEF B
<1>4. Ranked(S) = f
  BY <1>3 DEF Ranked, Positions
<1>. QED
  BY <1>2, <1>4

LEMMA PendingType ==
    ASSUME NEW row \in Row
    PROVE  /\ DOMAIN row.pending \in SUBSET Deliveries
           /\ row.pending \in ListsOf(DOMAIN row.pending)
<1>1. PICK S \in SUBSET Deliveries : row.pending \in ListsOf(S)
  BY DEF Row, DeliveryLists
<1>2. DOMAIN row.pending = S
  BY <1>1 DEF ListsOf
<1>. QED
  BY <1>1, <1>2

(* The row that replaces another one owes what its predecessor owed and    *)
(* what the snapshot adds; what the snapshot does not list stays first, in *)
(* the order it had.                                                       *)
LEMMA ReplacementOrdered ==
    ASSUME NEW row \in Row, NEW held \in SUBSET Deliveries
    PROVE  LET fresh == held \ row.replayed
               carried == Replay(row) \ fresh
               f == ReplacementDeliveries(row, held)
           IN  /\ f \in ListsOf(fresh \cup Replay(row))
               /\ \A d \in carried, e \in fresh : Earlier(f, d, e)
               /\ \A d, e \in carried : Earlier(row.pending, d, e) => Earlier(f, d, e)
<1>. DEFINE fresh == held \ row.replayed
            carried == Replay(row) \ fresh
            S == carried \cup fresh
            Before(d, e) ==
                \/ d \in carried /\ e \in fresh
                \/ d \in carried /\ e \in carried /\ Earlier(row.pending, d, e)
                \/ d \in fresh /\ e \in fresh /\ d < e
            R == {p \in S \X S : Before(p[1], p[2])}
            f == Positions(S, R)
<1>0. /\ S \in SUBSET Deliveries
      /\ \A d \in S : d \in Nat /\ (d \in carried <=> d \notin fresh)
  BY PendingType DEF Replay
<1>1. \A d \in S : d \in Nat /\ (d \in carried <=> d \notin fresh)
  BY <1>0
<1>2. \A d \in carried : /\ d \in DOMAIN row.pending
                         /\ row.pending[d].seq \in Nat /\ row.pending[d].nth \in Nat
  BY PendingType DEF Replay, Seqs, ListsOf
<1>3. \A d, e \in carried : row.pending[d].nth = row.pending[e].nth => d = e
  BY PendingType DEF ListsOf, Replay
<1>4. \A d, e \in S : <<d, e>> \in R <=> Before(d, e)
  OBVIOUS
<1>5. f \in ListsOf(S) /\ \A d, e \in S : Before(d, e) => Earlier(f, d, e)
  <2>1. \A d \in S : ~Before(d, d)
    <3>. HIDE DEF fresh, carried, S
    <3>. QED BY <1>1, <1>2 DEF Earlier
  <2>2. \A d, e \in S : d # e => Before(d, e) \/ Before(e, d)
    <3>. HIDE DEF fresh, carried, S
    <3>. QED BY <1>1, <1>2, <1>3 DEF Earlier
  <2>3. \A d, e, g \in S : Before(d, e) /\ Before(e, g) => Before(d, g)
    <3>. HIDE DEF fresh, carried, S
    <3>. QED BY <1>1, <1>2 DEF Earlier
  <2>. HIDE DEF R, Before, S
  <2>. QED
    BY <1>0, <1>4, <2>1, <2>2, <2>3, PositionsOrdered
<1>6. \A d \in S : {e \in S : <<e, d>> \in R} = {e \in S : Before(e, d)}
  BY <1>4
<1>7. f = ReplacementDeliveries(row, held)
  BY <1>6 DEF ReplacementDeliveries, Positions
<1>8. S = fresh \cup Replay(row)
  OBVIOUS
<1>9. /\ \A d \in carried, e \in fresh : Before(d, e)
      /\ \A d, e \in carried : Earlier(row.pending, d, e) => Before(d, e)
  OBVIOUS
<1>. HIDE DEF f, Before, R
<1>. QED
  BY <1>5, <1>7, <1>8, <1>9

-----------------------------------------------------------------------------
(* The inductive invariant                                                 *)

LEMMA RowIsNotNoRow == \A row \in Row : row # NoRow
BY DEF Row, NoRow

LEMMA ListIsDeliveryList ==
    ASSUME NEW S \in SUBSET Deliveries, NEW f \in ListsOf(S)
    PROVE  f \in DeliveryLists
BY DEF DeliveryLists

LEMMA AckedInType ==
    ASSUME NEW h \in [Operations -> HistoryRow \cup {NoRow}], NEW c
    PROVE  AckedIn(h, c) \in SUBSET Deliveries
BY DEF AckedIn, HistoryRow

LEMMA ActiveInRowOf == \A c : RowOf(c) # {} => Active(c) \in RowOf(c)
BY DEF Active

LEMMA InitInv == Init => HandoffInv
<1>. SUFFICES ASSUME Init PROVE HandoffInv
  OBVIOUS
<1>1. TypeOK
  BY DEF Init, TypeOK
<1>2. OneLease /\ LeaseCoherent /\ AcksInherited
  BY DEF Init, OneLease, RowOf, LeaseCoherent, AcksInherited
<1>. QED
  BY <1>1, <1>2 DEF HandoffInv

(* A transaction that rewrites rows one by one, keeps the history and      *)
(* neither adds nor removes a row preserves the invariant when every row it*)
(* writes is well formed, coherent and keeps the inherited acks.           *)
RowOK(op, row) ==
    /\ row \in Row
    /\ row.status \in {"claimed", "terminal"} => row.successor # None
    /\ row.status = "pending" => row.successor = None
    /\ row.successor # None => row.host = row.successor
    /\ (row.predecessor = None) = (row.successor = None)
    /\ row.status = "terminal" => row.turn = "terminal" /\ row.outcome = "completed"
    /\ row.status = "claimed" => row.turn # "terminal"
    /\ AckedIn(history, op[1]) \subseteq row.replayed
    /\ row.replayed \subseteq AckedIn(history, op[1]) \cup DOMAIN row.pending

LEMMA InvRowOK ==
    ASSUME HandoffInv, NEW op \in Operations, rows[op] # NoRow
    PROVE  RowOK(op, rows[op])
<1>1. rows[op] \in Row
  BY DEF HandoffInv, TypeOK
<1>. QED
  BY <1>1 DEF HandoffInv, LeaseCoherent, AcksInherited, RowOK

LEMMA PointwiseStep ==
    ASSUME HandoffInv,
           UNCHANGED history,
           rows' = [op \in Operations |-> rows'[op]],
           draining' \subseteq Generations,
           ackedBy' \in [Conversations -> [Deliveries -> Generations \cup {None}]],
           \A op \in Operations : rows[op] = NoRow => rows'[op] = NoRow,
           \A op \in Operations : rows[op] # NoRow => RowOK(op, rows'[op])
    PROVE  HandoffInv'
<1>1. \A op \in Operations : rows'[op] # NoRow <=> rows[op] # NoRow
  BY RowIsNotNoRow DEF RowOK
<1>2. TypeOK'
  <2>1. \A op \in Operations : rows'[op] \in Row \cup {NoRow}
    BY DEF RowOK
  <2>2. rows' \in [Operations -> Row \cup {NoRow}]
    BY <2>1
  <2>. QED
    BY <2>2 DEF HandoffInv, TypeOK
<1>3. OneLease'
  <2>1. \A c : RowOf(c)' = RowOf(c)
    BY <1>1 DEF RowOf
  <2>. QED
    BY <1>1, <2>1 DEF HandoffInv, OneLease
<1>4. LeaseCoherent'
  BY <1>1 DEF LeaseCoherent, RowOK
<1>5. AcksInherited'
  BY <1>1 DEF AcksInherited, RowOK
<1>. QED
  BY <1>2, <1>3, <1>4, <1>5 DEF HandoffInv

LEMMA BeginDrainInv ==
    ASSUME HandoffInv, NEW g \in Generations, BeginDrain(g)
    PROVE  HandoffInv'
<1>. USE DEF BeginDrain
<1>1. \A op \in Operations : rows[op] = NoRow => rows'[op] = NoRow
  OBVIOUS
<1>2. ASSUME NEW op \in Operations, rows[op] # NoRow PROVE RowOK(op, rows'[op])
  <2>1. CASE rows[op].host = g /\ rows[op].status \in {"pending", "claimed"}
    <3>1. rows'[op] = [rows[op] EXCEPT !.status = "draining"]
      BY <1>2, <2>1
    <3>. QED
      BY <1>2, <3>1, InvRowOK DEF RowOK, Row, Statuses
  <2>2. CASE ~(rows[op].host = g /\ rows[op].status \in {"pending", "claimed"})
    BY <1>2, <2>2, InvRowOK
  <2>. QED
    BY <2>1, <2>2
<1>3. draining' \subseteq Generations
  BY DEF HandoffInv, TypeOK
<1>. QED
  BY <1>1, <1>2, <1>3, PointwiseStep DEF HandoffInv, TypeOK

LEMMA AdmitMessageInv ==
    ASSUME HandoffInv, NEW op \in Operations, NEW d \in Deliveries, NEW seq \in 1..MaxSeq,
           AdmitMessage(op, d, seq)
    PROVE  HandoffInv'
<1>. DEFINE q == rows[op].pending
            ids == DOMAIN q \cup {d}
            p == [e \in ids |-> IF e = d THEN [seq |-> seq, nth |-> Cardinality(ids)]
                               ELSE q[e]]
<1>1. /\ rows[op] # NoRow
      /\ d \notin DOMAIN q
      /\ rows' = [rows EXCEPT ![op].pending = p]
      /\ UNCHANGED <<history, draining, ackedBy>>
  BY DEF AdmitMessage
<1>2. RowOK(op, rows[op])
  BY <1>1, InvRowOK
<1>3. p \in DeliveryLists
  <2>1. seq \in Seqs
    BY FS_CardinalityType DEF Seqs
  <2>2. DOMAIN q \in SUBSET Deliveries /\ q \in ListsOf(DOMAIN q)
    BY <1>2, PendingType DEF RowOK
  <2>3. Cardinality(ids) = Cardinality(DOMAIN q) + 1 /\ Cardinality(DOMAIN q) \in Nat
    BY <1>1, <2>2, FS_Subset, FS_AddElement, FS_CardinalityType
  <2>4. \A e \in DOMAIN q : /\ q[e] \in [seq : Seqs, nth : 1..Cardinality(DOMAIN q)]
                            /\ q[e] \in [seq : Seqs, nth : 1..Cardinality(ids)]
                            /\ q[e].nth # Cardinality(ids)
    <3>. HIDE DEF q, ids
    <3>. QED BY <2>2, <2>3 DEF ListsOf
  <2>5. p[d] = [seq |-> seq, nth |-> Cardinality(ids)] /\ \A e \in DOMAIN q : p[e] = q[e]
    BY <1>1
  <2>6. \A e, g \in DOMAIN q : q[e].nth = q[g].nth => e = g
    BY <2>2 DEF ListsOf
  <2>7. p[d] \in [seq : Seqs, nth : 1..Cardinality(ids)] /\ p[d].nth = Cardinality(ids)
    <3>. HIDE DEF p, ids, q
    <3>. QED BY <2>1, <2>3, <2>5
  <2>8. p \in ListsOf(ids)
    <3>1. \A e \in ids : p[e] \in [seq : Seqs, nth : 1..Cardinality(ids)]
      <4>. HIDE DEF p, q
      <4>. QED BY <2>4, <2>5, <2>7
    <3>2. \A e, g \in ids : p[e].nth = p[g].nth => e = g
      <4>. HIDE DEF p, q
      <4>. QED BY <2>4, <2>5, <2>6, <2>7
    <3>3. p = [e \in ids |-> p[e]]
      OBVIOUS
    <3>. HIDE DEF p, ids
    <3>. QED BY <3>1, <3>2, <3>3 DEF ListsOf
  <2>9. ids \in SUBSET Deliveries
    BY <2>2
  <2>. HIDE DEF p, ids
  <2>. QED
    BY <2>8, <2>9, ListIsDeliveryList
<1>9. DOMAIN p = DOMAIN rows[op].pending \cup {d}
  OBVIOUS
<1>. HIDE DEF p
<1>5. rows[op] \in Row
  BY <1>2 DEF RowOK
<1>6. rows'[op] = [rows[op] EXCEPT !.pending = p]
  BY <1>1 DEF HandoffInv, TypeOK
<1>7. RowOK(op, rows'[op])
  BY <1>2, <1>3, <1>5, <1>6, <1>9 DEF RowOK, Row
<1>8. \A o \in Operations : o # op => rows'[o] = rows[o]
  BY <1>1
<1>. QED
  BY <1>1, <1>7, <1>8, InvRowOK, PointwiseStep DEF HandoffInv, TypeOK

LEMMA RefreshTurnStateInv ==
    ASSUME HandoffInv, NEW op \in Operations, NEW g \in Generations, NEW turn \in Turns,
           RefreshTurnState(op, g, turn)
    PROVE  HandoffInv'
<1>1. /\ rows[op] # NoRow
      /\ rows[op].status \in {"pending", "draining"}
      /\ rows' = [rows EXCEPT ![op].turn = turn]
      /\ UNCHANGED <<history, draining, ackedBy>>
  BY DEF RefreshTurnState
<1>2. RowOK(op, rows[op])
  BY <1>1, InvRowOK
<1>3. rows'[op] = [rows[op] EXCEPT !.turn = turn]
  BY <1>1 DEF HandoffInv, TypeOK
<1>4. RowOK(op, rows'[op])
  BY <1>1, <1>2, <1>3 DEF RowOK, Row
<1>5. \A o \in Operations : o # op => rows'[o] = rows[o]
  BY <1>1
<1>. QED
  BY <1>1, <1>4, <1>5, InvRowOK, PointwiseStep DEF HandoffInv, TypeOK

LEMMA ClaimInv ==
    ASSUME HandoffInv, NEW op \in Operations, NEW from \in Generations,
           NEW to \in Generations, Claim(op, from, to)
    PROVE  HandoffInv'
<1>. DEFINE status == IF rows[op].turn = "terminal" THEN "terminal" ELSE "claimed"
<1>1. /\ rows[op] # NoRow
      /\ UNCHANGED <<history, draining, ackedBy>>
      /\ \A o \in Operations : o # op => rows'[o] = rows[o]
  BY DEF Claim
<1>2. RowOK(op, rows[op])
  BY <1>1, InvRowOK
<1>3. rows'[op] = [rows[op] EXCEPT !.predecessor = from, !.successor = to, !.host = to,
                                   !.status = status, !.outcome = OutcomeFor(rows[op].turn)]
  BY DEF Claim, HandoffInv, TypeOK
<1>4. /\ OutcomeFor(rows[op].turn) \in Outcomes
      /\ rows[op].turn = "terminal" => OutcomeFor(rows[op].turn) = "completed"
  BY <1>2 DEF RowOK, Row, Turns, OutcomeFor, Outcomes
<1>5. rows'[op] \in Row
  BY <1>2, <1>3, <1>4 DEF RowOK, Row, Statuses
<1>6. RowOK(op, rows'[op])
  <2>1. /\ rows'[op].predecessor = from /\ rows'[op].successor = to /\ rows'[op].host = to
        /\ rows'[op].status = status /\ rows'[op].outcome = OutcomeFor(rows[op].turn)
        /\ rows'[op].turn = rows[op].turn /\ rows'[op].replayed = rows[op].replayed
        /\ rows'[op].pending = rows[op].pending
    BY <1>2, <1>3 DEF RowOK, Row
  <2>. QED
    BY <1>2, <1>4, <1>5, <2>1 DEF RowOK
<1>. QED
  BY <1>1, <1>6, InvRowOK, PointwiseStep DEF HandoffInv, TypeOK, Claim

LEMMA AcknowledgeReplayInv ==
    ASSUME HandoffInv, NEW op \in Operations, NEW g \in Generations,
           NEW ids \in SUBSET Deliveries, AcknowledgeReplay(op, g, ids)
    PROVE  HandoffInv'
<1>1. /\ rows[op] # NoRow
      /\ ids \subseteq DOMAIN rows[op].pending
      /\ rows' = [rows EXCEPT ![op].replayed = @ \cup ids]
      /\ UNCHANGED <<history, draining>>
  BY DEF AcknowledgeReplay
<1>2. RowOK(op, rows[op])
  BY <1>1, InvRowOK
<1>3. rows'[op] = [rows[op] EXCEPT !.replayed = @ \cup ids]
  BY <1>1 DEF HandoffInv, TypeOK
<1>4. RowOK(op, rows'[op])
  BY <1>1, <1>2, <1>3 DEF RowOK, Row
<1>5. \A o \in Operations : o # op => rows'[o] = rows[o]
  BY <1>1
<1>6. ackedBy' \in [Conversations -> [Deliveries -> Generations \cup {None}]]
  <2>1. [d \in Deliveries |-> IF d \in ids THEN g ELSE ackedBy[op[1]][d]]
            \in [Deliveries -> Generations \cup {None}]
    BY DEF HandoffInv, TypeOK, Operations
  <2>. QED
    BY <2>1 DEF HandoffInv, TypeOK, AcknowledgeReplay
<1>. QED
  BY <1>1, <1>4, <1>5, <1>6, InvRowOK, PointwiseStep DEF HandoffInv, TypeOK

LEMMA FailCandidateInv ==
    ASSUME HandoffInv, NEW g \in Generations, FailCandidate(g)
    PROVE  HandoffInv'
<1>1. ASSUME NEW op \in Operations
      PROVE  rows'[op] = IF rows[op] # NoRow /\ rows[op].successor = g THEN Released(op)
                         ELSE rows[op]
  BY DEF FailCandidate
<1>2. ASSUME NEW op \in Operations, rows[op] # NoRow, rows[op].successor = g
      PROVE  RowOK(op, Released(op))
  <2>1. RowOK(op, rows[op])
    BY <1>2, InvRowOK
  <2>2. rows[op].predecessor \in Generations
    BY <1>2, <2>1 DEF RowOK, Row
  <2>3. AckedIn(history, op[1]) \in SUBSET Deliveries
    BY AckedInType DEF HandoffInv, TypeOK
  <2>. QED
    BY <2>1, <2>2, <2>3 DEF RowOK, Row, Released, Statuses, Outcomes
<1>3. \A op \in Operations : rows[op] # NoRow => RowOK(op, rows'[op])
  BY <1>1, <1>2, InvRowOK
<1>4. \A op \in Operations : rows[op] = NoRow => rows'[op] = NoRow
  BY <1>1
<1>. QED
  BY <1>3, <1>4, PointwiseStep DEF FailCandidate, HandoffInv, TypeOK

LEMMA MarkRetryableFailureInv ==
    ASSUME HandoffInv, NEW op \in Operations, MarkRetryableFailure(op)
    PROVE  HandoffInv'
<1>1. /\ rows[op] # NoRow
      /\ rows' = [rows EXCEPT ![op].status = "failed"]
      /\ UNCHANGED <<history, draining, ackedBy>>
  BY DEF MarkRetryableFailure
<1>2. RowOK(op, rows[op])
  BY <1>1, InvRowOK
<1>3. rows'[op] = [rows[op] EXCEPT !.status = "failed"]
  BY <1>1 DEF HandoffInv, TypeOK
<1>4. RowOK(op, rows'[op])
  BY <1>2, <1>3 DEF RowOK, Row, Statuses
<1>5. \A o \in Operations : o # op => rows'[o] = rows[o]
  BY <1>1
<1>. QED
  BY <1>1, <1>4, <1>5, InvRowOK, PointwiseStep DEF HandoffInv, TypeOK

-----------------------------------------------------------------------------
(* enqueue: the one transaction that adds and removes rows                 *)

LEMMA NewRowOK ==
    ASSUME HandoffInv, NEW c \in Conversations, NEW snapshot \in Snapshot
    PROVE  NewRow(c, snapshot) \in Row
<1>1. snapshot.host \in Generations /\ snapshot.turn \in Turns /\ snapshot.held \in SUBSET Deliveries
  BY DEF Snapshot
<1>. DEFINE row == NewRow(c, snapshot)
<1>2. CASE RowOf(c) = {}
  <2>1. row.pending = Ranked(snapshot.held) /\ row.replayed = AckedIn(history, c)
    BY <1>2 DEF NewRow
  <2>2. row.pending \in DeliveryLists
    BY <1>1, <2>1, RankedOrdered, ListIsDeliveryList
  <2>3. row.replayed \in SUBSET Deliveries
    BY <2>1, AckedInType DEF HandoffInv, TypeOK
  <2>. QED
    BY <1>1, <2>2, <2>3 DEF NewRow, Row, Statuses, Outcomes
<1>3. CASE RowOf(c) # {}
  <2>. DEFINE a == rows[Active(c)]
  <2>1. Active(c) \in Operations /\ rows[Active(c)] # NoRow
    BY <1>3, ActiveInRowOf DEF RowOf
  <2>2. a \in Row
    BY <2>1, InvRowOK DEF RowOK
  <2>3. row.pending = ReplacementDeliveries(a, snapshot.held)
        /\ row.replayed = AckedIn(history, c) \cup a.replayed
    BY <1>3 DEF NewRow
  <2>4. row.pending \in ListsOf((snapshot.held \ a.replayed) \cup Replay(a))
    BY <1>1, <2>2, <2>3, ReplacementOrdered
  <2>5. (snapshot.held \ a.replayed) \cup Replay(a) \in SUBSET Deliveries
    BY <1>1, <2>2, PendingType DEF Replay
  <2>6. row.pending \in DeliveryLists
    BY <2>4, <2>5, ListIsDeliveryList
  <2>7. row.replayed \in SUBSET Deliveries
    BY <2>2, <2>3, AckedInType DEF HandoffInv, TypeOK, Row
  <2>. QED
    BY <1>1, <2>6, <2>7 DEF NewRow, Row, Statuses, Outcomes
<1>. QED
  BY <1>2, <1>3

(* What one conversation looks like after the transaction.                 *)
LEMMA EnqueueRows ==
    ASSUME HandoffInv, NEW C \in SUBSET Conversations, NEW inputs \in [C -> Snapshot],
           Enqueue(inputs), NEW c \in Conversations, Accepted(inputs, c)
    PROVE  LET new == <<c, inputs[c].host>> IN
           /\ inputs[c] \in Snapshot
           /\ new \in Operations
           /\ rows[new] = NoRow /\ history[new] = NoRow /\ history'[new] = NoRow
           /\ rows'[new] = NewRow(c, inputs[c])
           /\ RowOf(c)' = {new}
           /\ AckedIn(history', c) = NewRow(c, inputs[c]).replayed
<1>. DEFINE new == <<c, inputs[c].host>>
<1>1. inputs[c] \in Snapshot
  BY DEF Accepted
<1>2. new \in Operations /\ new[1] = c /\ new[2] = inputs[c].host
  BY <1>1 DEF Snapshot, Operations
<1>3. rows[new] = NoRow /\ history[new] = NoRow
  BY DEF Accepted, Enqueues
<1>4. rows'[new] = NewRow(c, inputs[c])
  BY <1>2 DEF Enqueue
<1>5. ~Superseded(inputs, new)
  BY <1>2, <1>3 DEF Superseded, RowOf
<1>6. history'[new] = NoRow
  BY <1>2, <1>3, <1>5 DEF Enqueue
<1>7. ASSUME NEW op \in Operations, op[1] = c, op # new PROVE rows'[op] = NoRow
  <2>1. op[2] # inputs[c].host
    BY <1>7 DEF Operations
  <2>2. CASE rows[op] = NoRow
    BY <1>7, <2>1, <2>2 DEF Enqueue, Superseded
  <2>3. CASE rows[op] # NoRow
    <3>1. op \in RowOf(c)
      BY <1>7, <2>3 DEF RowOf
    <3>2. op = Active(c)
      BY <3>1, ActiveInRowOf DEF HandoffInv, OneLease
    <3>3. Superseded(inputs, op)
      BY <1>7, <3>1, <3>2 DEF Superseded
    <3>. QED
      BY <1>7, <2>1, <3>3 DEF Enqueue
  <2>. QED
    BY <2>2, <2>3
<1>8. NewRow(c, inputs[c]) # NoRow
  BY <1>1, NewRowOK, RowIsNotNoRow
<1>9. RowOf(c)' = {new}
  BY <1>2, <1>4, <1>7, <1>8 DEF RowOf
<1>10. AckedIn(history', c) = NewRow(c, inputs[c]).replayed
  <2>1. CASE RowOf(c) = {}
    <3>1. \A op \in Operations : op[1] = c => history'[op] = history[op]
      BY <2>1 DEF Enqueue, Superseded
    <3>2. AckedIn(history', c) = AckedIn(history, c)
      BY <3>1 DEF AckedIn
    <3>. QED
      BY <2>1, <3>2 DEF NewRow
  <2>2. CASE RowOf(c) # {}
    <3>. DEFINE a == Active(c)
    <3>1. a \in RowOf(c) /\ a \in Operations /\ a[1] = c /\ rows[a] # NoRow
      BY <2>2, ActiveInRowOf DEF RowOf
    <3>2. Superseded(inputs, a)
      BY <3>1 DEF Superseded
    <3>3. history'[a] = [replayed |-> rows[a].replayed] /\ history[a] = NoRow
      BY <3>1, <3>2 DEF Enqueue, HandoffInv, OneLease
    <3>4. \A op \in Operations : op[1] = c /\ op # a => history'[op] = history[op]
      BY DEF Enqueue, Superseded
    <3>5. history'[a] # NoRow /\ history'[a].replayed = rows[a].replayed
      BY <3>3 DEF NoRow
    <3>. HIDE DEF a
    <3>6. AckedIn(history', c) = AckedIn(history, c) \cup rows[a].replayed
      BY <3>1, <3>3, <3>4, <3>5 DEF AckedIn
    <3>7. NewRow(c, inputs[c]).replayed = AckedIn(history, c) \cup rows[a].replayed
      BY <2>2 DEF NewRow, a
    <3>. QED
      BY <3>6, <3>7
  <2>. QED
    BY <2>1, <2>2
<1>. QED
  BY <1>1, <1>2, <1>3, <1>4, <1>6, <1>9, <1>10

LEMMA EnqueueOthers ==
    ASSUME NEW inputs, Enqueue(inputs), NEW c \in Conversations, ~Accepted(inputs, c)
    PROVE  /\ \A op \in Operations :
                 op[1] = c => rows'[op] = rows[op] /\ history'[op] = history[op]
           /\ RowOf(c)' = RowOf(c)
           /\ AckedIn(history', c) = AckedIn(history, c)
<1>1. \A op \in Operations :
         op[1] = c => rows'[op] = rows[op] /\ history'[op] = history[op]
  BY DEF Enqueue, Superseded
<1>2. RowOf(c)' = RowOf(c)
  BY <1>1 DEF RowOf
<1>3. AckedIn(history', c) = AckedIn(history, c)
  BY <1>1 DEF AckedIn
<1>. QED
  BY <1>1, <1>2, <1>3

LEMMA EnqueueInv ==
    ASSUME HandoffInv, NEW C \in SUBSET Conversations, NEW inputs \in [C -> Snapshot],
           Enqueue(inputs)
    PROVE  HandoffInv'
<1>1. ASSUME NEW op \in Operations, rows'[op] # NoRow
      PROVE  \/ rows'[op] = rows[op] /\ ~Accepted(inputs, op[1])
             \/ /\ Accepted(inputs, op[1]) /\ op = <<op[1], inputs[op[1]].host>>
                /\ rows'[op] = NewRow(op[1], inputs[op[1]])
  <2>1. op[1] \in Conversations
    BY DEF Operations
  <2>2. CASE Accepted(inputs, op[1])
    <3>1. op \in RowOf(op[1])'
      BY <1>1 DEF RowOf
    <3>. DEFINE new == <<op[1], inputs[op[1]].host>>
    <3>2. RowOf(op[1])' = {new} /\ rows'[new] = NewRow(op[1], inputs[op[1]])
      BY <2>1, <2>2, EnqueueRows
    <3>3. op = new
      BY <3>1, <3>2
    <3>. QED
      BY <2>2, <3>2, <3>3
  <2>3. CASE ~Accepted(inputs, op[1])
    BY <2>1, <2>3, EnqueueOthers
  <2>. QED
    BY <2>2, <2>3
<1>2. ASSUME NEW op \in Operations, Accepted(inputs, op[1])
      PROVE  /\ inputs[op[1]] \in Snapshot
             /\ NewRow(op[1], inputs[op[1]]) \in Row
  <2>1. op[1] \in Conversations
    BY DEF Operations
  <2>2. inputs[op[1]] \in Snapshot
    BY <1>2, <2>1, EnqueueRows
  <2>. QED
    BY <2>1, <2>2, NewRowOK
<1>3. TypeOK'
  <2>1. \A op \in Operations : rows'[op] \in Row \cup {NoRow}
    BY <1>1, <1>2 DEF HandoffInv, TypeOK
  <2>2. \A op \in Operations : history'[op] \in HistoryRow \cup {NoRow}
    <3>1. ASSUME NEW op \in Operations, Superseded(inputs, op)
          PROVE  [replayed |-> rows[op].replayed] \in HistoryRow
      <4>1. rows[op] \in Row
        BY <3>1, InvRowOK DEF Superseded, RowOf, RowOK
      <4>. QED
        BY <4>1 DEF Row, HistoryRow
    <3>. QED
      BY <3>1 DEF Enqueue, HandoffInv, TypeOK
  <2>3. rows' \in [Operations -> Row \cup {NoRow}]
    BY <2>1 DEF Enqueue
  <2>4. history' \in [Operations -> HistoryRow \cup {NoRow}]
    BY <2>2 DEF Enqueue
  <2>. QED
    BY <2>3, <2>4 DEF Enqueue, HandoffInv, TypeOK
<1>4. OneLease'
  <2>1. ASSUME NEW c \in Conversations, NEW o \in RowOf(c)', NEW p \in RowOf(c)' PROVE o = p
    <3>1. CASE Accepted(inputs, c)
      <4>1. RowOf(c)' = {<<c, inputs[c].host>>}
        BY <3>1, EnqueueRows
      <4>. QED
        BY <4>1
    <3>2. CASE ~Accepted(inputs, c)
      BY <2>1, <3>2, EnqueueOthers DEF HandoffInv, OneLease
    <3>. QED
      BY <3>1, <3>2
  <2>2. ASSUME NEW op \in Operations, history'[op] # NoRow
        PROVE  rows'[op] = NoRow /\ RowOf(op[1])' # {}
    <3>1. op[1] \in Conversations
      BY DEF Operations
    <3>2. CASE Accepted(inputs, op[1])
      <4>. DEFINE new == <<op[1], inputs[op[1]].host>>
      <4>1. RowOf(op[1])' = {new} /\ history'[new] = NoRow
        BY <3>1, <3>2, EnqueueRows
      <4>2. op # new /\ op \notin RowOf(op[1])'
        BY <2>2, <4>1
      <4>. QED
        BY <4>1, <4>2 DEF RowOf
    <3>3. CASE ~Accepted(inputs, op[1])
      BY <2>2, <3>1, <3>3, EnqueueOthers DEF HandoffInv, OneLease
    <3>. QED
      BY <3>2, <3>3
  <2>. QED
    BY <2>1, <2>2 DEF OneLease
<1>5. LeaseCoherent'
  <2>1. ASSUME NEW op \in Operations, Accepted(inputs, op[1])
        PROVE  LET row == NewRow(op[1], inputs[op[1]]) IN
               row.status = "pending" /\ row.successor = None /\ row.predecessor = None
    BY DEF NewRow
  <2>. QED
    BY <1>1, <2>1 DEF HandoffInv, LeaseCoherent
<1>6. AcksInherited'
  <2>1. ASSUME NEW op \in Operations, rows'[op] # NoRow
        PROVE  /\ AckedIn(history', op[1]) \subseteq rows'[op].replayed
               /\ rows'[op].replayed
                     \subseteq AckedIn(history', op[1]) \cup DOMAIN rows'[op].pending
    <3>1. op[1] \in Conversations
      BY DEF Operations
    <3>2. CASE Accepted(inputs, op[1])
      BY <1>1, <2>1, <3>1, <3>2, EnqueueRows
    <3>3. CASE ~Accepted(inputs, op[1])
      <4>1. AckedIn(history', op[1]) = AckedIn(history, op[1])
        BY <3>1, <3>3, EnqueueOthers
      <4>. QED
        BY <1>1, <2>1, <3>3, <4>1 DEF HandoffInv, AcksInherited
    <3>. QED
      BY <3>2, <3>3
  <2>. QED
    BY <2>1 DEF AcksInherited
<1>. QED
  BY <1>3, <1>4, <1>5, <1>6 DEF HandoffInv

LEMMA NextInv == HandoffInv /\ [Next]_vars => HandoffInv'
<1>. SUFFICES ASSUME HandoffInv, [Next]_vars PROVE HandoffInv'
  OBVIOUS
<1>1. ASSUME NEW C \in SUBSET Conversations, NEW inputs \in [C -> Snapshot], Enqueue(inputs)
      PROVE  HandoffInv'
  BY <1>1, EnqueueInv
<1>2. CASE UNCHANGED vars
  <2>1. \A c : RowOf(c)' = RowOf(c)
    BY <1>2 DEF vars, RowOf
  <2>. QED
    BY <1>2, <2>1 DEF vars, HandoffInv, TypeOK, OneLease, LeaseCoherent, AcksInherited,
                      AckedIn
<1>. QED
  BY <1>1, <1>2, BeginDrainInv, AdmitMessageInv, RefreshTurnStateInv, ClaimInv,
     AcknowledgeReplayInv, FailCandidateInv, MarkRetryableFailureInv DEF Next

(* The lease table is well formed, a conversation has one lease, its fence *)
(* fields agree and inherited acknowledgements stay, after any sequence of *)
(* calls.                                                                  *)
THEOREM HandoffInvariant == Spec => []HandoffInv
<1>. QED
  BY InitInv, NextInv, PTL DEF Spec

-----------------------------------------------------------------------------
(* The refinement                                                          *)

LEMMA LeaseIsRow ==
    ASSUME HandoffInv, NEW op \in Operations, rows[op] # NoRow
    PROVE  LeaseOf(op[1]) = RowLease(rows[op], AckedIn(history, op[1]))
<1>1. op \in RowOf(op[1]) /\ op[1] \in Conversations
  BY DEF RowOf, Operations
<1>2. Active(op[1]) = op
  BY <1>1, ActiveInRowOf DEF HandoffInv, OneLease
<1>. QED
  BY <1>1, <1>2 DEF LeaseOf

LEMMA LeaseIsRowAfter ==
    ASSUME HandoffInv', NEW op \in Operations, rows'[op] # NoRow
    PROVE  LeaseOf(op[1])' = RowLease(rows'[op], AckedIn(history', op[1]))
<1>1. op \in RowOf(op[1])' /\ op[1] \in Conversations
  BY DEF RowOf, Operations
<1>2. Active(op[1])' = op
  BY <1>1, ActiveInRowOf DEF HandoffInv, OneLease, Active
<1>. QED
  BY <1>1, <1>2 DEF LeaseOf

LeaseStep(old, new) == old = new \/ Abstract!Step(old, new)

LEMMA PointwiseRefines ==
    ASSUME HandoffInv, HandoffInv', UNCHANGED history,
           \A op \in Operations : rows[op] = NoRow <=> rows'[op] = NoRow,
           \A op \in Operations : rows[op] # NoRow =>
               LeaseStep(RowLease(rows[op], AckedIn(history, op[1])),
                         RowLease(rows'[op], AckedIn(history, op[1]))),
           NEW c \in Conversations
    PROVE  LeaseStep(LeaseOf(c), LeaseOf(c)')
<1>1. RowOf(c)' = RowOf(c)
  BY DEF RowOf
<1>2. CASE RowOf(c) = {}
  BY <1>1, <1>2 DEF LeaseOf, LeaseStep
<1>3. CASE RowOf(c) # {}
  <2>1. PICK op \in Operations : op[1] = c /\ rows[op] # NoRow
    BY <1>3 DEF RowOf
  <2>2. LeaseOf(c) = RowLease(rows[op], AckedIn(history, c))
    BY <2>1, LeaseIsRow
  <2>3. LeaseOf(c)' = RowLease(rows'[op], AckedIn(history, c))
    BY <2>1, LeaseIsRowAfter
  <2>. QED
    BY <2>1, <2>2, <2>3
<1>. QED
  BY <1>2, <1>3

LEMMA BeginDrainRefines ==
    ASSUME HandoffInv, HandoffInv', NEW g \in Generations, BeginDrain(g),
           NEW c \in Conversations
    PROVE  LeaseStep(LeaseOf(c), LeaseOf(c)')
<1>1. ASSUME NEW op \in Operations, rows[op] # NoRow, rows'[op] # rows[op], NEW kept
      PROVE  LeaseStep(RowLease(rows[op], kept), RowLease(rows'[op], kept))
  <2>1. /\ rows[op].status \in {"pending", "claimed"}
        /\ rows'[op] = [rows[op] EXCEPT !.status = "draining"]
    BY <1>1 DEF BeginDrain
  <2>2. rows[op] \in Row
    BY <1>1, InvRowOK DEF RowOK
  <2>3. /\ rows'[op].host = rows[op].host /\ rows'[op].predecessor = rows[op].predecessor
        /\ rows'[op].pending = rows[op].pending /\ rows'[op].replayed = rows[op].replayed
        /\ rows'[op].status = "draining"
    BY <2>1, <2>2 DEF Row
  <2>4. CASE rows[op].status = "pending"
    BY <2>3, <2>4 DEF LeaseStep, RowLease, PhaseOf, Replay
  <2>5. CASE rows[op].status = "claimed"
    BY <2>3, <2>5 DEF LeaseStep, RowLease, PhaseOf, Replay, Abstract!Step, Abstract!Drain
  <2>. QED
    BY <2>1, <2>4, <2>5
<1>2. \A op \in Operations : rows[op] = NoRow <=> rows'[op] = NoRow
  <2>1. \A op \in Operations : rows[op] # NoRow => rows'[op] # NoRow
    <3>1. ASSUME NEW op \in Operations, rows[op] # NoRow PROVE rows'[op] # NoRow
      <4>1. rows[op] \in Row
        BY <3>1, InvRowOK DEF RowOK
      <4>. QED
        BY <3>1, <4>1, RowIsNotNoRow DEF BeginDrain, Row, NoRow
    <3>. QED
      BY <3>1
  <2>. QED
    BY <2>1 DEF BeginDrain
<1>. QED
  BY <1>1, <1>2, PointwiseRefines DEF BeginDrain, LeaseStep

(* A transaction that rewrites the one row of one operation.               *)
LEMMA SingleRowRefines ==
    ASSUME HandoffInv, HandoffInv', UNCHANGED history,
           NEW op \in Operations, rows[op] # NoRow, rows'[op] # NoRow,
           \A o \in Operations : o # op => rows'[o] = rows[o],
           LeaseStep(RowLease(rows[op], AckedIn(history, op[1])),
                     RowLease(rows'[op], AckedIn(history, op[1]))),
           NEW c \in Conversations
    PROVE  LeaseStep(LeaseOf(c), LeaseOf(c)')
<1>1. \A o \in Operations : rows[o] = NoRow <=> rows'[o] = NoRow
  OBVIOUS
<1>2. \A o \in Operations : rows[o] # NoRow =>
         LeaseStep(RowLease(rows[o], AckedIn(history, o[1])),
                   RowLease(rows'[o], AckedIn(history, o[1])))
  BY DEF LeaseStep
<1>. QED
  BY <1>1, <1>2, PointwiseRefines

LEMMA AdmitMessageRefines ==
    ASSUME HandoffInv, HandoffInv', NEW op \in Operations, NEW d \in Deliveries,
           NEW seq \in 1..MaxSeq, AdmitMessage(op, d, seq), NEW c \in Conversations
    PROVE  LeaseStep(LeaseOf(c), LeaseOf(c)')
<1>. DEFINE ids == DOMAIN rows[op].pending \cup {d}
            p == [e \in ids |-> IF e = d THEN [seq |-> seq, nth |-> Cardinality(ids)]
                               ELSE rows[op].pending[e]]
            kept == AckedIn(history, op[1])
<1>1. /\ rows[op] # NoRow /\ UNCHANGED history
      /\ \A o \in Operations : o # op => rows'[o] = rows[o]
  BY DEF AdmitMessage
<1>2. rows[op] \in Row
  BY <1>1, InvRowOK DEF RowOK
<1>3. rows'[op] = [rows[op] EXCEPT !.pending = p]
  BY DEF AdmitMessage, HandoffInv, TypeOK
<1>4. DOMAIN p = DOMAIN rows[op].pending \cup {d}
  OBVIOUS
<1>. HIDE DEF p, kept
<1>5. /\ rows'[op].host = rows[op].host /\ rows'[op].predecessor = rows[op].predecessor
      /\ rows'[op].replayed = rows[op].replayed /\ rows'[op].status = rows[op].status
      /\ rows'[op].pending = p /\ rows'[op] # NoRow
  BY <1>2, <1>3 DEF Row, NoRow
<1>6. Replay(rows'[op]) = Replay(rows[op]) \cup ({d} \ rows[op].replayed)
  BY <1>4, <1>5 DEF Replay
<1>7. PhaseOf(rows[op].status) # "free"
  BY <1>2 DEF Row, Statuses, PhaseOf
<1>8. Abstract!Accept(RowLease(rows[op], kept), RowLease(rows'[op], kept))
  <2>1. RowLease(rows'[op], kept)
          = [RowLease(rows[op], kept) EXCEPT !.owed = Replay(rows[op]) \cup ({d} \ rows[op].replayed)]
    BY <1>5, <1>6 DEF RowLease
  <2>2. /\ RowLease(rows[op], kept).phase # "free"
        /\ RowLease(rows[op], kept).owed = Replay(rows[op])
        /\ RowLease(rows[op], kept).done = rows[op].replayed
    BY <1>7 DEF RowLease
  <2>. QED
    BY <2>1, <2>2 DEF Abstract!Accept
<1>. QED
  BY <1>1, <1>5, <1>8, SingleRowRefines DEF LeaseStep, Abstract!Step, kept

LEMMA RefreshTurnStateRefines ==
    ASSUME HandoffInv, HandoffInv', NEW op \in Operations, NEW g \in Generations,
           NEW turn \in Turns, RefreshTurnState(op, g, turn), NEW c \in Conversations
    PROVE  LeaseStep(LeaseOf(c), LeaseOf(c)')
<1>1. /\ rows[op] # NoRow /\ UNCHANGED history
      /\ \A o \in Operations : o # op => rows'[o] = rows[o]
  BY DEF RefreshTurnState
<1>2. rows[op] \in Row
  BY <1>1, InvRowOK DEF RowOK
<1>3. rows'[op] = [rows[op] EXCEPT !.turn = turn]
  BY DEF RefreshTurnState, HandoffInv, TypeOK
<1>4. /\ rows'[op].host = rows[op].host /\ rows'[op].predecessor = rows[op].predecessor
      /\ rows'[op].replayed = rows[op].replayed /\ rows'[op].status = rows[op].status
      /\ rows'[op].pending = rows[op].pending /\ rows'[op] # NoRow
  BY <1>2, <1>3 DEF Row, NoRow
<1>5. \A kept : RowLease(rows'[op], kept) = RowLease(rows[op], kept)
  BY <1>4 DEF RowLease, Replay
<1>. QED
  BY <1>1, <1>4, <1>5, SingleRowRefines DEF LeaseStep

LEMMA ClaimRefines ==
    ASSUME HandoffInv, HandoffInv', NEW op \in Operations, NEW from \in Generations,
           NEW to \in Generations, Claim(op, from, to), NEW c \in Conversations
    PROVE  LeaseStep(LeaseOf(c), LeaseOf(c)')
<1>. DEFINE kept == AckedIn(history, op[1])
<1>1. /\ rows[op] # NoRow /\ rows[op].host = from /\ UNCHANGED history
      /\ \A o \in Operations : o # op => rows'[o] = rows[o]
  BY DEF Claim
<1>2. rows[op] \in Row
  BY <1>1, InvRowOK DEF RowOK
<1>3. /\ rows'[op].host = to /\ rows'[op].predecessor = from
      /\ rows'[op].replayed = rows[op].replayed
      /\ rows'[op].status \in {"claimed", "terminal"}
      /\ rows'[op].pending = rows[op].pending /\ rows'[op] # NoRow
  BY <1>2 DEF Claim, HandoffInv, TypeOK, Row, NoRow
<1>4. PhaseOf(rows[op].status) # "free" /\ PhaseOf(rows'[op].status) = "held"
  BY <1>2, <1>3 DEF Row, Statuses, PhaseOf
<1>. HIDE DEF kept
<1>5. Abstract!Transfer(RowLease(rows[op], kept), RowLease(rows'[op], kept))
  <2>1. Replay(rows'[op]) = Replay(rows[op])
    BY <1>3 DEF Replay
  <2>2. RowLease(rows'[op], kept)
          = [phase |-> "held", owner |-> to, previous |-> from, owed |-> Replay(rows[op]),
             done |-> rows[op].replayed, kept |-> kept]
    BY <1>3, <1>4, <2>1 DEF RowLease
  <2>3. /\ RowLease(rows[op], kept).phase # "free"
        /\ RowLease(rows[op], kept).owner = from
        /\ RowLease(rows[op], kept).owed = Replay(rows[op])
        /\ RowLease(rows[op], kept).done = rows[op].replayed
        /\ RowLease(rows[op], kept).kept = kept
    BY <1>1, <1>4 DEF RowLease
  <2>. QED
    BY <2>2, <2>3 DEF Abstract!Transfer
<1>. QED
  BY <1>1, <1>3, <1>5, SingleRowRefines DEF LeaseStep, Abstract!Step, kept

LEMMA AcknowledgeReplayRefines ==
    ASSUME HandoffInv, HandoffInv', NEW op \in Operations, NEW g \in Generations,
           NEW ids \in SUBSET Deliveries, AcknowledgeReplay(op, g, ids),
           NEW c \in Conversations
    PROVE  LeaseStep(LeaseOf(c), LeaseOf(c)')
<1>. DEFINE kept == AckedIn(history, op[1])
            D == ids \ rows[op].replayed
<1>1. /\ rows[op] # NoRow /\ rows[op].status \in {"claimed", "terminal"}
      /\ rows[op].successor = g /\ ids \subseteq DOMAIN rows[op].pending
      /\ UNCHANGED history
      /\ \A o \in Operations : o # op => rows'[o] = rows[o]
  BY DEF AcknowledgeReplay
<1>2. rows[op] \in Row /\ rows[op].predecessor # None
  BY <1>1, InvRowOK DEF RowOK
<1>3. /\ rows'[op].host = rows[op].host /\ rows'[op].predecessor = rows[op].predecessor
      /\ rows'[op].replayed = rows[op].replayed \cup ids
      /\ rows'[op].status = rows[op].status
      /\ rows'[op].pending = rows[op].pending /\ rows'[op] # NoRow
  BY <1>2 DEF AcknowledgeReplay, HandoffInv, TypeOK, Row, NoRow
<1>4. PhaseOf(rows[op].status) = "held"
  BY <1>1 DEF PhaseOf
<1>5. /\ D \in SUBSET Replay(rows[op])
      /\ Replay(rows'[op]) = Replay(rows[op]) \ D
      /\ rows'[op].replayed = rows[op].replayed \cup D
  BY <1>1, <1>3 DEF Replay
<1>. HIDE DEF kept, D
<1>6. Abstract!Confirm(RowLease(rows[op], kept), RowLease(rows'[op], kept))
  <2>1. RowLease(rows'[op], kept)
          = [phase |-> "held", owner |-> rows[op].host, previous |-> rows[op].predecessor,
             owed |-> Replay(rows[op]) \ D, done |-> rows[op].replayed \cup D, kept |-> kept]
    BY <1>3, <1>4, <1>5 DEF RowLease
  <2>2. /\ RowLease(rows[op], kept).phase = "held"
        /\ RowLease(rows[op], kept).owner = rows[op].host
        /\ RowLease(rows[op], kept).previous = rows[op].predecessor
        /\ RowLease(rows[op], kept).kept = kept
        /\ RowLease(rows[op], kept).owed = Replay(rows[op])
        /\ RowLease(rows[op], kept).done = rows[op].replayed
    BY <1>2, <1>4 DEF RowLease
  <2>. QED
    BY <1>2, <1>5, <2>1, <2>2 DEF Abstract!Confirm
<1>. QED
  BY <1>1, <1>3, <1>6, SingleRowRefines DEF LeaseStep, Abstract!Step, kept

LEMMA MarkRetryableFailureRefines ==
    ASSUME HandoffInv, HandoffInv', NEW op \in Operations, MarkRetryableFailure(op),
           NEW c \in Conversations
    PROVE  LeaseStep(LeaseOf(c), LeaseOf(c)')
<1>. DEFINE kept == AckedIn(history, op[1])
<1>1. /\ rows[op] # NoRow /\ UNCHANGED history
      /\ \A o \in Operations : o # op => rows'[o] = rows[o]
  BY DEF MarkRetryableFailure
<1>2. rows[op] \in Row
  BY <1>1, InvRowOK DEF RowOK
<1>3. /\ rows'[op].host = rows[op].host /\ rows'[op].predecessor = rows[op].predecessor
      /\ rows'[op].replayed = rows[op].replayed /\ rows'[op].status = "failed"
      /\ rows'[op].pending = rows[op].pending /\ rows'[op] # NoRow
  BY <1>2 DEF MarkRetryableFailure, HandoffInv, TypeOK, Row, NoRow
<1>4. PhaseOf(rows[op].status) # "free" /\ PhaseOf(rows'[op].status) = "failed"
  BY <1>2, <1>3 DEF Row, Statuses, PhaseOf
<1>. HIDE DEF kept
<1>5. Abstract!GiveUp(RowLease(rows[op], kept), RowLease(rows'[op], kept))
  BY <1>3, <1>4 DEF RowLease, Replay, Abstract!GiveUp
<1>. QED
  BY <1>1, <1>3, <1>5, SingleRowRefines DEF LeaseStep, Abstract!Step, kept

LEMMA FailCandidateRefines ==
    ASSUME HandoffInv, HandoffInv', NEW g \in Generations, FailCandidate(g),
           NEW c \in Conversations
    PROVE  LeaseStep(LeaseOf(c), LeaseOf(c)')
<1>1. ASSUME NEW op \in Operations, rows[op] # NoRow, rows[op].successor = g
      PROVE  /\ rows'[op] # NoRow
             /\ Abstract!Rollback(RowLease(rows[op], AckedIn(history, op[1])),
                                  RowLease(rows'[op], AckedIn(history, op[1])))
  <2>. DEFINE kept == AckedIn(history, op[1])
  <2>1. rows'[op] = Released(op)
    BY <1>1 DEF FailCandidate
  <2>2. /\ rows[op] \in Row /\ rows[op].predecessor # None
        /\ kept \subseteq rows[op].replayed
        /\ rows[op].replayed \subseteq kept \cup DOMAIN rows[op].pending
    BY <1>1, InvRowOK DEF RowOK
  <2>3. /\ rows'[op].host = rows[op].predecessor /\ rows'[op].predecessor = None
        /\ rows'[op].replayed = kept /\ rows'[op].status \in {"draining", "pending"}
        /\ rows'[op].pending = rows[op].pending /\ rows'[op] # NoRow
    BY <2>1, <2>2 DEF Released, Row, NoRow
  <2>4. PhaseOf(rows'[op].status) = "offered"
    BY <2>3 DEF PhaseOf
  <2>. HIDE DEF kept
  <2>5. Replay(rows'[op]) = Replay(rows[op]) \cup (rows[op].replayed \ kept)
    BY <2>2, <2>3 DEF Replay
  <2>6. Abstract!Rollback(RowLease(rows[op], kept), RowLease(rows'[op], kept))
    <3>1. RowLease(rows'[op], kept)
            = [phase |-> "offered", owner |-> rows[op].predecessor, previous |-> None,
               owed |-> Replay(rows[op]) \cup (rows[op].replayed \ kept),
               done |-> kept, kept |-> kept]
      BY <2>3, <2>4, <2>5 DEF RowLease
    <3>2. /\ RowLease(rows[op], kept).previous = rows[op].predecessor
          /\ RowLease(rows[op], kept).owed = Replay(rows[op])
          /\ RowLease(rows[op], kept).done = rows[op].replayed
          /\ RowLease(rows[op], kept).kept = kept
      BY DEF RowLease
    <3>. QED
      BY <2>2, <3>1, <3>2 DEF Abstract!Rollback
  <2>. QED
    BY <2>3, <2>6 DEF kept
<1>2. ASSUME NEW op \in Operations, ~(rows[op] # NoRow /\ rows[op].successor = g)
      PROVE  rows'[op] = rows[op]
  BY <1>2 DEF FailCandidate
<1>3. UNCHANGED history
  BY DEF FailCandidate
<1>4. \A op \in Operations : rows[op] = NoRow <=> rows'[op] = NoRow
  BY <1>1, <1>2
<1>5. \A op \in Operations : rows[op] # NoRow =>
         LeaseStep(RowLease(rows[op], AckedIn(history, op[1])),
                   RowLease(rows'[op], AckedIn(history, op[1])))
  BY <1>1, <1>2 DEF LeaseStep, Abstract!Step
<1>. QED
  BY <1>3, <1>4, <1>5, PointwiseRefines

LEMMA EnqueueRefines ==
    ASSUME HandoffInv, HandoffInv', NEW C \in SUBSET Conversations,
           NEW inputs \in [C -> Snapshot], Enqueue(inputs), NEW c \in Conversations
    PROVE  LeaseStep(LeaseOf(c), LeaseOf(c)')
<1>1. CASE ~Accepted(inputs, c)
  <2>1. RowOf(c)' = RowOf(c) /\ AckedIn(history', c) = AckedIn(history, c)
    BY <1>1, EnqueueOthers
  <2>2. CASE RowOf(c) = {}
    BY <2>1, <2>2 DEF LeaseOf, LeaseStep
  <2>3. CASE RowOf(c) # {}
    <3>1. PICK op \in Operations : op[1] = c /\ rows[op] # NoRow
      BY <2>3 DEF RowOf
    <3>2. rows'[op] = rows[op]
      BY <1>1, <3>1, EnqueueOthers
    <3>3. LeaseOf(c) = RowLease(rows[op], AckedIn(history, c))
      BY <3>1, LeaseIsRow
    <3>4. LeaseOf(c)' = RowLease(rows[op], AckedIn(history, c))
      BY <2>1, <3>1, <3>2, LeaseIsRowAfter
    <3>. QED
      BY <3>3, <3>4 DEF LeaseStep
  <2>. QED
    BY <2>2, <2>3
<1>2. CASE Accepted(inputs, c)
  <2>. DEFINE snapshot == inputs[c]
              new == <<c, snapshot.host>>
              row == NewRow(c, snapshot)
  <2>1. /\ snapshot \in Snapshot /\ new \in Operations /\ rows'[new] = row
        /\ AckedIn(history', c) = row.replayed /\ RowOf(c)' = {new}
    BY <1>2, EnqueueRows
  <2>2. rows'[new] # NoRow
    BY <2>1 DEF RowOf
  <2>3. LeaseOf(c)' = RowLease(row, row.replayed)
    BY <2>1, <2>2, LeaseIsRowAfter
  <2>4. /\ row.status = "pending" /\ row.predecessor = None /\ row.host = snapshot.host
        /\ snapshot.host \in Generations /\ snapshot.held \in SUBSET Deliveries
    BY <2>1 DEF NewRow, Snapshot
  <2>5. LeaseOf(c)' = [phase |-> "offered", owner |-> snapshot.host, previous |-> None,
                       owed |-> Replay(row), done |-> row.replayed, kept |-> row.replayed]
    BY <2>3, <2>4 DEF RowLease, PhaseOf
  <2>6. /\ LeaseOf(c).phase # "offered"
        /\ row.replayed = LeaseOf(c).done
        /\ Replay(row) = LeaseOf(c).owed \cup (snapshot.held \ LeaseOf(c).done)
    <3>1. CASE RowOf(c) = {}
      <4>1. AckedIn(history, c) = {}
        <5>1. \A op \in Operations : op[1] = c => history[op] = NoRow
          BY <3>1 DEF HandoffInv, OneLease
        <5>. QED
          BY <5>1 DEF AckedIn
      <4>2. row.replayed = {} /\ row.pending = Ranked(snapshot.held)
        BY <3>1, <4>1 DEF NewRow
      <4>3. DOMAIN row.pending = snapshot.held
        BY <2>4, <4>2, RankedOrdered DEF ListsOf
      <4>4. LeaseOf(c).phase = "free" /\ LeaseOf(c).done = {} /\ LeaseOf(c).owed = {}
        BY <3>1 DEF LeaseOf
      <4>. QED
        BY <4>2, <4>3, <4>4 DEF Replay
    <3>2. CASE RowOf(c) # {}
      <4>. DEFINE op == Active(c)
                  a == rows[op]
      <4>1. op \in RowOf(c) /\ op \in Operations /\ op[1] = c /\ rows[op] # NoRow
        BY <3>2, ActiveInRowOf DEF RowOf
      <4>2. LeaseOf(c) = RowLease(a, AckedIn(history, c))
        BY <4>1, LeaseIsRow
      <4>3. /\ a \in Row /\ AckedIn(history, c) \subseteq a.replayed
        BY <4>1, InvRowOK DEF RowOK
      <4>4. a.status \notin {"pending", "draining"}
        BY <1>2, <4>1 DEF Accepted, Enqueues
      <4>5. PhaseOf(a.status) # "offered"
        BY <4>3, <4>4 DEF Row, Statuses, PhaseOf
      <4>6. /\ row.pending = ReplacementDeliveries(a, snapshot.held)
            /\ row.replayed = AckedIn(history, c) \cup a.replayed
        BY <3>2 DEF NewRow
      <4>. HIDE DEF row, a, op
      <4>7. DOMAIN row.pending = (snapshot.held \ a.replayed) \cup Replay(a)
        BY <2>4, <4>3, <4>6, ReplacementOrdered DEF ListsOf
      <4>8. row.replayed = a.replayed
        BY <4>3, <4>6
      <4>9. Replay(row) = Replay(a) \cup (snapshot.held \ a.replayed)
        BY <4>7, <4>8 DEF Replay
      <4>. QED
        BY <4>2, <4>5, <4>8, <4>9 DEF RowLease
    <3>. QED
      BY <3>1, <3>2
  <2>. HIDE DEF row
  <2>7. Abstract!Offer(LeaseOf(c), LeaseOf(c)')
    BY <2>4, <2>5, <2>6 DEF Abstract!Offer
  <2>. QED
    BY <2>7 DEF LeaseStep, Abstract!Step
<1>. QED
  BY <1>1, <1>2

LEMMA NextRefines ==
    ASSUME HandoffInv, HandoffInv', [Next]_vars, NEW c \in Conversations
    PROVE  LeaseStep(LeaseOf(c), LeaseOf(c)')
<1>1. ASSUME NEW C \in SUBSET Conversations, NEW inputs \in [C -> Snapshot], Enqueue(inputs)
      PROVE  LeaseStep(LeaseOf(c), LeaseOf(c)')
  BY <1>1, EnqueueRefines
<1>2. CASE UNCHANGED vars
  <2>1. UNCHANGED history /\ (\A op \in Operations : rows'[op] = rows[op])
    BY <1>2 DEF vars
  <2>. QED
    BY <2>1, PointwiseRefines DEF LeaseStep
<1>. QED
  BY <1>1, <1>2, BeginDrainRefines, AdmitMessageRefines, RefreshTurnStateRefines,
     ClaimRefines, AcknowledgeReplayRefines, FailCandidateRefines,
     MarkRetryableFailureRefines DEF Next

(* Whatever sequence of calls the queue serves, every conversation's row   *)
(* moves the way a lease may move: one owner, handed on only by claim, back*)
(* only to the predecessor, and no delivery lost.                          *)
THEOREM QueueImplementsLease == Spec => ImplementsLease
<1>. DEFINE leases == [c \in Conversations |-> LeaseOf(c)]
<1>1. Init => Abstract!Init
  <2>. SUFFICES ASSUME Init PROVE Abstract!Init
    OBVIOUS
  <2>1. \A c \in Conversations : RowOf(c) = {}
    BY DEF Init, RowOf
  <2>. QED
    BY <2>1 DEF LeaseOf, Abstract!Init, Abstract!Free
<1>2. HandoffInv /\ HandoffInv' /\ [Next]_vars => [Abstract!Next]_leases
  <2>. SUFFICES ASSUME HandoffInv, HandoffInv', [Next]_vars PROVE Abstract!Next
    OBVIOUS
  <2>1. \A c \in Conversations : leases[c] = LeaseOf(c) /\ leases'[c] = LeaseOf(c)'
    OBVIOUS
  <2>2. \A c \in Conversations : leases'[c] = leases[c] \/ Abstract!Step(leases[c], leases'[c])
    BY <2>1, NextRefines DEF LeaseStep
  <2>. QED
    BY <2>2 DEF Abstract!Next
<1>. QED
  BY <1>1, <1>2, HandoffInvariant, PTL DEF Spec, ImplementsLease, Abstract!Spec

-----------------------------------------------------------------------------
(* No delivery is lost, as a consequence of the refinement                 *)

LEMMA LeaseStepKeeps ==
    ASSUME NEW old \in Abstract!Lease, NEW new, LeaseStep(old, new)
    PROVE  old.owed \cup old.done \subseteq new.owed \cup new.done
<1>1. CASE old = new
  BY <1>1
<1>2. CASE Abstract!Offer(old, new)
  BY <1>2 DEF Abstract!Offer
<1>3. CASE Abstract!Drain(old, new)
  BY <1>3 DEF Abstract!Drain, Abstract!Lease
<1>4. CASE Abstract!Accept(old, new)
  BY <1>4 DEF Abstract!Accept, Abstract!Lease
<1>5. CASE Abstract!Transfer(old, new)
  BY <1>5 DEF Abstract!Transfer
<1>6. CASE Abstract!Confirm(old, new)
  BY <1>6 DEF Abstract!Confirm
<1>7. CASE Abstract!Rollback(old, new)
  BY <1>7 DEF Abstract!Rollback
<1>8. CASE Abstract!GiveUp(old, new)
  BY <1>8 DEF Abstract!GiveUp, Abstract!Lease
<1>. QED
  BY <1>1, <1>2, <1>3, <1>4, <1>5, <1>6, <1>7, <1>8 DEF LeaseStep, Abstract!Step

LEMMA LeaseType ==
    ASSUME HandoffInv, NEW c \in Conversations
    PROVE  LeaseOf(c) \in Abstract!Lease
<1>1. CASE RowOf(c) = {}
  BY <1>1 DEF LeaseOf, Abstract!Lease, Abstract!Phases
<1>2. CASE RowOf(c) # {}
  <2>1. PICK op \in Operations : op[1] = c /\ rows[op] # NoRow
    BY <1>2 DEF RowOf
  <2>2. LeaseOf(c) = RowLease(rows[op], AckedIn(history, c))
    BY <2>1, LeaseIsRow
  <2>3. /\ rows[op] \in Row /\ rows[op].pending \in DeliveryLists
        /\ AckedIn(history, c) \subseteq rows[op].replayed
    BY <2>1, InvRowOK DEF RowOK, Row
  <2>4. DOMAIN rows[op].pending \subseteq Deliveries
    BY <2>3, PendingType
  <2>5. Replay(rows[op]) \in SUBSET Deliveries
    BY <2>4 DEF Replay
  <2>6. /\ rows[op].replayed \in SUBSET Deliveries
        /\ AckedIn(history, c) \in SUBSET Deliveries
    BY <2>3 DEF Row
  <2>7. PhaseOf(rows[op].status) \in Abstract!Phases
    BY <2>3 DEF Row, Statuses, PhaseOf, Abstract!Phases
  <2>8. rows[op].host \in Generations /\ rows[op].predecessor \in Generations \cup {None}
    BY <2>3 DEF Row
  <2>. QED
    BY <2>2, <2>5, <2>6, <2>7, <2>8 DEF RowLease, Abstract!Lease
<1>. QED
  BY <1>1, <1>2

LEMMA OwedOrAcked ==
    ASSUME HandoffInv, NEW c \in Conversations
    PROVE  Owed(c) \cup Acked(c) = LeaseOf(c).owed \cup LeaseOf(c).done
<1>1. CASE RowOf(c) = {}
  <2>1. \A op \in Operations : op[1] = c => history[op] = NoRow
    BY <1>1 DEF HandoffInv, OneLease
  <2>2. AckedIn(history, c) = {}
    BY <2>1 DEF AckedIn
  <2>. QED
    BY <1>1, <2>2 DEF Owed, Acked, LeaseOf
<1>2. CASE RowOf(c) # {}
  <2>1. PICK op \in Operations : op[1] = c /\ rows[op] # NoRow
    BY <1>2 DEF RowOf
  <2>2. RowOf(c) = {op}
    <3>1. op \in RowOf(c)
      BY <2>1 DEF RowOf
    <3>. QED
      BY <3>1 DEF HandoffInv, OneLease
  <2>3. LeaseOf(c) = RowLease(rows[op], AckedIn(history, c))
    BY <2>1, LeaseIsRow
  <2>4. AckedIn(history, c) \subseteq rows[op].replayed
    BY <2>1 DEF HandoffInv, AcksInherited
  <2>5. Owed(c) = Replay(rows[op])
    BY <2>2 DEF Owed
  <2>6. Acked(c) = AckedIn(history, c) \cup rows[op].replayed
    BY <2>2 DEF Acked
  <2>. QED
    BY <2>3, <2>4, <2>5, <2>6 DEF RowLease
<1>. QED
  BY <1>1, <1>2

(* Whatever the queue owes a conversation, or knows to be acknowledged,    *)
(* it still owes or knows after any call: supersession, transfer, rollback *)
(* and retryable failure lose no delivery.                                 *)
THEOREM NoDeliveryLost == Spec => DeliveriesKept
<1>. DEFINE Kept == \A c \in Conversations :
                       Owed(c) \cup Acked(c) \subseteq (Owed(c) \cup Acked(c))'
<1>. DEFINE IsLease == \A c \in Conversations :
                          Owed(c) \cup Acked(c) = LeaseOf(c).owed \cup LeaseOf(c).done
<1>1. HandoffInv => IsLease
  BY OwedOrAcked
<1>2. HandoffInv' => IsLease'
  BY <1>1, PTL
<1>3. HandoffInv /\ HandoffInv' /\ [Next]_vars => Kept
  <2>. SUFFICES ASSUME HandoffInv, HandoffInv', [Next]_vars, NEW c \in Conversations
                PROVE  Owed(c) \cup Acked(c) \subseteq (Owed(c) \cup Acked(c))'
    OBVIOUS
  <2>1. LeaseOf(c).owed \cup LeaseOf(c).done \subseteq LeaseOf(c)'.owed \cup LeaseOf(c)'.done
    BY NextRefines, LeaseType, LeaseStepKeeps
  <2>2. (Owed(c) \cup Acked(c))' = LeaseOf(c)'.owed \cup LeaseOf(c)'.done
    BY <1>2
  <2>. QED
    BY <2>1, <2>2, OwedOrAcked
<1>. QED
  BY <1>3, HandoffInvariant, PTL DEF Spec, DeliveriesKept

-----------------------------------------------------------------------------
(* The replay order                                                        *)

LEMMA RowKeepsOrder ==
    ASSUME HandoffInv, [Next]_vars, NEW op \in Operations, rows[op] # NoRow, rows'[op] # NoRow
    PROVE  OrderKept(op)
<1>. DEFINE Same == rows'[op].pending = rows[op].pending
<1>0. rows[op] \in Row
  BY DEF HandoffInv, TypeOK
<1>1. ASSUME Same PROVE OrderKept(op)
  BY <1>1 DEF OrderKept, Earlier
<1>2. ASSUME NEW C \in SUBSET Conversations, NEW inputs \in [C -> Snapshot], Enqueue(inputs)
      PROVE  Same
  <2>1. op[1] \in Conversations
    BY DEF Operations
  <2>2. CASE Accepted(inputs, op[1])
    <3>. DEFINE new == <<op[1], inputs[op[1]].host>>
    <3>1. RowOf(op[1])' = {new} /\ rows[new] = NoRow
      BY <1>2, <2>1, <2>2, EnqueueRows
    <3>2. op \in RowOf(op[1])'
      BY DEF RowOf
    <3>. QED
      BY <3>1, <3>2
  <2>3. CASE ~Accepted(inputs, op[1])
    BY <1>2, <2>1, <2>3, EnqueueOthers
  <2>. QED
    BY <2>2, <2>3
<1>3. ASSUME NEW g \in Generations, BeginDrain(g) PROVE Same
  BY <1>0, <1>3 DEF BeginDrain, Row
<1>4. ASSUME NEW o \in Operations, NEW d \in Deliveries, NEW seq \in 1..MaxSeq,
             AdmitMessage(o, d, seq)
      PROVE  OrderKept(op)
  <2>1. CASE o # op
    BY <1>1, <1>4, <2>1 DEF AdmitMessage
  <2>2. CASE o = op
    <3>1. \A e \in DOMAIN rows[op].pending : rows'[op].pending[e] = rows[op].pending[e]
      BY <1>0, <1>4, <2>2 DEF AdmitMessage, HandoffInv, TypeOK, Row
    <3>. QED
      BY <3>1 DEF OrderKept, Earlier
  <2>. QED
    BY <2>1, <2>2
<1>5. ASSUME NEW o \in Operations, NEW g \in Generations, NEW turn \in Turns,
             RefreshTurnState(o, g, turn)
      PROVE  Same
  BY <1>0, <1>5 DEF RefreshTurnState, HandoffInv, TypeOK, Row
<1>6. ASSUME NEW o \in Operations, NEW from \in Generations, NEW to \in Generations,
             Claim(o, from, to)
      PROVE  Same
  BY <1>0, <1>6 DEF Claim, HandoffInv, TypeOK, Row
<1>7. ASSUME NEW o \in Operations, NEW g \in Generations, NEW ids \in SUBSET Deliveries,
             AcknowledgeReplay(o, g, ids)
      PROVE  Same
  BY <1>0, <1>7 DEF AcknowledgeReplay, HandoffInv, TypeOK, Row
<1>8. ASSUME NEW g \in Generations, FailCandidate(g) PROVE Same
  BY <1>0, <1>8 DEF FailCandidate, Released, Row
<1>9. ASSUME NEW o \in Operations, MarkRetryableFailure(o) PROVE Same
  BY <1>0, <1>9 DEF MarkRetryableFailure, HandoffInv, TypeOK, Row
<1>10. CASE UNCHANGED vars
  BY <1>1, <1>10 DEF vars
<1>. HIDE DEF Same
<1>. QED
  BY <1>1, <1>2, <1>3, <1>4, <1>5, <1>6, <1>7, <1>8, <1>9, <1>10 DEF Next

LEMMA SupersessionKeepsOrder ==
    ASSUME HandoffInv, NEW op \in Operations, rows[op] # NoRow, rows'[op] = NoRow,
           NEW C \in SUBSET Conversations, NEW inputs \in [C -> Snapshot],
           op[1] \in C, Enqueue(inputs)
    PROVE  CarriedFirst(rows[op], rows'[<<op[1], inputs[op[1]].host>>], inputs[op[1]].held)
<1>. DEFINE c == op[1]
            new == <<c, inputs[c].host>>
            old == rows[op]
            held == inputs[c].held
            fresh == held \ old.replayed
            carried == Replay(old) \ fresh
            f == ReplacementDeliveries(old, held)
<1>1. c \in Conversations
  BY DEF Operations
<1>2. Accepted(inputs, c)
  BY <1>1, EnqueueOthers
<1>3. inputs[c] \in Snapshot /\ rows'[new] = NewRow(c, inputs[c])
  BY <1>1, <1>2, EnqueueRows
<1>4. op \in RowOf(c) /\ Active(c) = op
  <2>1. op \in RowOf(c)
    BY DEF RowOf
  <2>. QED
    BY <1>1, <2>1, ActiveInRowOf DEF HandoffInv, OneLease
<1>5. rows'[new].pending = f
  BY <1>3, <1>4 DEF NewRow
<1>6. old \in Row /\ held \in SUBSET Deliveries
  BY <1>3 DEF HandoffInv, TypeOK, Snapshot
<1>7. /\ f \in ListsOf(fresh \cup Replay(old))
      /\ \A d \in carried, e \in fresh : Earlier(f, d, e)
      /\ \A d, e \in carried : Earlier(old.pending, d, e) => Earlier(f, d, e)
  BY <1>6, ReplacementOrdered
<1>8. Replay(rows'[new]) \subseteq fresh \cup Replay(old)
  BY <1>5, <1>7 DEF Replay, ListsOf
<1>. HIDE DEF f, new, old, held
<1>9. ASSUME NEW d \in Replay(old) \ held, NEW e \in Replay(rows'[new]),
             e \notin Replay(old) \/ Earlier(old.pending, d, e)
      PROVE  Earlier(f, d, e)
  <2>1. d \in carried
    OBVIOUS
  <2>2. CASE e \in fresh
    BY <1>7, <2>1, <2>2
  <2>3. CASE e \notin fresh
    <3>1. e \in carried /\ Earlier(old.pending, d, e)
      BY <1>8, <1>9, <2>3
    <3>. QED
      BY <1>7, <2>1, <3>1
  <2>. QED
    BY <2>2, <2>3
<1>. QED
  BY <1>5, <1>9 DEF CarriedFirst, new, old, held

(* Whatever seqs the senders of messages choose, also used or outdated     *)
(* ones, no call moves a delivery behind another it was to be replayed     *)
(* before, except a superseding snapshot that lists it again.              *)
THEOREM OrderStands == Spec => CarriedStayFirst
<1>. DEFINE Kept(op) ==
         rows[op] # NoRow =>
            IF rows'[op] # NoRow THEN OrderKept(op)
            ELSE \A C \in SUBSET Conversations : \A inputs \in [C -> Snapshot] :
                    op[1] \in C /\ Enqueue(inputs) =>
                        CarriedFirst(rows[op], rows'[<<op[1], inputs[op[1]].host>>],
                                     inputs[op[1]].held)
<1>1. HandoffInv /\ [Next]_vars => \A op \in Operations : Kept(op)
  <2>. SUFFICES ASSUME HandoffInv, [Next]_vars, NEW op \in Operations PROVE Kept(op)
    OBVIOUS
  <2>1. CASE rows'[op] # NoRow
    BY <2>1, RowKeepsOrder
  <2>2. CASE rows'[op] = NoRow
    BY <2>2, SupersessionKeepsOrder
  <2>. QED
    BY <2>1, <2>2
<1>. QED
  BY <1>1, HandoffInvariant, PTL DEF Spec, CarriedStayFirst

(***************************************************************************)
(* The parts of the invariant, each on its own.                            *)
(***************************************************************************)

(* Rows, history and draining keep their types through every method.       *)
THEOREM TypesKept == Spec => []TypeOK
BY HandoffInvariant, PTL DEF HandoffInv

(* Whatever promotions, rollbacks and repeated snapshots come, one row     *)
(* holds a conversation, and its completed rows are gone without it.       *)
THEOREM OneRowPerConversation == Spec => []OneLease
BY HandoffInvariant, PTL DEF HandoffInv

(* Owner, predecessor, successor and outcome of a row tell one story after *)
(* a claim, a takeover and a rollback in any order.                        *)
THEOREM RowsTellOneStory == Spec => []LeaseCoherent
BY HandoffInvariant, PTL DEF HandoffInv

(* What a superseded generation confirmed, its successor never replays.    *)
THEOREM ConfirmationsInherited == Spec => []AcksInherited
BY HandoffInvariant, PTL DEF HandoffInv

=============================================================================
