------------------------- MODULE CpuAdmissionProofs -------------------------
(***************************************************************************)
(* Theorems about CpuAdmission, for all stages, commands, gates, bindings, *)
(* releases and bounds: what the file holds, that a process which polls    *)
(* keeps its place, that an admission overtakes nobody, and that somebody  *)
(* is always first.                                                        *)
(***************************************************************************)
EXTENDS CpuAdmission, FiniteSetTheorems, WellFoundedInduction, TLAPS

USE CpuAssumption DEF CpuAssumption

-----------------------------------------------------------------------------
(* The file                                                                *)

(* The tickets stand in one line.                                          *)
Line(d) ==
    /\ \A j, k \in d.tickets : j # k => (j \in d.earlier[k] <=> k \notin d.earlier[j])
    /\ \A k \in Keys : d.earlier[k] \subseteq d.tickets \ {k}
    /\ \A j, k \in Keys : j \in d.earlier[k] => d.earlier[j] \subseteq d.earlier[k]

(* Marks are on tickets, and only those of stages are held or launched; a  *)
(* key without a ticket has left nothing behind.                           *)
Marks(d) ==
    /\ d.unpolled \subseteq d.suspended
    /\ d.suspended \cup d.admitted \subseteq d.tickets
    /\ (d.suspended \ d.unpolled) \cup d.admitted \subseteq Stages
    /\ \A k \in Keys : k \notin d.tickets => d.age[k] = 0
    /\ \A k \in Keys \ Bound : d.rank[k] = 1

FileOK(d) == d \in File /\ IsFiniteSet(d.tickets) /\ Line(d) /\ Marks(d)

LEMMA FileFields ==
    ASSUME NEW d \in File
    PROVE  /\ d.tickets \subseteq Keys /\ d.suspended \subseteq Keys
           /\ d.unpolled \subseteq Keys /\ d.admitted \subseteq Keys
           /\ d.earlier \in [Keys -> SUBSET Keys]
           /\ d.age \in [Keys -> 0..Horizon] /\ d.quiet \in [Keys -> 0..Horizon \cup {None}]
           /\ d.rank \in [Keys -> 0..2] /\ d.last \in 0..Horizon
BY DEF File

(* One column of the file is written.                                      *)
LEMMA Written ==
    ASSUME NEW d \in File
    PROVE  /\ \A S \in SUBSET Keys : /\ [d EXCEPT !.tickets = S] \in File
                                     /\ [d EXCEPT !.suspended = S] \in File
                                     /\ [d EXCEPT !.unpolled = S] \in File
                                     /\ [d EXCEPT !.admitted = S] \in File
           /\ \A f \in [Keys -> SUBSET Keys] : [d EXCEPT !.earlier = f] \in File
           /\ \A f \in [Keys -> 0..Horizon] : [d EXCEPT !.age = f] \in File
           /\ \A f \in [Keys -> 0..Horizon \cup {None}] : [d EXCEPT !.quiet = f] \in File
           /\ \A f \in [Keys -> 0..2] : [d EXCEPT !.rank = f] \in File
           /\ \A t \in 0..Horizon : [d EXCEPT !.last = t] \in File
<1>1. ASSUME NEW S \in SUBSET Keys
      PROVE  /\ [d EXCEPT !.tickets = S] \in File
             /\ [d EXCEPT !.suspended = S] \in File
             /\ [d EXCEPT !.unpolled = S] \in File
             /\ [d EXCEPT !.admitted = S] \in File
  BY DEF File
<1>2. ASSUME NEW f \in [Keys -> SUBSET Keys] PROVE [d EXCEPT !.earlier = f] \in File
  BY DEF File
<1>3. ASSUME NEW f \in [Keys -> 0..Horizon] PROVE [d EXCEPT !.age = f] \in File
  BY DEF File
<1>4. ASSUME NEW f \in [Keys -> 0..Horizon \cup {None}] PROVE [d EXCEPT !.quiet = f] \in File
  BY DEF File
<1>5. ASSUME NEW f \in [Keys -> 0..2] PROVE [d EXCEPT !.rank = f] \in File
  BY DEF File
<1>6. ASSUME NEW t \in 0..Horizon PROVE [d EXCEPT !.last = t] \in File
  BY DEF File
<1> QED
  BY <1>1, <1>2, <1>3, <1>4, <1>5, <1>6

LEMMA PutTyped ==
    ASSUME NEW S
    PROVE  /\ \A f \in [Keys -> 0..Horizon] : Put(f, S, 0) \in [Keys -> 0..Horizon]
           /\ \A f \in [Keys -> 0..Horizon \cup {None}] :
                /\ Put(f, S, 0) \in [Keys -> 0..Horizon \cup {None}]
                /\ Put(f, S, None) \in [Keys -> 0..Horizon \cup {None}]
           /\ \A f \in [Keys -> 0..2] : Put(f, S, 1) \in [Keys -> 0..2]
BY DEF Put

LEMMA CancelledFields ==
    ASSUME NEW d \in File, NEW S
    PROVE  LET e == Cancelled(d, S) IN
           /\ e \in File
           /\ e.tickets = d.tickets \ S /\ e.suspended = d.suspended \ S
           /\ e.unpolled = d.unpolled \ S /\ e.admitted = d.admitted \ S
           /\ e.last = d.last
           /\ \A k \in Keys \cap S : e.earlier[k] = {} /\ e.age[k] = 0
                                     /\ e.quiet[k] = None /\ e.rank[k] = 1
           /\ \A k \in Keys \ S : e.earlier[k] = d.earlier[k] \ S /\ e.age[k] = d.age[k]
                                  /\ e.quiet[k] = d.quiet[k] /\ e.rank[k] = d.rank[k]
<1> DEFINE e == Cancelled(d, S)
           line == [k \in Keys |-> IF k \in S THEN {} ELSE d.earlier[k] \ S]
           e1 == [d EXCEPT !.tickets = d.tickets \ S]
           e2 == [e1 EXCEPT !.earlier = line]
           e3 == [e2 EXCEPT !.age = Put(d.age, S, 0)]
           e4 == [e3 EXCEPT !.quiet = Put(d.quiet, S, None)]
           e5 == [e4 EXCEPT !.rank = Put(d.rank, S, 1)]
           e6 == [e5 EXCEPT !.suspended = d.suspended \ S]
           e7 == [e6 EXCEPT !.unpolled = d.unpolled \ S]
           e8 == [e7 EXCEPT !.admitted = d.admitted \ S]
<1>1. /\ e.tickets = d.tickets \ S /\ e.suspended = d.suspended \ S
      /\ e.unpolled = d.unpolled \ S /\ e.admitted = d.admitted \ S
      /\ e.last = d.last /\ e.earlier = line
      /\ e.age = Put(d.age, S, 0) /\ e.quiet = Put(d.quiet, S, None) /\ e.rank = Put(d.rank, S, 1)
  BY DEF Cancelled, File
<1>2. e = e8
  BY DEF Cancelled
<1>3. line \in [Keys -> SUBSET Keys]
  BY FileFields
<1> HIDE DEF line
<1>4. e2 \in File
  <2>1. e1 \in File
    BY FileFields, Written
  <2> HIDE DEF e1
  <2> QED
    BY <1>3, <2>1, Written
<1>5. e4 \in File
  <2> HIDE DEF e2
  <2>1. e3 \in File
    BY <1>4, FileFields, PutTyped, Written
  <2> HIDE DEF e3
  <2> QED
    BY <2>1, FileFields, PutTyped, Written
<1>6. e6 \in File
  <2> HIDE DEF e4
  <2>1. e5 \in File
    BY <1>5, FileFields, PutTyped, Written
  <2> HIDE DEF e5
  <2> QED
    BY <2>1, FileFields, Written
<1>7. e8 \in File
  <2> HIDE DEF e6
  <2>1. e7 \in File
    BY <1>6, FileFields, Written
  <2> HIDE DEF e7
  <2> QED
    BY <2>1, FileFields, Written
<1> HIDE DEF e8
<1>8. e \in File
  BY <1>2, <1>7
<1> HIDE DEF e
<1>9. \A k \in Keys \cap S : e.earlier[k] = {} /\ e.age[k] = 0 /\ e.quiet[k] = None /\ e.rank[k] = 1
  BY <1>1 DEF Put, line
<1>10. \A k \in Keys \ S : e.earlier[k] = d.earlier[k] \ S /\ e.age[k] = d.age[k]
                                  /\ e.quiet[k] = d.quiet[k] /\ e.rank[k] = d.rank[k]
  BY <1>1 DEF Put, line
<1> QED
  BY <1>1, <1>8, <1>9, <1>10 DEF e

LEMMA QueuedFields ==
    ASSUME NEW d \in File, NEW k \in Keys
    PROVE  LET e == Queued(d, k) IN
           /\ e \in File
           /\ e.tickets = d.tickets \cup {k} /\ e.suspended = d.suspended
           /\ e.unpolled = d.unpolled \ {k} /\ e.admitted = d.admitted
           /\ e.last = d.last /\ e.age = d.age /\ e.rank = d.rank
           /\ e.earlier[k] = (IF k \in d.tickets THEN d.earlier[k] ELSE d.tickets)
           /\ e.quiet[k] = (IF k \in d.tickets \cup Stages THEN 0 ELSE None)
           /\ \A j \in Keys \ {k} : e.earlier[j] = d.earlier[j] /\ e.quiet[j] = d.quiet[j]
<1> DEFINE e == Queued(d, k)
           e1 == [d EXCEPT !.unpolled = d.unpolled \ {k}]
<1>1. e1 \in File
  BY FileFields, Written
<1>2. /\ e1.tickets = d.tickets /\ e1.suspended = d.suspended
      /\ e1.unpolled = d.unpolled \ {k} /\ e1.admitted = d.admitted
      /\ e1.last = d.last /\ e1.age = d.age /\ e1.rank = d.rank
      /\ e1.earlier = d.earlier /\ e1.quiet = d.quiet
  BY DEF File
<1>3. CASE k \in d.tickets
  <2> DEFINE q == [e1.quiet EXCEPT ![k] = 0]
  <2>1. e = [e1 EXCEPT !.quiet = q]
    BY <1>3 DEF Queued
  <2> HIDE DEF e1
  <2>2. q \in [Keys -> 0..Horizon \cup {None}]
    BY <1>1, FileFields
  <2>3. e \in File
    <3> HIDE DEF q
    <3> QED
      BY <1>1, <2>1, <2>2, Written
  <2>4. /\ e.tickets = e1.tickets /\ e.suspended = e1.suspended
        /\ e.unpolled = e1.unpolled /\ e.admitted = e1.admitted
        /\ e.last = e1.last /\ e.age = e1.age /\ e.rank = e1.rank
        /\ e.earlier = e1.earlier /\ e.quiet = q
    BY <1>1, <2>1 DEF File
  <2> HIDE DEF e
  <2>5. /\ e.quiet[k] = 0
        /\ \A j \in Keys \ {k} : e.quiet[j] = d.quiet[j]
    BY <1>2, <2>4, FileFields
  <2> QED
    BY <1>2, <1>3, <2>3, <2>4, <2>5, FileFields DEF e
<1>4. CASE k \notin d.tickets
  <2> DEFINE q == IF k \in Stages THEN 0 ELSE None
             e2 == [e1 EXCEPT !.tickets = d.tickets \cup {k}]
             e3 == [e2 EXCEPT !.earlier = [d.earlier EXCEPT ![k] = d.tickets]]
             e4 == [e3 EXCEPT !.quiet = [d.quiet EXCEPT ![k] = q]]
  <2>1. e = e4
    BY <1>4 DEF Queued
  <2>2. /\ e4.tickets = d.tickets \cup {k} /\ e4.suspended = d.suspended
        /\ e4.unpolled = d.unpolled \ {k} /\ e4.admitted = d.admitted
        /\ e4.last = d.last /\ e4.age = d.age /\ e4.rank = d.rank
        /\ e4.earlier = [d.earlier EXCEPT ![k] = d.tickets]
        /\ e4.quiet = [d.quiet EXCEPT ![k] = q]
    BY DEF File
  <2>3. /\ [d.earlier EXCEPT ![k] = d.tickets] \in [Keys -> SUBSET Keys]
        /\ [d.quiet EXCEPT ![k] = q] \in [Keys -> 0..Horizon \cup {None}]
    BY FileFields
  <2>4. e2 \in File
    <3> HIDE DEF e1
    <3> QED
      BY <1>1, FileFields, Written
  <2>5. e4 \in File
    <3> HIDE DEF e2, q
    <3>1. e3 \in File
      BY <2>3, <2>4, Written
    <3> HIDE DEF e3
    <3> QED
      BY <2>3, <3>1, Written
  <2> HIDE DEF e4
  <2> HIDE DEF e
  <2>6. /\ e.earlier[k] = d.tickets /\ e.quiet[k] = q
        /\ \A j \in Keys \ {k} : e.earlier[j] = d.earlier[j] /\ e.quiet[j] = d.quiet[j]
    BY <2>1, <2>2, FileFields
  <2> QED
    BY <1>4, <2>1, <2>2, <2>5, <2>6 DEF e
<1> QED
  BY <1>3, <1>4

LEMMA HeldFields ==
    ASSUME NEW d \in File, NEW S
    PROVE  LET e == Held(d, S)
               held == S \cap d.tickets \cap Stages
           IN  /\ e \in File
               /\ e.tickets = d.tickets /\ e.suspended = d.suspended \cup held
               /\ e.unpolled = d.unpolled \ held /\ e.admitted = d.admitted
               /\ e.last = d.last /\ e.age = d.age /\ e.rank = d.rank
               /\ e.earlier = d.earlier /\ e.quiet = d.quiet
<1> DEFINE held == S \cap d.tickets \cap Stages
           e1 == [d EXCEPT !.suspended = d.suspended \cup held]
           e2 == [e1 EXCEPT !.unpolled = d.unpolled \ held]
<1>1. Held(d, S) = e2
  BY DEF Held
<1>2. e1 \in File
  BY FileFields, Written
<1>3. e2 \in File
  <2> HIDE DEF e1
  <2> QED
    BY <1>2, FileFields, Written
<1>4. /\ e2.tickets = d.tickets /\ e2.suspended = d.suspended \cup held
      /\ e2.unpolled = d.unpolled \ held /\ e2.admitted = d.admitted
      /\ e2.last = d.last /\ e2.age = d.age /\ e2.rank = d.rank
      /\ e2.earlier = d.earlier /\ e2.quiet = d.quiet
  BY DEF File
<1> HIDE DEF e2
<1> QED
  BY <1>1, <1>3, <1>4

LEMMA ReleasedFields ==
    ASSUME NEW d \in File, NEW S
    PROVE  LET e == Released(d, S)
               freed == (S \cap d.suspended) \ d.unpolled
           IN  /\ e \in File
               /\ e.tickets = d.tickets /\ e.suspended = d.suspended \ freed
               /\ e.unpolled = d.unpolled /\ e.admitted = d.admitted
               /\ e.last = d.last /\ e.age = d.age /\ e.rank = d.rank
               /\ e.earlier = d.earlier
               /\ \A k \in freed \cap Stages : e.quiet[k] = None
               /\ \A k \in Keys \ (freed \cap Stages) : e.quiet[k] = d.quiet[k]
<1> DEFINE freed == (S \cap d.suspended) \ d.unpolled
           e1 == [d EXCEPT !.suspended = d.suspended \ freed]
           q == Put(d.quiet, freed \cap Stages, None)
           e2 == [e1 EXCEPT !.quiet = q]
<1>1. Released(d, S) = e2
  BY DEF Released
<1>2. e1 \in File
  BY FileFields, Written
<1>3. e2 \in File
  <2>1. q \in [Keys -> 0..Horizon \cup {None}]
    BY FileFields, PutTyped
  <2> HIDE DEF e1, q
  <2> QED
    BY <1>2, <2>1, Written
<1>4. /\ e2.tickets = d.tickets /\ e2.suspended = d.suspended \ freed
      /\ e2.unpolled = d.unpolled /\ e2.admitted = d.admitted
      /\ e2.last = d.last /\ e2.age = d.age /\ e2.rank = d.rank
      /\ e2.earlier = d.earlier /\ e2.quiet = q
  BY DEF File
<1>5. /\ \A k \in freed \cap Stages : q[k] = None
      /\ \A k \in Keys \ (freed \cap Stages) : q[k] = d.quiet[k]
  BY FileFields DEF Put, Keys
<1> HIDE DEF e2, q
<1> QED
  BY <1>1, <1>3, <1>4, <1>5

LEMMA TouchedFields ==
    ASSUME NEW d \in File, NEW S
    PROVE  LET e == Touched(d, S) IN
           /\ e \in File
           /\ e.tickets = d.tickets /\ e.suspended = d.suspended
           /\ e.unpolled = d.unpolled /\ e.admitted = d.admitted
           /\ e.last = d.last /\ e.age = d.age /\ e.rank = d.rank
           /\ e.earlier = d.earlier
           /\ \A k \in S \cap d.tickets : e.quiet[k] = 0
           /\ \A k \in Keys \ (S \cap d.tickets) : e.quiet[k] = d.quiet[k]
<1> DEFINE q == Put(d.quiet, S \cap d.tickets, 0)
           e1 == [d EXCEPT !.quiet = q]
<1>1. Touched(d, S) = e1
  BY DEF Touched
<1>2. e1 \in File
  BY FileFields, PutTyped, Written
<1>3. /\ e1.tickets = d.tickets /\ e1.suspended = d.suspended
      /\ e1.unpolled = d.unpolled /\ e1.admitted = d.admitted
      /\ e1.last = d.last /\ e1.age = d.age /\ e1.rank = d.rank
      /\ e1.earlier = d.earlier /\ e1.quiet = q
  BY DEF File
<1>4. /\ \A k \in S \cap d.tickets : q[k] = 0
      /\ \A k \in Keys \ (S \cap d.tickets) : q[k] = d.quiet[k]
  BY FileFields DEF Put
<1> HIDE DEF e1, q
<1> QED
  BY <1>1, <1>2, <1>3, <1>4

LEMMA NoticedFields ==
    ASSUME NEW d \in File
    PROVE  LET e == Noticed(d) IN
           /\ e \in File
           /\ e.tickets = d.tickets /\ e.suspended = d.suspended
           /\ e.unpolled = d.unpolled /\ e.admitted = d.admitted
           /\ e.last = d.last /\ e.age = d.age /\ e.rank = d.rank
           /\ e.earlier = d.earlier
           /\ \A k \in Keys : e.quiet[k] =
                 IF k \in d.tickets \cap Stages /\ d.quiet[k] = None THEN 0 ELSE d.quiet[k]
<1> DEFINE q == [k \in Keys |->
                   IF k \in d.tickets \cap Stages /\ d.quiet[k] = None THEN 0 ELSE d.quiet[k]]
           e1 == [d EXCEPT !.quiet = q]
<1>1. Noticed(d) = e1
  BY DEF Noticed
<1>2. q \in [Keys -> 0..Horizon \cup {None}]
  BY FileFields
<1>3. e1.quiet = q
  BY DEF File
<1>4. \A k \in Keys : e1.quiet[k] =
        IF k \in d.tickets \cap Stages /\ d.quiet[k] = None THEN 0 ELSE d.quiet[k]
  BY <1>3
<1> HIDE DEF q
<1>5. e1 \in File
  BY <1>2, Written
<1>6. /\ e1.tickets = d.tickets /\ e1.suspended = d.suspended
      /\ e1.unpolled = d.unpolled /\ e1.admitted = d.admitted
      /\ e1.last = d.last /\ e1.age = d.age /\ e1.rank = d.rank
      /\ e1.earlier = d.earlier
  BY DEF File
<1> HIDE DEF e1
<1> QED
  BY <1>1, <1>4, <1>5, <1>6

(* Whom a judgement removes and whom it passes over.                       *)
Abandons(d, S) ==
    {k \in S \cap d.tickets : (k \notin d.suspended \/ k \in d.unpolled) /\ Quiet(d, k) > Abandoned}
Passes(d, S) ==
    {k \in S \cap d.tickets : /\ k \notin d.suspended \/ k \in d.unpolled
                              /\ ~(Quiet(d, k) > Abandoned)
                              /\ Quiet(d, k) > Unpolled}

LEMMA JudgedFields ==
    ASSUME NEW d \in File, NEW S
    PROVE  LET e == Judged(d, S)
               c == Cancelled(d, Abandons(d, S))
           IN  /\ e \in File
               /\ e.tickets = c.tickets /\ e.suspended = c.suspended \cup Passes(d, S)
               /\ e.unpolled = c.unpolled \cup Passes(d, S) /\ e.admitted = c.admitted
               /\ e.last = c.last /\ e.age = c.age /\ e.rank = c.rank
               /\ e.earlier = c.earlier /\ e.quiet = c.quiet
<1> DEFINE c == Cancelled(d, Abandons(d, S))
           passed == Passes(d, S)
           e1 == [c EXCEPT !.suspended = c.suspended \cup passed]
           e2 == [e1 EXCEPT !.unpolled = c.unpolled \cup passed]
<1>1. Judged(d, S) = e2
  <2> DEFINE unheld == {k \in S \cap d.tickets : k \notin d.suspended \/ k \in d.unpolled}
             abandoned == {k \in unheld : Quiet(d, k) > Abandoned}
             passing == {k \in unheld \ abandoned : Quiet(d, k) > Unpolled}
  <2>1. abandoned = Abandons(d, S)
    BY DEF Abandons
  <2>2. passing = passed
    BY DEF Passes
  <2>3. Judged(d, S) = LET e == Cancelled(d, abandoned) IN
          [e EXCEPT !.suspended = @ \cup passing, !.unpolled = @ \cup passing]
    BY DEF Judged
  <2> HIDE DEF abandoned, passing, passed
  <2> QED
    BY <2>1, <2>2, <2>3
<1>2. c \in File /\ passed \subseteq Keys
  BY CancelledFields, FileFields DEF Passes
<1> HIDE DEF c, passed
<1>3. e1 \in File
  BY <1>2, FileFields, Written
<1>4. e2 \in File
  <2>1. c.unpolled \cup passed \in SUBSET Keys
    BY <1>2, FileFields
  <2> HIDE DEF e1
  <2> QED
    BY <1>3, <2>1, Written
<1>5. /\ e2.tickets = c.tickets /\ e2.suspended = c.suspended \cup passed
      /\ e2.unpolled = c.unpolled \cup passed /\ e2.admitted = c.admitted
      /\ e2.last = c.last /\ e2.age = c.age /\ e2.rank = c.rank
      /\ e2.earlier = c.earlier /\ e2.quiet = c.quiet
  BY <1>2 DEF File
<1> HIDE DEF e2
<1> QED
  BY <1>1, <1>4, <1>5 DEF c, passed

-----------------------------------------------------------------------------
(* Every statement keeps the file in order                                 *)

LEMMA CancelledOK ==
    ASSUME NEW d, FileOK(d), NEW S
    PROVE  FileOK(Cancelled(d, S))
<1> DEFINE e == Cancelled(d, S)
<1>1. d \in File /\ e \in File
  BY CancelledFields DEF FileOK
<1>2. /\ e.tickets = d.tickets \ S /\ e.suspended = d.suspended \ S
      /\ e.unpolled = d.unpolled \ S /\ e.admitted = d.admitted \ S
  BY <1>1, CancelledFields
<1>3. \A k \in Keys \cap S : e.earlier[k] = {} /\ e.age[k] = 0 /\ e.rank[k] = 1
  BY <1>1, CancelledFields
<1>4. \A k \in Keys \ S :
        e.earlier[k] = d.earlier[k] \ S /\ e.age[k] = d.age[k] /\ e.rank[k] = d.rank[k]
  BY <1>1, CancelledFields
<1> HIDE DEF e
<1>5. IsFiniteSet(e.tickets)
  BY <1>2, FS_Subset DEF FileOK
<1>6. Line(e)
  <2> USE <1>1, <1>2, <1>3, <1>4, FileFields DEF FileOK, Line
  <2>1. \A j, k \in e.tickets : j # k => (j \in e.earlier[k] <=> k \notin e.earlier[j])
    OBVIOUS
  <2>2. \A k \in Keys : e.earlier[k] \subseteq e.tickets \ {k}
    OBVIOUS
  <2>3. \A j, k \in Keys : j \in e.earlier[k] => e.earlier[j] \subseteq e.earlier[k]
    OBVIOUS
  <2> QED
    BY <2>1, <2>2, <2>3
<1>7. Marks(e)
  BY <1>1, <1>2, <1>3, <1>4 DEF FileOK, Marks
<1> QED
  BY <1>1, <1>5, <1>6, <1>7 DEF FileOK, e

(* Released(Queued(d, k), {k}), and the admission of k withdrawn: what a   *)
(* check does with its own ticket in either release.                       *)
Returning(d, k) == [Released(Queued(d, k), {k}) EXCEPT !.admitted = @ \ {k}]

LEMMA ReturningFields ==
    ASSUME NEW d, FileOK(d), NEW k \in Keys
    PROVE  LET e == Returning(d, k) IN
           /\ FileOK(e)
           /\ e.tickets = d.tickets \cup {k} /\ e.suspended = d.suspended \ {k}
           /\ e.unpolled = d.unpolled \ {k} /\ e.admitted = d.admitted \ {k}
           /\ e.last = d.last /\ e.age = d.age /\ e.rank = d.rank
           /\ Quiet(e, k) = 0
           /\ \A j \in Keys \ {k} : e.earlier[j] = d.earlier[j] /\ e.quiet[j] = d.quiet[j]
           /\ k \in d.tickets => e.earlier = d.earlier
<1> DEFINE q == Queued(d, k)
           r == Released(q, {k})
           e == Returning(d, k)
<1>1. d \in File
  BY DEF FileOK
<1>2. /\ q \in File
      /\ q.tickets = d.tickets \cup {k} /\ q.suspended = d.suspended
      /\ q.unpolled = d.unpolled \ {k} /\ q.admitted = d.admitted
      /\ q.last = d.last /\ q.age = d.age /\ q.rank = d.rank
      /\ q.earlier[k] = (IF k \in d.tickets THEN d.earlier[k] ELSE d.tickets)
      /\ q.quiet[k] = (IF k \in d.tickets \cup Stages THEN 0 ELSE None)
      /\ \A j \in Keys \ {k} : q.earlier[j] = d.earlier[j] /\ q.quiet[j] = d.quiet[j]
  BY <1>1, QueuedFields
<1> HIDE DEF q
<1> DEFINE freed == ({k} \cap q.suspended) \ q.unpolled
<1>3. freed = {k} \cap d.suspended
  BY <1>2
<1>4. /\ r \in File
      /\ r.tickets = q.tickets /\ r.suspended = q.suspended \ freed
      /\ r.unpolled = q.unpolled /\ r.admitted = q.admitted
      /\ r.last = q.last /\ r.age = q.age /\ r.rank = q.rank
      /\ r.earlier = q.earlier
      /\ \A j \in freed \cap Stages : r.quiet[j] = None
      /\ \A j \in Keys \ (freed \cap Stages) : r.quiet[j] = q.quiet[j]
  BY <1>2, ReleasedFields
<1> HIDE DEF r, freed
<1>5. /\ e \in File
      /\ e.tickets = r.tickets /\ e.suspended = r.suspended
      /\ e.unpolled = r.unpolled /\ e.admitted = r.admitted \ {k}
      /\ e.last = r.last /\ e.age = r.age /\ e.rank = r.rank
      /\ e.earlier = r.earlier /\ e.quiet = r.quiet
  <2>1. e = [r EXCEPT !.admitted = r.admitted \ {k}]
    BY DEF Returning, r, q
  <2>2. r.admitted \ {k} \in SUBSET Keys
    BY <1>4, FileFields
  <2> HIDE DEF e
  <2>3. e \in File
    BY <1>4, <2>1, <2>2, Written
  <2> QED
    BY <1>4, <2>1, <2>3 DEF File
<1> HIDE DEF e
<1>6. /\ e.tickets = d.tickets \cup {k} /\ e.suspended = d.suspended \ {k}
      /\ e.unpolled = d.unpolled \ {k} /\ e.admitted = d.admitted \ {k}
      /\ e.last = d.last /\ e.age = d.age /\ e.rank = d.rank
  BY <1>2, <1>3, <1>4, <1>5
<1>7. e.earlier[k] = (IF k \in d.tickets THEN d.earlier[k] ELSE d.tickets)
  BY <1>2, <1>4, <1>5
<1>8. \A j \in Keys \ {k} : e.earlier[j] = d.earlier[j] /\ e.quiet[j] = d.quiet[j]
  BY <1>2, <1>3, <1>4, <1>5
<1>9. Quiet(e, k) = 0
  <2>1. CASE k \in d.suspended \cap Stages
    <3>1. e.quiet[k] = None
      BY <1>3, <1>4, <1>5, <2>1
    <3> QED
      BY <2>1, <3>1 DEF Quiet
  <2>2. CASE k \notin d.suspended \cap Stages
    <3>1. e.quiet[k] = q.quiet[k]
      BY <1>3, <1>4, <1>5, <2>2
    <3>2. k \notin d.tickets => d.age[k] = 0
      BY DEF FileOK, Marks
    <3> QED
      BY <1>2, <1>6, <3>1, <3>2 DEF Quiet
  <2> QED
    BY <2>1, <2>2
<1>10. IsFiniteSet(e.tickets)
  BY <1>6, FS_AddElement DEF FileOK
<1>11. Line(e)
  <2> USE <1>1, <1>5, <1>6, <1>7, <1>8, FileFields DEF FileOK, Line
  <2>1. \A i, j \in e.tickets : i # j => (i \in e.earlier[j] <=> j \notin e.earlier[i])
    OBVIOUS
  <2>2. \A j \in Keys : e.earlier[j] \subseteq e.tickets \ {j}
    OBVIOUS
  <2>3. \A i, j \in Keys : i \in e.earlier[j] => e.earlier[i] \subseteq e.earlier[j]
    OBVIOUS
  <2> QED
    BY <2>1, <2>2, <2>3
<1>12. Marks(e)
  BY <1>6 DEF FileOK, Marks
<1>13. ASSUME k \in d.tickets PROVE e.earlier = d.earlier
  BY <1>1, <1>5, <1>7, <1>8, <1>13, FileFields
<1> QED
  BY <1>5, <1>6, <1>8, <1>9, <1>10, <1>11, <1>12, <1>13 DEF FileOK, e

LEMMA HeldOK ==
    ASSUME NEW d, FileOK(d), NEW S
    PROVE  FileOK(Held(d, S))
<1> DEFINE e == Held(d, S)
           held == S \cap d.tickets \cap Stages
<1>1. d \in File
  BY DEF FileOK
<1>2. /\ e \in File
      /\ e.tickets = d.tickets /\ e.suspended = d.suspended \cup held
      /\ e.unpolled = d.unpolled \ held /\ e.admitted = d.admitted
      /\ e.age = d.age /\ e.rank = d.rank /\ e.earlier = d.earlier
  BY <1>1, HeldFields
<1> HIDE DEF e
<1>3. Marks(e)
  BY <1>2 DEF FileOK, Marks
<1>4. Line(e)
  BY <1>2 DEF FileOK, Line
<1> QED
  BY <1>2, <1>3, <1>4 DEF FileOK, e

LEMMA ReleasedOK ==
    ASSUME NEW d, FileOK(d), NEW S
    PROVE  FileOK(Released(d, S))
<1> DEFINE e == Released(d, S)
           freed == (S \cap d.suspended) \ d.unpolled
<1>1. d \in File
  BY DEF FileOK
<1>2. /\ e \in File
      /\ e.tickets = d.tickets /\ e.suspended = d.suspended \ freed
      /\ e.unpolled = d.unpolled /\ e.admitted = d.admitted
      /\ e.age = d.age /\ e.rank = d.rank /\ e.earlier = d.earlier
  BY <1>1, ReleasedFields
<1> HIDE DEF e
<1>3. Marks(e)
  BY <1>2 DEF FileOK, Marks
<1>4. Line(e)
  BY <1>2 DEF FileOK, Line
<1> QED
  BY <1>2, <1>3, <1>4 DEF FileOK, e

LEMMA TouchedOK ==
    ASSUME NEW d, FileOK(d), NEW S
    PROVE  FileOK(Touched(d, S))
<1> DEFINE e == Touched(d, S)
<1>1. d \in File
  BY DEF FileOK
<1>2. /\ e \in File
      /\ e.tickets = d.tickets /\ e.suspended = d.suspended
      /\ e.unpolled = d.unpolled /\ e.admitted = d.admitted
      /\ e.age = d.age /\ e.rank = d.rank /\ e.earlier = d.earlier
  BY <1>1, TouchedFields
<1> HIDE DEF e
<1> QED
  BY <1>2 DEF FileOK, Line, Marks, e

LEMMA NoticedOK ==
    ASSUME NEW d, FileOK(d)
    PROVE  FileOK(Noticed(d))
<1> DEFINE e == Noticed(d)
<1>1. d \in File
  BY DEF FileOK
<1>2. /\ e \in File
      /\ e.tickets = d.tickets /\ e.suspended = d.suspended
      /\ e.unpolled = d.unpolled /\ e.admitted = d.admitted
      /\ e.age = d.age /\ e.rank = d.rank /\ e.earlier = d.earlier
  BY <1>1, NoticedFields
<1> HIDE DEF e
<1> QED
  BY <1>2 DEF FileOK, Line, Marks, e

LEMMA JudgedOK ==
    ASSUME NEW d, FileOK(d), NEW S
    PROVE  FileOK(Judged(d, S))
<1> DEFINE e == Judged(d, S)
           c == Cancelled(d, Abandons(d, S))
<1>1. d \in File
  BY DEF FileOK
<1>2. FileOK(c)
  BY CancelledOK
<1>3. Passes(d, S) \subseteq c.tickets
  BY <1>1, CancelledFields DEF Passes, Abandons
<1>4. /\ e \in File
      /\ e.tickets = c.tickets /\ e.suspended = c.suspended \cup Passes(d, S)
      /\ e.unpolled = c.unpolled \cup Passes(d, S) /\ e.admitted = c.admitted
      /\ e.age = c.age /\ e.rank = c.rank /\ e.earlier = c.earlier
  BY <1>1, JudgedFields
<1> HIDE DEF e, c
<1>5. Marks(e)
  BY <1>2, <1>3, <1>4 DEF FileOK, Marks
<1>6. Line(e)
  BY <1>2, <1>4 DEF FileOK, Line
<1> QED
  BY <1>2, <1>4, <1>5, <1>6 DEF FileOK, e

-----------------------------------------------------------------------------
(* What a statement does to the ticket of a process                        *)

(* A ticket that nobody holds showed a sign of its process since s.        *)
Spoken(d, k, s) ==
    k \in d.tickets /\ (k \notin d.suspended \/ k \in d.unpolled) => Quiet(d, k) <= s

(* From d to e the ticket of a process seen s ago keeps its place.         *)
Kept(d, e, k, s) ==
    Spoken(d, k, s) => /\ Spoken(e, k, s)
                       /\ k \in e.unpolled \ d.unpolled => s > Unpolled
                       /\ k \in d.tickets \ e.tickets => s > Abandoned

(* From d to e a ticket is not a new one and has at most the same ones     *)
(* before it.                                                              *)
Follows(d, e, k) ==
    k \in e.tickets => /\ k \in d.tickets
                       /\ e.age[k] = d.age[k]
                       /\ e.earlier[k] \subseteq d.earlier[k]

LEMMA InTurn ==
    ASSUME NEW d, NEW e, NEW f, NEW k, NEW s
    PROVE  /\ Kept(d, e, k, s) /\ Kept(e, f, k, s) => Kept(d, f, k, s)
           /\ Follows(d, e, k) /\ Follows(e, f, k) => Follows(d, f, k)
BY DEF Kept, Follows

LEMMA QuietType ==
    ASSUME NEW d \in File, NEW k \in Keys
    PROVE  Quiet(d, k) \in 0..Horizon
BY FileFields DEF Quiet, Keys

LEMMA CancelledTicket ==
    ASSUME NEW d, FileOK(d), NEW S, NEW k \in Keys, NEW s \in Nat
    PROVE  LET e == Cancelled(d, S) IN
           /\ Follows(d, e, k)
           /\ k \notin S => Kept(d, e, k, s) /\ e.age[k] = d.age[k]
<1>1. d \in File
  BY DEF FileOK
<1> QED
  BY <1>1, CancelledFields DEF Kept, Spoken, Follows, Quiet

LEMMA ReturningTicket ==
    ASSUME NEW d, FileOK(d), NEW k \in Keys, NEW j \in Keys \ {k}, NEW s \in Nat
    PROVE  LET e == Returning(d, k) IN Follows(d, e, j) /\ Kept(d, e, j, s)
BY ReturningFields DEF Kept, Spoken, Follows, Quiet

LEMMA HeldTicket ==
    ASSUME NEW d, FileOK(d), NEW S, NEW k \in Keys, NEW s \in Nat
    PROVE  Kept(d, Held(d, S), k, s)
<1>1. d \in File
  BY DEF FileOK
<1> QED
  BY <1>1, HeldFields DEF Kept, Spoken, Quiet

LEMMA ReleasedTicket ==
    ASSUME NEW d, FileOK(d), NEW S, NEW k \in Keys, NEW s \in Nat
    PROVE  LET e == Released(d, S) IN
           /\ Kept(d, e, k, s)
           /\ k \in (S \cap d.suspended) \ d.unpolled => Quiet(e, k) = 0
<1> DEFINE e == Released(d, S)
           freed == (S \cap d.suspended) \ d.unpolled
<1>1. d \in File
  BY DEF FileOK
<1>2. /\ e.tickets = d.tickets /\ e.suspended = d.suspended \ freed
      /\ e.unpolled = d.unpolled /\ e.age = d.age
      /\ \A j \in freed \cap Stages : e.quiet[j] = None
      /\ \A j \in Keys \ (freed \cap Stages) : e.quiet[j] = d.quiet[j]
  BY <1>1, ReleasedFields
<1> HIDE DEF e
<1>3. freed \subseteq Stages
  BY DEF FileOK, Marks
<1>4. CASE k \in freed
  <2>1. Quiet(e, k) = 0
    BY <1>2, <1>3, <1>4 DEF Quiet
  <2> QED
    BY <1>2, <2>1 DEF Kept, Spoken, e
<1>5. CASE k \notin freed
  <2>1. Quiet(e, k) = Quiet(d, k)
    BY <1>2, <1>5 DEF Quiet
  <2> QED
    BY <1>2, <1>5, <2>1 DEF Kept, Spoken, e
<1> QED
  BY <1>4, <1>5

LEMMA TouchedTicket ==
    ASSUME NEW d, FileOK(d), NEW S, NEW k \in Keys, NEW s \in Nat
    PROVE  LET e == Touched(d, S) IN
           /\ Follows(d, e, k) /\ Kept(d, e, k, s)
           /\ k \in S \cap d.tickets \/ Quiet(d, k) = 0 => Quiet(e, k) = 0
<1> DEFINE e == Touched(d, S)
<1>1. d \in File
  BY DEF FileOK
<1>2. /\ e.tickets = d.tickets /\ e.suspended = d.suspended
      /\ e.unpolled = d.unpolled /\ e.age = d.age /\ e.earlier = d.earlier
      /\ k \in S \cap d.tickets => e.quiet[k] = 0
      /\ k \notin S \cap d.tickets => e.quiet[k] = d.quiet[k]
  BY <1>1, TouchedFields
<1> HIDE DEF e
<1>3. /\ k \in S \cap d.tickets => Quiet(e, k) = 0
      /\ k \notin S \cap d.tickets => Quiet(e, k) = Quiet(d, k)
  BY <1>2 DEF Quiet
<1> QED
  BY <1>2, <1>3 DEF Kept, Spoken, Follows, e

LEMMA NoticedTicket ==
    ASSUME NEW d, FileOK(d), NEW k \in Keys, NEW s \in Nat
    PROVE  LET e == Noticed(d) IN
           Follows(d, e, k) /\ Kept(d, e, k, s) /\ e.age[k] = d.age[k]
<1> DEFINE e == Noticed(d)
<1>1. d \in File
  BY DEF FileOK
<1>2. /\ e.tickets = d.tickets /\ e.suspended = d.suspended
      /\ e.unpolled = d.unpolled /\ e.age = d.age /\ e.earlier = d.earlier
      /\ e.quiet[k] =
           IF k \in d.tickets \cap Stages /\ d.quiet[k] = None THEN 0 ELSE d.quiet[k]
  BY <1>1, NoticedFields
<1> HIDE DEF e
<1>3. Quiet(e, k) = Quiet(d, k)
  BY <1>2 DEF Quiet
<1> QED
  BY <1>2, <1>3 DEF Kept, Spoken, Follows, e

LEMMA JudgedTicket ==
    ASSUME NEW d, FileOK(d), NEW S, NEW k \in Keys, NEW s \in Nat
    PROVE  LET e == Judged(d, S) IN
           /\ Follows(d, e, k) /\ Kept(d, e, k, s)
           /\ k \notin S \/ Quiet(d, k) = 0 =>
                /\ e.age[k] = d.age[k] /\ e.quiet[k] = d.quiet[k]
                /\ k \in e.tickets <=> k \in d.tickets
                /\ k \in e.suspended <=> k \in d.suspended
                /\ k \in e.unpolled <=> k \in d.unpolled
                /\ k \in e.admitted <=> k \in d.admitted
<1> DEFINE A == Abandons(d, S)
           P == Passes(d, S)
           c == Cancelled(d, A)
           e == Judged(d, S)
<1>1. d \in File
  BY DEF FileOK
<1>2. /\ e.tickets = d.tickets \ A /\ e.suspended = (d.suspended \ A) \cup P
      /\ e.unpolled = (d.unpolled \ A) \cup P /\ e.admitted = d.admitted \ A
      /\ k \notin A => /\ e.earlier[k] = d.earlier[k] \ A
                       /\ e.age[k] = d.age[k] /\ e.quiet[k] = d.quiet[k]
  <2>1. /\ e.tickets = c.tickets /\ e.suspended = c.suspended \cup P
        /\ e.unpolled = c.unpolled \cup P /\ e.admitted = c.admitted
        /\ e.age = c.age /\ e.earlier = c.earlier /\ e.quiet = c.quiet
    BY <1>1, JudgedFields
  <2> HIDE DEF A, P, e
  <2> QED
    BY <1>1, <2>1, CancelledFields
<1>3. k \in A => Quiet(d, k) > Abandoned /\ k \in S
                  /\ (k \notin d.suspended \/ k \in d.unpolled)
  BY DEF Abandons
<1>4. k \in P => Quiet(d, k) > Unpolled /\ k \in S
                  /\ (k \notin d.suspended \/ k \in d.unpolled)
  BY DEF Passes
<1>5. k \in A \cup P => k \in d.tickets
  BY DEF Abandons, Passes
<1>6. Quiet(d, k) \in Nat
  BY <1>1, QuietType
<1> HIDE DEF A, P, e
<1>7. k \notin A => Quiet(e, k) = Quiet(d, k)
  BY <1>2 DEF Quiet
<1>8. Follows(d, e, k)
  BY <1>2 DEF Follows
<1>9. Kept(d, e, k, s)
  <2> SUFFICES ASSUME Spoken(d, k, s)
               PROVE  /\ Spoken(e, k, s)
                      /\ k \in e.unpolled \ d.unpolled => s > Unpolled
                      /\ k \in d.tickets \ e.tickets => s > Abandoned
    BY DEF Kept
  <2>1. k \in A => s > Abandoned
    BY <1>3, <1>5, <1>6 DEF Spoken
  <2>2. k \in P => s > Unpolled
    BY <1>4, <1>5, <1>6 DEF Spoken
  <2>3. Spoken(e, k, s)
    BY <1>2, <1>4, <1>7 DEF Spoken
  <2> QED
    BY <1>2, <2>1, <2>2, <2>3
<1>10. k \notin S \/ Quiet(d, k) = 0 => k \notin A /\ k \notin P
  BY <1>3, <1>4
<1> QED
  BY <1>2, <1>8, <1>9, <1>10 DEF e

-----------------------------------------------------------------------------
(* What a transaction does                                                 *)

(* Under the lock, up to the priorities: the checker's own ticket is in    *)
(* the line, counted and heard of; the others keep their places, but those *)
(* of processes found dead.                                                *)
LEMMA PolledFile ==
    ASSUME NEW d, FileOK(d), NEW k \in Keys, NEW v
    PROVE  LET p == Polled(d, k, v) IN
           /\ FileOK(p)
           /\ k \in p.tickets /\ Quiet(p, k) = 0
           /\ k \notin p.suspended \cup p.unpolled \cup p.admitted
           /\ k \notin v.dead => p.age[k] = d.age[k]
           /\ \A j \in Keys \ {k} : /\ Follows(d, p, j)
                                    /\ j \notin v.dead => \A s \in Nat : Kept(d, p, j, s)
<1> DEFINE n == Noticed(d)
           c == Cancelled(n, v.dead \cap n.tickets)
           o == Judged(c, v.unverified \ {k})
           g == Returning(o, k)
           r == Touched(g, {k})
           p == Judged(r, Stages)
<1>1. Polled(d, k, v) = p
  <2>1. JudgedOwners(n, k, v) = o
    BY DEF JudgedOwners
  <2>2. Returned(o, k) = r
    BY DEF Returned, Returning
  <2> HIDE DEF n, o, r
  <2> QED
    BY <2>1, <2>2 DEF Polled, n
<1>2. FileOK(n)
  BY NoticedOK
<1>3. FileOK(c)
  <2> HIDE DEF n
  <2> QED
    BY <1>2, CancelledOK
<1>4. FileOK(o)
  <2> HIDE DEF c
  <2> QED
    BY <1>3, JudgedOK
<1>5. FileOK(g)
  <2> HIDE DEF o
  <2> QED
    BY <1>4, ReturningFields
<1>6. FileOK(r)
  <2> HIDE DEF g
  <2> QED
    BY <1>5, TouchedOK
<1>7. FileOK(p)
  <2> HIDE DEF r
  <2> QED
    BY <1>6, JudgedOK
<1>8. \A j \in Keys \ {k} : /\ Follows(d, p, j)
                            /\ j \notin v.dead => \A s \in Nat : Kept(d, p, j, s)
  <2> TAKE j \in Keys \ {k}
  <2> HIDE DEF n, c, o, g, r, p
  <2>1. ASSUME NEW s \in Nat
        PROVE  /\ Follows(d, n, j) /\ Kept(d, n, j, s)
               /\ Follows(n, c, j) /\ (j \notin v.dead => Kept(n, c, j, s))
               /\ Follows(c, o, j) /\ Kept(c, o, j, s)
               /\ Follows(o, g, j) /\ Kept(o, g, j, s)
               /\ Follows(g, r, j) /\ Kept(g, r, j, s)
               /\ Follows(r, p, j) /\ Kept(r, p, j, s)
    <3>1. Follows(d, n, j) /\ Kept(d, n, j, s)
      BY NoticedTicket DEF n
    <3>2. Follows(n, c, j) /\ (j \notin v.dead => Kept(n, c, j, s))
      BY <1>2, CancelledTicket DEF c
    <3>3. Follows(c, o, j) /\ Kept(c, o, j, s)
      BY <1>3, JudgedTicket DEF o
    <3>4. Follows(o, g, j) /\ Kept(o, g, j, s)
      BY <1>4, ReturningTicket DEF g
    <3>5. Follows(g, r, j) /\ Kept(g, r, j, s)
      BY <1>5, TouchedTicket DEF r
    <3>6. Follows(r, p, j) /\ Kept(r, p, j, s)
      BY <1>6, JudgedTicket DEF p
    <3> QED
      BY <3>1, <3>2, <3>3, <3>4, <3>5, <3>6
  <2>2. Follows(d, p, j)
    BY <2>1, 0 \in Nat, InTurn
  <2>3. ASSUME j \notin v.dead, NEW s \in Nat PROVE Kept(d, p, j, s)
    <3>1. Kept(d, o, j, s)
      BY <2>1, <2>3, InTurn
    <3>2. Kept(o, p, j, s)
      BY <2>1, InTurn
    <3> QED
      BY <3>1, <3>2, InTurn
  <2> QED
    BY <2>2, <2>3
<1>9. /\ k \in g.tickets /\ Quiet(g, k) = 0 /\ g.age = o.age
      /\ k \notin g.suspended \cup g.unpolled \cup g.admitted
  <2> HIDE DEF o
  <2> QED
    BY <1>4, ReturningFields
<1>10. /\ k \in r.tickets /\ Quiet(r, k) = 0 /\ r.age = g.age
       /\ k \notin r.suspended \cup r.unpolled \cup r.admitted
  <2> HIDE DEF g
  <2>1. g \in File
    BY <1>5 DEF FileOK
  <2>2. Quiet(r, k) = 0
    BY <1>5, <1>9, 0 \in Nat, TouchedTicket
  <2> QED
    BY <1>9, <2>1, <2>2, TouchedFields
<1>11. /\ p.age[k] = r.age[k] /\ p.quiet[k] = r.quiet[k]
       /\ k \in p.tickets
       /\ k \notin p.suspended \cup p.unpolled \cup p.admitted
  <2> HIDE DEF r
  <2> QED
    BY <1>6, <1>10, 0 \in Nat, JudgedTicket
<1>12. Quiet(p, k) = 0
  <2> HIDE DEF p, r
  <2> QED
    BY <1>10, <1>11 DEF Quiet
<1>13. ASSUME k \notin v.dead PROVE p.age[k] = d.age[k]
  <2> HIDE DEF n, c, o, g, r, p
  <2>1. n.age[k] = d.age[k]
    BY 0 \in Nat, NoticedTicket DEF n
  <2>2. c.age[k] = n.age[k]
    BY <1>2, <1>13, 0 \in Nat, CancelledTicket DEF c
  <2>3. o.age[k] = c.age[k]
    BY <1>3, 0 \in Nat, JudgedTicket DEF o
  <2> QED
    BY <1>9, <1>10, <1>11, <2>1, <2>2, <2>3
<1> HIDE DEF n, c, o, g, r, p
<1> QED
  BY <1>1, <1>7, <1>8, <1>11, <1>12, <1>13

(* The samples that a check took of the priorities.                        *)
Sample == UNION {[S -> 0..2] : S \in SUBSET Bound}

LEMMA RankedFile ==
    ASSUME NEW d, FileOK(d), NEW v, v.ranks \in Sample
    PROVE  LET e == Ranked(d, v) IN
           /\ FileOK(e)
           /\ e.tickets = d.tickets /\ e.suspended = d.suspended
           /\ e.unpolled = d.unpolled /\ e.admitted = d.admitted
           /\ e.last = d.last /\ e.age = d.age /\ e.quiet = d.quiet
           /\ e.earlier = d.earlier
           /\ \A j \in Sampled(d) \cap DOMAIN v.ranks : e.rank[j] = v.ranks[j]
           /\ \A j \in Keys : (\A s \in Nat : Kept(d, e, j, s)) /\ Quiet(e, j) = Quiet(d, j)
<1> DEFINE sampled == Sampled(d) \cap DOMAIN v.ranks
           r == [j \in Keys |-> IF j \in sampled THEN v.ranks[j] ELSE d.rank[j]]
           e == [d EXCEPT !.rank = r]
<1>1. Ranked(d, v) = e
  BY DEF Ranked
<1>2. sampled \subseteq Bound /\ sampled \subseteq Keys
  BY DEF Sampled
<1>3. \A j \in DOMAIN v.ranks : v.ranks[j] \in 0..2
  BY DEF Sample
<1>4. d \in File
  BY DEF FileOK
<1>5. r \in [Keys -> 0..2]
  BY <1>3, <1>4, FileFields
<1>6. \A j \in Keys : r[j] = IF j \in sampled THEN v.ranks[j] ELSE d.rank[j]
  OBVIOUS
<1> HIDE DEF sampled, r
<1>7. /\ e.tickets = d.tickets /\ e.suspended = d.suspended
      /\ e.unpolled = d.unpolled /\ e.admitted = d.admitted
      /\ e.last = d.last /\ e.age = d.age /\ e.quiet = d.quiet
      /\ e.earlier = d.earlier /\ e.rank = r
  BY <1>4 DEF File
<1>8. e \in File
  BY <1>4, <1>5, Written
<1> HIDE DEF e
<1>9. \A j \in Keys : Quiet(e, j) = Quiet(d, j)
  BY <1>7 DEF Quiet
<1>10. \A j \in Keys : \A s \in Nat : Kept(d, e, j, s)
  BY <1>7, <1>9 DEF Kept, Spoken
<1>11. FileOK(e)
  BY <1>2, <1>6, <1>7, <1>8 DEF FileOK, Line, Marks
<1>12. \A j \in sampled : e.rank[j] = v.ranks[j]
  BY <1>2, <1>6, <1>7
<1> QED
  BY <1>1, <1>7, <1>9, <1>10, <1>11, <1>12 DEF sampled

(* A consumed admission.                                                   *)
LEMMA ConsumedFile ==
    ASSUME NEW d, FileOK(d), NEW k \in d.tickets
    PROVE  LET e == Consumed(d, k) IN
           /\ FileOK(e)
           /\ Counted(e) \subseteq Counted(d)
           /\ \A j \in Keys \ {k} : \A s \in Nat : Kept(d, e, j, s)
           /\ Quiet(d, k) = 0 => Spoken(e, k, 0)
           /\ k \notin d.unpolled => k \notin e.unpolled
<1> DEFINE e == Consumed(d, k)
<1>1. d \in File /\ k \in Keys
  BY FileFields DEF FileOK
<1>2. CASE k \in Stages
  <2> DEFINE e1 == [d EXCEPT !.admitted = d.admitted \cup {k}]
             e2 == [e1 EXCEPT !.last = 0]
  <2>1. e = e2
    BY <1>2 DEF Consumed
  <2>2. e1 \in File
    BY <1>1, FileFields, Written
  <2>3. e2 \in File
    <3> HIDE DEF e1
    <3> QED
      BY <2>2, Written
  <2>4. /\ e2.tickets = d.tickets /\ e2.suspended = d.suspended
        /\ e2.unpolled = d.unpolled /\ e2.admitted = d.admitted \cup {k}
        /\ e2.age = d.age /\ e2.quiet = d.quiet
        /\ e2.earlier = d.earlier /\ e2.rank = d.rank
    BY <1>1 DEF File
  <2> HIDE DEF e, e2
  <2>5. FileOK(e)
    BY <1>2, <2>1, <2>3, <2>4 DEF FileOK, Line, Marks
  <2>6. Counted(e) \subseteq Counted(d)
    BY <2>1, <2>4 DEF Counted
  <2>7. \A j \in Keys : Quiet(e, j) = Quiet(d, j)
    BY <2>1, <2>4 DEF Quiet
  <2>8. \A j \in Keys \ {k} : \A s \in Nat : Kept(d, e, j, s)
    BY <2>1, <2>4, <2>7 DEF Kept, Spoken
  <2>9. Quiet(d, k) = 0 => Spoken(e, k, 0)
    BY <1>1, <2>7 DEF Spoken
  <2> QED
    BY <2>1, <2>4, <2>5, <2>6, <2>8, <2>9 DEF e
<1>3. CASE k \notin Stages
  <2> DEFINE c == Cancelled(d, {k})
             e1 == [c EXCEPT !.last = 0]
  <2>1. e = e1
    BY <1>3 DEF Consumed
  <2>2. FileOK(c)
    BY CancelledOK
  <2>3. /\ c.tickets = d.tickets \ {k} /\ c.suspended = d.suspended \ {k}
        /\ c.unpolled = d.unpolled \ {k} /\ c.admitted = d.admitted \ {k}
    BY <1>1, CancelledFields
  <2>4. \A j \in Keys \ {k} : \A s \in Nat : Kept(d, c, j, s)
    BY CancelledTicket
  <2> HIDE DEF c
  <2>5. e1 \in File
    BY <2>2, Written DEF FileOK
  <2>6. /\ e1.tickets = c.tickets /\ e1.suspended = c.suspended
        /\ e1.unpolled = c.unpolled /\ e1.admitted = c.admitted
        /\ e1.age = c.age /\ e1.quiet = c.quiet
        /\ e1.earlier = c.earlier /\ e1.rank = c.rank
    BY <2>2 DEF File, FileOK
  <2> HIDE DEF e, e1
  <2>7. FileOK(e)
    BY <2>1, <2>2, <2>5, <2>6 DEF FileOK, Line, Marks
  <2>8. Counted(e) \subseteq Counted(d)
    BY <2>1, <2>3, <2>6 DEF Counted
  <2>9. \A j \in Keys : Quiet(e, j) = Quiet(c, j)
    BY <2>1, <2>6 DEF Quiet
  <2>10. \A j \in Keys \ {k} : \A s \in Nat : Kept(d, e, j, s)
    BY <2>1, <2>4, <2>6, <2>9 DEF Kept, Spoken
  <2>11. Spoken(e, k, 0) /\ k \notin e.unpolled
    BY <2>1, <2>3, <2>6 DEF Spoken
  <2> QED
    BY <2>7, <2>8, <2>10, <2>11 DEF e
<1> QED
  BY <1>2, <1>3

(* The older release's check, up to the admission.                         *)
LEMMA LegacyPolledFile ==
    ASSUME NEW d, FileOK(d), NEW k \in Keys, NEW dead
    PROVE  LET e == LegacyPolled(d, k, dead) IN
           /\ FileOK(e)
           /\ k \in e.tickets /\ Quiet(e, k) = 0 /\ k \notin e.unpolled
           /\ \A j \in Keys \ {k} : j \notin dead => \A s \in Nat : Kept(d, e, j, s)
<1> DEFINE c == Cancelled(d, dead)
           e == Returning(c, k)
<1>1. LegacyPolled(d, k, dead) = e
  BY DEF LegacyPolled, Returning
<1>2. FileOK(c)
  BY CancelledOK
<1>3. \A j \in Keys : j \notin dead => \A s \in Nat : Kept(d, c, j, s)
  BY CancelledTicket
<1> HIDE DEF c
<1>4. /\ FileOK(e)
      /\ k \in e.tickets /\ Quiet(e, k) = 0 /\ k \notin e.unpolled
  BY <1>2, ReturningFields
<1>5. \A j \in Keys \ {k} : \A s \in Nat : Kept(c, e, j, s)
  BY <1>2, ReturningTicket
<1> HIDE DEF e
<1>6. \A j \in Keys \ {k} : j \notin dead => \A s \in Nat : Kept(d, e, j, s)
  BY <1>3, <1>5, InTurn
<1> QED
  BY <1>1, <1>4, <1>6

(* An instance aligns its tickets: whatever it holds or releases counts as *)
(* heard of, and it withdraws the tickets of its finished stages alone.    *)
LEMMA ReconciledFile ==
    ASSUME NEW d, FileOK(d), NEW own \in SUBSET Stages, NEW active \in SUBSET own,
           NEW eligible \in SUBSET active
    PROVE  LET e == Reconciled(d, own, active, eligible)
               moved == ((active \ eligible) \cap d.tickets)
                        \cup ((eligible \cap d.suspended) \ d.unpolled)
           IN  /\ FileOK(e)
               /\ \A j \in Keys \ (own \ active) : \A s \in Nat : Kept(d, e, j, s)
               /\ \A j \in moved : Spoken(e, j, 0) /\ j \in e.tickets
               /\ e.unpolled \subseteq d.unpolled
<1> DEFINE ended == own \ active
           c == Cancelled(d, ended)
           kept == [c EXCEPT !.admitted = c.admitted \ own]
           h == Held(kept, active \ eligible)
           e == Released(h, eligible)
           moved == ((active \ eligible) \cap d.tickets)
                    \cup ((eligible \cap d.suspended) \ d.unpolled)
<1>1. Reconciled(d, own, active, eligible) = e
  BY DEF Reconciled
<1>2. FileOK(c)
  BY CancelledOK
<1>3. /\ c.tickets = d.tickets \ ended /\ c.suspended = d.suspended \ ended
      /\ c.unpolled = d.unpolled \ ended
  BY CancelledFields DEF FileOK
<1>4. \A j \in Keys \ ended : \A s \in Nat : Kept(d, c, j, s)
  BY CancelledTicket
<1> HIDE DEF c
<1>5. kept \in File
  <2>1. c.admitted \ own \in SUBSET Keys
    BY <1>2, FileFields DEF FileOK
  <2> QED
    BY <1>2, <2>1, Written DEF FileOK
<1>6. /\ kept.tickets = c.tickets /\ kept.suspended = c.suspended
      /\ kept.unpolled = c.unpolled /\ kept.admitted = c.admitted \ own
      /\ kept.age = c.age /\ kept.quiet = c.quiet
      /\ kept.earlier = c.earlier /\ kept.rank = c.rank
  BY <1>2 DEF File, FileOK
<1> HIDE DEF kept
<1>7. FileOK(kept)
  BY <1>2, <1>5, <1>6 DEF FileOK, Line, Marks
<1>8. \A j \in Keys : \A s \in Nat : Kept(c, kept, j, s)
  BY <1>6 DEF Kept, Spoken, Quiet
<1>9. FileOK(h) /\ \A j \in Keys : \A s \in Nat : Kept(kept, h, j, s)
  BY <1>7, HeldOK, HeldTicket
<1>10. /\ h.tickets = kept.tickets
       /\ h.suspended = kept.suspended \cup ((active \ eligible) \cap kept.tickets \cap Stages)
       /\ h.unpolled = kept.unpolled \ ((active \ eligible) \cap kept.tickets \cap Stages)
  BY <1>5, HeldFields
<1> HIDE DEF h
<1> DEFINE freed == (eligible \cap h.suspended) \ h.unpolled
<1>11. FileOK(e) /\ \A j \in Keys : \A s \in Nat : Kept(h, e, j, s)
  BY <1>9, ReleasedOK, ReleasedTicket
<1>12. \A j \in freed : Quiet(e, j) = 0
  <2>1. freed \subseteq Keys
    BY <1>9, FileFields DEF FileOK
  <2> QED
    BY <1>9, <2>1, 0 \in Nat, ReleasedTicket
<1>13. /\ e.tickets = h.tickets /\ e.suspended = h.suspended \ freed
       /\ e.unpolled = h.unpolled
  BY <1>9, ReleasedFields DEF FileOK
<1> HIDE DEF e
<1>14. \A j \in Keys \ ended : \A s \in Nat : Kept(d, e, j, s)
  <2> TAKE j \in Keys \ ended
  <2> TAKE s \in Nat
  <2>1. Kept(d, c, j, s) /\ Kept(c, kept, j, s) /\ Kept(kept, h, j, s) /\ Kept(h, e, j, s)
    BY <1>4, <1>8, <1>9, <1>11
  <2>2. Kept(d, kept, j, s) /\ Kept(kept, e, j, s)
    BY <2>1, InTurn
  <2> QED
    BY <2>2, InTurn
<1>15. ASSUME NEW j \in moved PROVE Spoken(e, j, 0) /\ j \in e.tickets
  <2>0. d.suspended \subseteq d.tickets
    BY DEF FileOK, Marks
  <2>1. CASE j \in (active \ eligible) \cap d.tickets
    <3>1. j \in kept.tickets \cap Stages
      BY <1>3, <1>6, <2>1
    <3>2. j \in e.suspended /\ j \notin e.unpolled /\ j \in e.tickets
      BY <1>10, <1>13, <2>1, <3>1
    <3> QED
      BY <3>2 DEF Spoken
  <2>2. CASE j \in (eligible \cap d.suspended) \ d.unpolled
    <3>1. j \in freed /\ j \in e.tickets
      BY <1>3, <1>6, <1>10, <1>13, <2>0, <2>2
    <3> QED
      BY <1>12, <3>1 DEF Spoken
  <2> QED
    BY <2>1, <2>2
<1>16. e.unpolled \subseteq d.unpolled
  BY <1>3, <1>6, <1>10, <1>13
<1> QED
  BY <1>1, <1>11, <1>14, <1>15, <1>16

(* Time passes in the file.                                                *)
Ticked(d) ==
    [d EXCEPT !.age = [k \in Keys |-> IF k \in d.tickets THEN Older(@[k]) ELSE 0],
              !.quiet = [k \in Keys |-> Older(@[k])],
              !.last = Older(@)]

LEMMA OlderType ==
    /\ \A t \in 0..Horizon : Older(t) \in 0..Horizon /\ Older(t) # None
    /\ Older(None) = None
    /\ \A s, t \in 0..Horizon : s <= t => Older(s) <= Older(t)
    /\ \A t \in 0..Horizon : Older(t) >= t /\ (t >= Horizon \/ Older(t) = t + 1)
<1>1. Horizon \in Nat /\ \A t \in 0..Horizon : t # None
  OBVIOUS
<1> QED
  BY <1>1 DEF Older

LEMMA TickedFile ==
    ASSUME NEW d, FileOK(d)
    PROVE  LET e == Ticked(d) IN
           /\ FileOK(e)
           /\ e.tickets = d.tickets /\ e.suspended = d.suspended
           /\ e.unpolled = d.unpolled
           /\ \A k \in d.tickets : \A s \in 0..Horizon : Spoken(d, k, s) => Spoken(e, k, Older(s))
<1> DEFINE e == Ticked(d)
           a == [k \in Keys |-> IF k \in d.tickets THEN Older(d.age[k]) ELSE 0]
           q == [k \in Keys |-> Older(d.quiet[k])]
           e1 == [d EXCEPT !.age = a]
           e2 == [e1 EXCEPT !.quiet = q]
           e3 == [e2 EXCEPT !.last = Older(d.last)]
<1>1. e = e3
  BY DEF Ticked
<1>2. d \in File
  BY DEF FileOK
<1>3. a \in [Keys -> 0..Horizon] /\ q \in [Keys -> 0..Horizon \cup {None}]
      /\ Older(d.last) \in 0..Horizon
  BY <1>2, FileFields, OlderType
<1>4. /\ \A k \in d.tickets : a[k] = Older(d.age[k])
      /\ \A k \in Keys \ d.tickets : a[k] = 0
      /\ \A k \in Keys : q[k] = Older(d.quiet[k])
  BY <1>2, FileFields
<1> HIDE DEF a, q
<1>5. e3 \in File
  <2>1. e1 \in File
    BY <1>2, <1>3, Written
  <2> HIDE DEF e1
  <2>2. e2 \in File
    BY <1>3, <2>1, Written
  <2> HIDE DEF e2
  <2> QED
    BY <1>3, <2>2, Written
<1>6. /\ e3.tickets = d.tickets /\ e3.suspended = d.suspended
      /\ e3.unpolled = d.unpolled /\ e3.admitted = d.admitted
      /\ e3.age = a /\ e3.quiet = q
      /\ e3.earlier = d.earlier /\ e3.rank = d.rank
  BY <1>2 DEF File
<1> HIDE DEF e, e3
<1>7. FileOK(e)
  BY <1>1, <1>4, <1>5, <1>6 DEF FileOK, Line, Marks
<1>8. ASSUME NEW k \in d.tickets, NEW s \in 0..Horizon, Spoken(d, k, s)
      PROVE  Spoken(e, k, Older(s))
  <2>1. k \in Keys /\ Quiet(d, k) \in 0..Horizon
    BY <1>2, FileFields, QuietType
  <2>2. Quiet(e, k) <= Older(Quiet(d, k))
    <3>1. CASE d.quiet[k] # None
      <4>1. d.quiet[k] \in 0..Horizon
        BY <1>2, <2>1, <3>1, FileFields
      <4>2. e.quiet[k] = Older(d.quiet[k]) /\ e.quiet[k] # None
        BY <1>1, <1>4, <1>6, <2>1, <4>1, OlderType
      <4> QED
        BY <2>1, <3>1, <4>1, <4>2, OlderType DEF Quiet
    <3>2. CASE d.quiet[k] = None
      <4>1. e.quiet[k] = None /\ e.age[k] = Older(d.age[k])
        BY <1>1, <1>4, <1>6, <2>1, <3>2, OlderType
      <4>2. d.age[k] \in 0..Horizon
        BY <1>2, <2>1, FileFields
      <4> QED
        BY <2>1, <3>2, <4>1, <4>2, OlderType DEF Quiet
    <3> QED
      BY <3>1, <3>2
  <2>3. Quiet(e, k) \in 0..Horizon
    BY <1>7, <2>1, QuietType DEF FileOK
  <2>4. Quiet(d, k) <= s => Older(Quiet(d, k)) <= Older(s)
    BY <2>1, OlderType
  <2>5. Older(Quiet(d, k)) \in Nat /\ Older(s) \in Nat
    BY <2>1, OlderType
  <2> QED
    BY <1>1, <1>6, <1>8, <2>2, <2>3, <2>4, <2>5 DEF Spoken
<1> QED
  BY <1>1, <1>6, <1>7, <1>8 DEF e

-----------------------------------------------------------------------------
(* The inductive invariant                                                 *)

Views == [open : {TRUE}, dead : SUBSET Commands, unverified : SUBSET Commands,
          rows : Sample, ranks : Sample, moved : SUBSET Bound]

(* What a check in progress took for dead is dead, and of the priorities   *)
(* it read the ones still on the board are told from the moved ones.       *)
Informed(k) ==
    view[k].open =>
        /\ \A j \in view[k].dead : life[j] = "gone"
        /\ \A j \in DOMAIN view[k].ranks \ view[k].moved : view[k].ranks[j] = board[j]

(* Beside the types: no ticket that polls alone speak for looks quieter to *)
(* the file than its process is.                                           *)
CpuInd ==
    /\ FileOK(db)
    /\ life \in [Keys -> {"live", "launching", "gone"}]
    /\ board \in [Bound -> Priorities]
    /\ seen \in [Keys -> 0..Horizon]
    /\ view \in [Keys -> {NoView} \cup Views]
    /\ \A k \in Keys : Informed(k)
    /\ \A k \in Keys : life[k] # "gone" => Spoken(db, k, seen[k])

(* The step of PolledKept.                                                 *)
PlaceKept ==
    \A k \in Keys : life[k] # "gone" =>
        /\ k \in db'.unpolled \ db.unpolled => seen[k] > Unpolled
        /\ k \in db.tickets \ db'.tickets => seen'[k] = 0 \/ seen[k] > Abandoned

LEMMA CpuInitially == Init => CpuInd
<1> SUFFICES ASSUME Init PROVE CpuInd
  OBVIOUS
<1> USE DEF Init
<1>1. FileOK(db)
  <2>1. EmptyFile \in File
    BY DEF EmptyFile, File
  <2>2. Line(EmptyFile) /\ Marks(EmptyFile)
    BY DEF EmptyFile, Line, Marks
  <2>3. IsFiniteSet(EmptyFile.tickets)
    BY FS_EmptySet DEF EmptyFile
  <2> QED
    BY <2>1, <2>2, <2>3 DEF FileOK
<1>2. \A k \in Keys : Informed(k)
  BY DEF Informed, NoView
<1>3. \A k \in Keys : Spoken(db, k, seen[k])
  BY DEF Spoken, EmptyFile
<1> QED
  BY <1>1, <1>2, <1>3 DEF CpuInd

(* A transaction of the processes S, and what it means to the others.      *)
LEMMA Transaction ==
    ASSUME CpuInd, FileOK(db'), NEW S, Seen(S),
           \A k \in Keys \ S : life'[k] # "gone" => life[k] # "gone",
           \A k \in Keys \ S : life[k] # "gone" => \A s \in Nat : Kept(db, db', k, s),
           \A k \in Keys \cap S : life'[k] # "gone" => Spoken(db', k, 0),
           \A k \in Keys \cap S : k \in db'.unpolled => k \in db.unpolled
    PROVE  /\ seen' \in [Keys -> 0..Horizon]
           /\ \A k \in Keys : life'[k] # "gone" => Spoken(db', k, seen'[k])
           /\ PlaceKept
<1>1. seen \in [Keys -> 0..Horizon]
  BY DEF CpuInd
<1>2. /\ \A k \in Keys \cap S : seen'[k] = 0
      /\ \A k \in Keys \ S : seen'[k] = seen[k] /\ seen[k] \in Nat
  BY <1>1 DEF Seen, Put
<1>3. seen' \in [Keys -> 0..Horizon]
  BY <1>1, PutTyped DEF Seen
<1>4. \A k \in Keys : life'[k] # "gone" => Spoken(db', k, seen'[k])
  BY <1>2 DEF Kept, CpuInd
<1>5. PlaceKept
  BY <1>2 DEF Kept, CpuInd, PlaceKept
<1> QED
  BY <1>3, <1>4, <1>5

(* Closing a view, or keeping it, informs nobody wrongly while the dead    *)
(* stay dead.                                                              *)
LEMMA StillInformed ==
    ASSUME CpuInd, board' = board,
           \A k \in Keys : life[k] = "gone" => life'[k] = "gone",
           \A k \in Keys : view'[k] = view[k] \/ view'[k] = NoView
    PROVE  \A k \in Keys : Informed(k)'
<1> SUFFICES ASSUME NEW k \in Keys, view'[k].open
             PROVE  /\ \A j \in view'[k].dead : life'[j] = "gone"
                    /\ \A j \in DOMAIN view'[k].ranks \ view'[k].moved :
                          view'[k].ranks[j] = board'[j]
  BY DEF Informed
<1>1. view'[k] = view[k]
  BY DEF NoView
<1>2. view[k] \in Views
  BY <1>1 DEF CpuInd, NoView
<1>3. Informed(k)
  BY DEF CpuInd
<1> QED
  BY <1>1, <1>2, <1>3 DEF Informed, Views, Keys

LEMMA CheckStep ==
    ASSUME CpuInd, NEW k \in Keys, NEW allows \in BOOLEAN, NEW consume \in BOOLEAN,
           Check(k, allows, consume)
    PROVE  CpuInd' /\ PlaceKept
<1> DEFINE v == view[k]
           p == Polled(db, k, v)
           fresh == \A j \in Sampled(p) : Fresh(p, k, v, j)
           d == IF fresh THEN Ranked(p, v) ELSE p
<1>1. v \in Views /\ Informed(k) /\ v.open
  BY DEF CpuInd, Check, NoView
<1>2. /\ FileOK(p)
      /\ k \in p.tickets /\ Quiet(p, k) = 0 /\ k \notin p.unpolled
      /\ \A j \in Keys \ {k} : j \notin v.dead => \A s \in Nat : Kept(db, p, j, s)
  <2>1. FileOK(db)
    BY DEF CpuInd
  <2> HIDE DEF v
  <2> QED
    BY <2>1, PolledFile
<1>3. \/ db' = Consumed(d, k) /\ life' = [life EXCEPT ![k] = IF @ = "live" THEN "launching" ELSE @]
      \/ db' = d /\ life' = life
  BY DEF Check
<1>4. view' = [view EXCEPT ![k] = NoView] /\ Seen({k}) /\ board' = board
  BY DEF Check
<1> HIDE DEF p
<1>5. /\ FileOK(d)
      /\ k \in d.tickets /\ Quiet(d, k) = 0 /\ k \notin d.unpolled
      /\ \A j \in Keys \ {k} : j \notin v.dead => \A s \in Nat : Kept(db, d, j, s)
  <2>1. CASE fresh
    <3> DEFINE r == Ranked(p, v)
    <3>0. v.ranks \in Sample
      BY <1>1 DEF Views
    <3> HIDE DEF v
    <3>1. /\ FileOK(r)
          /\ k \in r.tickets /\ Quiet(r, k) = 0 /\ k \notin r.unpolled
          /\ \A j \in Keys : \A s \in Nat : Kept(p, r, j, s)
      BY <1>2, <3>0, RankedFile
    <3> HIDE DEF r
    <3>2. \A j \in Keys \ {k} : j \notin v.dead => \A s \in Nat : Kept(db, r, j, s)
      BY <1>2, <3>1, InTurn
    <3>3. d = r
      BY <2>1 DEF r
    <3> HIDE DEF d
    <3> QED
      BY <3>1, <3>2, <3>3
  <2>2. CASE ~fresh
    <3>1. d = p
      BY <2>2
    <3> HIDE DEF d
    <3> QED
      BY <1>2, <3>1
  <2> QED
    BY <2>1, <2>2
<1> HIDE DEF d, v
<1>6. /\ FileOK(db')
      /\ Spoken(db', k, 0) /\ k \notin db'.unpolled
      /\ \A j \in Keys \ {k} : j \notin v.dead => \A s \in Nat : Kept(db, db', j, s)
  <2>1. CASE db' = Consumed(d, k)
    <3> DEFINE e == Consumed(d, k)
    <3>1. /\ FileOK(e)
          /\ Spoken(e, k, 0) /\ k \notin e.unpolled
          /\ \A j \in Keys \ {k} : \A s \in Nat : Kept(d, e, j, s)
      BY <1>5, ConsumedFile
    <3> HIDE DEF e
    <3>2. \A j \in Keys \ {k} : j \notin v.dead => \A s \in Nat : Kept(db, e, j, s)
      BY <1>5, <3>1, InTurn
    <3> QED
      BY <2>1, <3>1, <3>2 DEF e
  <2>2. CASE db' = d
    BY <1>5, <2>2 DEF Spoken
  <2> QED
    BY <1>3, <2>1, <2>2
<1>7. /\ life' \in [Keys -> {"live", "launching", "gone"}]
      /\ \A j \in Keys : life'[j] = "gone" <=> life[j] = "gone"
  BY <1>3 DEF CpuInd
<1>8. \A j \in Keys : life[j] # "gone" => j \notin v.dead
  BY <1>1 DEF Informed, v
<1>9. \A j \in Keys \ {k} : life[j] # "gone" => \A s \in Nat : Kept(db, db', j, s)
  BY <1>6, <1>8
<1>10. /\ seen' \in [Keys -> 0..Horizon]
       /\ \A j \in Keys : life'[j] # "gone" => Spoken(db', j, seen'[j])
       /\ PlaceKept
  BY <1>4, <1>6, <1>7, <1>9, Transaction
<1>11. /\ view' \in [Keys -> {NoView} \cup Views]
       /\ \A j \in Keys : view'[j] = view[j] \/ view'[j] = NoView
  BY <1>4 DEF CpuInd
<1>12. \A j \in Keys : Informed(j)'
  BY <1>4, <1>7, <1>11, StillInformed
<1> QED
  BY <1>4, <1>6, <1>7, <1>10, <1>11, <1>12 DEF CpuInd

LEMMA LegacyCheckStep ==
    ASSUME CpuInd, NEW k \in Keys, NEW allows \in BOOLEAN, LegacyCheck(k, allows)
    PROVE  CpuInd' /\ PlaceKept
<1> PICK probe \in Probes(db) :
        LET d == LegacyPolled(db, k, probe.dead) IN
        IF Admits(d, k, allows)
        THEN db' = Consumed(d, k) /\ life' = [life EXCEPT ![k] = "launching"]
        ELSE db' = d /\ life' = life
  BY DEF LegacyCheck
<1> DEFINE d == LegacyPolled(db, k, probe.dead)
<1>1. \A j \in probe.dead : life[j] = "gone"
  BY DEF Probes, Dead
<1>2. /\ FileOK(d)
      /\ k \in d.tickets /\ Quiet(d, k) = 0 /\ k \notin d.unpolled
      /\ \A j \in Keys \ {k} : j \notin probe.dead => \A s \in Nat : Kept(db, d, j, s)
  <2>1. FileOK(db)
    BY DEF CpuInd
  <2> QED
    BY <2>1, LegacyPolledFile
<1>3. \/ db' = Consumed(d, k) /\ life' = [life EXCEPT ![k] = "launching"]
      \/ db' = d /\ life' = life
  OBVIOUS
<1>4. view' = view /\ board' = board /\ Seen({k}) /\ life[k] = "live"
  BY DEF LegacyCheck
<1> HIDE DEF d
<1>5. /\ FileOK(db')
      /\ Spoken(db', k, 0) /\ k \notin db'.unpolled
      /\ \A j \in Keys \ {k} : j \notin probe.dead => \A s \in Nat : Kept(db, db', j, s)
  <2>1. CASE db' = Consumed(d, k)
    <3> DEFINE e == Consumed(d, k)
    <3>1. /\ FileOK(e)
          /\ Spoken(e, k, 0) /\ k \notin e.unpolled
          /\ \A j \in Keys \ {k} : \A s \in Nat : Kept(d, e, j, s)
      BY <1>2, ConsumedFile
    <3> HIDE DEF e
    <3>2. \A j \in Keys \ {k} : j \notin probe.dead => \A s \in Nat : Kept(db, e, j, s)
      BY <1>2, <3>1, InTurn
    <3> QED
      BY <2>1, <3>1, <3>2 DEF e
  <2>2. CASE db' = d
    BY <1>2, <2>2 DEF Spoken
  <2> QED
    BY <1>3, <2>1, <2>2
<1>6. /\ life' \in [Keys -> {"live", "launching", "gone"}]
      /\ \A j \in Keys : life'[j] = "gone" <=> life[j] = "gone"
  BY <1>3, <1>4 DEF CpuInd
<1>7. \A j \in Keys \ {k} : life[j] # "gone" => \A s \in Nat : Kept(db, db', j, s)
  BY <1>1, <1>5
<1>8. /\ seen' \in [Keys -> 0..Horizon]
      /\ \A j \in Keys : life'[j] # "gone" => Spoken(db', j, seen'[j])
      /\ PlaceKept
  BY <1>4, <1>5, <1>6, <1>7, Transaction
<1>9. \A j \in Keys : Informed(j)'
  BY <1>4, <1>6, StillInformed
<1> QED
  BY <1>4, <1>5, <1>6, <1>8, <1>9 DEF CpuInd

LEMMA CancelStep ==
    ASSUME CpuInd, NEW k \in Keys, Cancel(k)
    PROVE  CpuInd' /\ PlaceKept
<1>1. /\ db' = Cancelled(db, {k}) /\ life' = [life EXCEPT ![k] = "gone"]
      /\ view' = view /\ board' = board /\ Seen({k})
  BY DEF Cancel
<1>2. FileOK(db)
  BY DEF CpuInd
<1>3. FileOK(db')
  BY <1>1, <1>2, CancelledOK
<1>4. \A j \in Keys \ {k} : \A s \in Nat : Kept(db, db', j, s)
  BY <1>1, <1>2, CancelledTicket
<1>5. k \notin db'.tickets /\ k \notin db'.unpolled
  BY <1>1, <1>2, CancelledFields DEF FileOK
<1>6. /\ life' \in [Keys -> {"live", "launching", "gone"}]
      /\ \A j \in Keys : life[j] = "gone" => life'[j] = "gone"
      /\ \A j \in Keys \ {k} : life'[j] = life[j]
  BY <1>1 DEF CpuInd
<1>7. /\ seen' \in [Keys -> 0..Horizon]
      /\ \A j \in Keys : life'[j] # "gone" => Spoken(db', j, seen'[j])
      /\ PlaceKept
  BY <1>1, <1>3, <1>4, <1>5, <1>6, Transaction DEF Spoken
<1>8. \A j \in Keys : Informed(j)'
  BY <1>1, <1>6, StillInformed
<1> QED
  BY <1>1, <1>3, <1>6, <1>7, <1>8 DEF CpuInd

LEMMA SuspendStep ==
    ASSUME CpuInd, NEW k \in Keys, Suspend(k)
    PROVE  CpuInd' /\ PlaceKept
<1> DEFINE d == Held(db, {k})
           e == Touched(d, {k})
<1>1. /\ db' = (IF k \in Legacy THEN d ELSE e)
      /\ k \in Stages
      /\ life' = life /\ view' = view /\ board' = board /\ Seen({k})
  BY DEF Suspend
<1>2. FileOK(db) /\ db \in File
  BY DEF CpuInd, FileOK
<1>3. FileOK(d) /\ \A j \in Keys : \A s \in Nat : Kept(db, d, j, s)
  BY <1>2, HeldOK, HeldTicket
<1>4. /\ d.tickets = db.tickets
      /\ d.suspended = db.suspended \cup ({k} \cap db.tickets \cap Stages)
      /\ d.unpolled = db.unpolled \ ({k} \cap db.tickets \cap Stages)
  BY <1>2, HeldFields
<1>5. Spoken(d, k, 0)
  BY <1>1, <1>4 DEF Spoken
<1> HIDE DEF d
<1>6. /\ FileOK(e) /\ e.unpolled = d.unpolled
      /\ \A j \in Keys : \A s \in Nat : Kept(d, e, j, s)
  BY <1>3, TouchedOK, TouchedFields, TouchedTicket DEF FileOK
<1> HIDE DEF e
<1>7. /\ FileOK(db') /\ Spoken(db', k, 0)
      /\ k \in db'.unpolled => k \in db.unpolled
      /\ \A j \in Keys : \A s \in Nat : Kept(db, db', j, s)
  <2>1. CASE k \in Legacy
    BY <1>1, <1>3, <1>4, <1>5, <2>1
  <2>2. CASE k \notin Legacy
    <3>1. Spoken(e, k, 0)
      BY <1>5, <1>6, 0 \in Nat DEF Kept
    <3>2. \A j \in Keys : \A s \in Nat : Kept(db, e, j, s)
      BY <1>3, <1>6, InTurn
    <3> QED
      BY <1>1, <1>4, <1>6, <2>2, <3>1, <3>2
  <2> QED
    BY <2>1, <2>2
<1>8. /\ seen' \in [Keys -> 0..Horizon]
      /\ \A j \in Keys : life'[j] # "gone" => Spoken(db', j, seen'[j])
      /\ PlaceKept
  BY <1>1, <1>7, Transaction
<1>9. \A j \in Keys : Informed(j)'
  BY <1>1, StillInformed
<1> QED
  BY <1>1, <1>7, <1>8, <1>9 DEF CpuInd

LEMMA ReconcileStep ==
    ASSUME CpuInd, NEW own \in SUBSET Stages, NEW eligible \in SUBSET own,
           Reconcile(own, eligible)
    PROVE  CpuInd' /\ PlaceKept
<1> DEFINE active == {k \in own : life[k] # "gone"}
           moved == ((active \ eligible) \cap db.tickets)
                    \cup ((eligible \cap db.suspended) \ db.unpolled)
           d == Reconciled(db, own, active, eligible)
           e == Touched(d, moved)
<1>1. /\ db' = (IF own \subseteq Legacy THEN d ELSE e)
      /\ eligible \subseteq active
      /\ life' = life /\ view' = view /\ board' = board /\ Seen(moved)
  BY DEF Reconcile
<1>2. FileOK(db)
  BY DEF CpuInd
<1>3. active \in SUBSET own /\ \A k \in own \ active : life[k] = "gone"
  OBVIOUS
<1> HIDE DEF active
<1>4. /\ FileOK(d)
      /\ \A j \in Keys \ (own \ active) : \A s \in Nat : Kept(db, d, j, s)
      /\ \A j \in moved : Spoken(d, j, 0)
      /\ d.unpolled \subseteq db.unpolled
  BY <1>1, <1>2, <1>3, ReconciledFile
<1> HIDE DEF d, moved
<1>5. /\ FileOK(e) /\ e.unpolled = d.unpolled
      /\ \A j \in Keys : \A s \in Nat : Kept(d, e, j, s)
  BY <1>4, TouchedOK, TouchedFields, TouchedTicket DEF FileOK
<1> HIDE DEF e
<1>6. /\ FileOK(db')
      /\ db'.unpolled \subseteq db.unpolled
      /\ \A j \in Keys \cap moved : Spoken(db', j, 0)
      /\ \A j \in Keys : life[j] # "gone" => \A s \in Nat : Kept(db, db', j, s)
  <2>1. CASE own \subseteq Legacy
    BY <1>1, <1>3, <1>4, <2>1
  <2>2. CASE ~(own \subseteq Legacy)
    <3>1. db' = e
      BY <1>1, <2>2
    <3>2. \A j \in Keys \cap moved : Spoken(e, j, 0)
      BY <1>4, <1>5, 0 \in Nat DEF Kept
    <3>3. \A j \in Keys : life[j] # "gone" => \A s \in Nat : Kept(db, e, j, s)
      BY <1>3, <1>4, <1>5, InTurn
    <3> QED
      BY <1>4, <1>5, <3>1, <3>2, <3>3
  <2> QED
    BY <2>1, <2>2
<1>7. /\ seen' \in [Keys -> 0..Horizon]
      /\ \A j \in Keys : life'[j] # "gone" => Spoken(db', j, seen'[j])
      /\ PlaceKept
  BY <1>1, <1>6, Transaction
<1>8. \A j \in Keys : Informed(j)'
  BY <1>1, StillInformed
<1> QED
  BY <1>1, <1>6, <1>7, <1>8 DEF CpuInd

LEMMA ObserveStep ==
    ASSUME CpuInd, NEW k \in Keys, Observe(k)
    PROVE  CpuInd' /\ PlaceKept
<1> PICK probe \in Probes(db) :
        LET rows == {j \in db.tickets \cap Bound :
                        j \in Counted(db) \/ j = k}
            silent == {j \in rows \ {k} : Quiet(db, j) > Unpolled
                                          /\ j \in Stages \cup probe.unverified}
            ranked == (rows \ (probe.dead \cup silent)) \cup ({k} \cap Bound)
        IN  view' = [view EXCEPT ![k] =
               [open |-> TRUE, dead |-> probe.dead, unverified |-> probe.unverified,
                rows |-> [j \in rows |-> db.rank[j]],
                ranks |-> [j \in ranked |-> board[j]],
                moved |-> {}]]
  BY DEF Observe
<1> DEFINE rows == {j \in db.tickets \cap Bound : j \in Counted(db) \/ j = k}
           silent == {j \in rows \ {k} : Quiet(db, j) > Unpolled
                                         /\ j \in Stages \cup probe.unverified}
           ranked == (rows \ (probe.dead \cup silent)) \cup ({k} \cap Bound)
           r == [j \in rows |-> db.rank[j]]
           s == [j \in ranked |-> board[j]]
           v == [open |-> TRUE, dead |-> probe.dead, unverified |-> probe.unverified,
                 rows |-> r, ranks |-> s, moved |-> {}]
<1>1. view' = [view EXCEPT ![k] = v]
  OBVIOUS
<1>2. db' = db /\ life' = life /\ board' = board /\ seen' = seen
  BY DEF Observe
<1>3. /\ probe.dead \in SUBSET Commands /\ probe.unverified \in SUBSET Commands
      /\ \A j \in probe.dead : life[j] = "gone"
  BY DEF Probes, Dead, Owned
<1>4. rows \in SUBSET Bound /\ ranked \in SUBSET Bound
  OBVIOUS
<1>5. r \in [rows -> 0..2] /\ s \in [ranked -> 0..2]
  <2>1. db \in File
    BY DEF CpuInd, FileOK
  <2>2. \A j \in Bound : db.rank[j] \in 0..2
    BY <2>1, FileFields
  <2>3. \A j \in Bound : board[j] \in 0..2
    BY DEF CpuInd
  <2> HIDE DEF rows, ranked
  <2> QED
    BY <1>4, <2>2, <2>3
<1>6. \A j \in ranked : s[j] = board[j]
  OBVIOUS
<1>7. DOMAIN s = ranked
  OBVIOUS
<1> HIDE DEF rows, silent, ranked, r, s
<1>8. r \in Sample /\ s \in Sample
  BY <1>4, <1>5 DEF Sample
<1>9. /\ v \in Views
      /\ v.dead = probe.dead /\ v.ranks = s
  BY <1>3, <1>8 DEF Views
<1> HIDE DEF v
<1>10. view' \in [Keys -> {NoView} \cup Views]
  BY <1>1, <1>9 DEF CpuInd
<1>11. \A j \in Keys : Informed(j)'
  <2> SUFFICES ASSUME NEW j \in Keys PROVE Informed(j)'
    OBVIOUS
  <2>1. CASE j = k
    <3>1. view'[j] = v
      BY <1>1, <2>1 DEF CpuInd
    <3> QED
      BY <1>2, <1>3, <1>6, <1>7, <1>9, <3>1 DEF Informed
  <2>2. CASE j # k
    <3>1. view'[j] = view[j] /\ Informed(j)
      BY <1>1, <2>2 DEF CpuInd
    <3> QED
      BY <1>2, <3>1 DEF Informed
  <2> QED
    BY <2>1, <2>2
<1> QED
  BY <1>2, <1>10, <1>11 DEF CpuInd, PlaceKept, Spoken, Quiet

LEMMA EndStep ==
    ASSUME CpuInd, NEW k \in Keys, End(k)
    PROVE  CpuInd' /\ PlaceKept
<1>1. /\ life' = [life EXCEPT ![k] = "gone"]
      /\ view' = (IF k \in Gates THEN view ELSE [view EXCEPT ![k] = NoView])
      /\ db' = db /\ board' = board /\ seen' = seen
  BY DEF End
<1>2. /\ life' \in [Keys -> {"live", "launching", "gone"}]
      /\ \A j \in Keys : life[j] = "gone" => life'[j] = "gone"
  BY <1>1 DEF CpuInd
<1>3. /\ view' \in [Keys -> {NoView} \cup Views]
      /\ \A j \in Keys : view'[j] = view[j] \/ view'[j] = NoView
  BY <1>1 DEF CpuInd
<1>4. \A j \in Keys : Informed(j)'
  BY <1>1, <1>2, <1>3, StillInformed
<1> QED
  BY <1>1, <1>2, <1>3, <1>4 DEF CpuInd, PlaceKept, Spoken, Quiet

LEMMA CrashStep ==
    ASSUME CpuInd, NEW k \in Keys, Crash(k)
    PROVE  CpuInd' /\ PlaceKept
<1>1. /\ life' = [life EXCEPT ![k] = "live"]
      /\ life[k] # "gone"
      /\ view' = [view EXCEPT ![k] = NoView]
      /\ db' = db /\ board' = board /\ seen' = seen
  BY DEF Crash
<1>2. /\ life' \in [Keys -> {"live", "launching", "gone"}]
      /\ \A j \in Keys : life[j] = "gone" <=> life'[j] = "gone"
  BY <1>1 DEF CpuInd
<1>3. /\ view' \in [Keys -> {NoView} \cup Views]
      /\ \A j \in Keys : view'[j] = view[j] \/ view'[j] = NoView
  BY <1>1 DEF CpuInd
<1>4. \A j \in Keys : Informed(j)'
  BY <1>1, <1>2, <1>3, StillInformed
<1> QED
  BY <1>1, <1>2, <1>3, <1>4 DEF CpuInd, PlaceKept, Spoken, Quiet

(* A key that comes back is off the lists of the dead.                     *)
LEMMA RenewStep ==
    ASSUME CpuInd, NEW k \in Keys, Renew(k)
    PROVE  CpuInd' /\ PlaceKept
<1>1. /\ life' = [life EXCEPT ![k] = "live"]
      /\ k \notin db.tickets
      /\ view' = [j \in Keys |->
            IF view[j].open THEN [view[j] EXCEPT !.dead = @ \ {k}] ELSE NoView]
      /\ db' = db /\ board' = board /\ seen' = seen
  BY DEF Renew
<1>2. /\ life' \in [Keys -> {"live", "launching", "gone"}]
      /\ \A j \in Keys \ {k} : life'[j] = life[j]
  BY <1>1 DEF CpuInd
<1>3. ASSUME NEW j \in Keys
      PROVE  view'[j] \in {NoView} \cup Views /\ Informed(j)'
  <2>1. CASE view[j].open
    <3>1. view[j] \in Views
      BY <2>1 DEF CpuInd, NoView
    <3> DEFINE v == [view[j] EXCEPT !.dead = @ \ {k}]
    <3>2. /\ v \in Views
          /\ v.dead = view[j].dead \ {k} /\ v.ranks = view[j].ranks /\ v.moved = view[j].moved
      BY <3>1 DEF Views
    <3>3. view'[j] = v
      BY <1>1, <2>1
    <3> HIDE DEF v
    <3>4. view[j].dead \subseteq Keys
      BY <3>1 DEF Views, Keys
    <3>5. /\ \A i \in view[j].dead : life[i] = "gone"
          /\ \A i \in DOMAIN view[j].ranks \ view[j].moved : view[j].ranks[i] = board[i]
      BY <2>1 DEF CpuInd, Informed
    <3>6. \A i \in v.dead : life'[i] = "gone"
      BY <1>2, <3>2, <3>4, <3>5
    <3>7. \A i \in DOMAIN v.ranks \ v.moved : v.ranks[i] = board'[i]
      BY <1>1, <3>2, <3>5
    <3> QED
      BY <3>2, <3>3, <3>6, <3>7 DEF Informed
  <2>2. CASE ~view[j].open
    <3>1. view'[j] = NoView
      BY <1>1, <2>2
    <3> QED
      BY <3>1 DEF Informed, NoView
  <2> QED
    BY <2>1, <2>2
<1>4. view' \in [Keys -> {NoView} \cup Views]
  BY <1>1, <1>3
<1>5. \A j \in Keys : life'[j] # "gone" => Spoken(db', j, seen'[j])
  BY <1>1, <1>2 DEF CpuInd, Spoken, Quiet
<1> QED
  BY <1>1, <1>2, <1>3, <1>4, <1>5 DEF CpuInd, PlaceKept

(* A priority that changes is one that every check in progress lists.      *)
LEMMA ReprioritiseStep ==
    ASSUME CpuInd, NEW k \in Keys, NEW priority \in Priorities, Reprioritise(k, priority)
    PROVE  CpuInd' /\ PlaceKept
<1>1. /\ board' = [board EXCEPT ![k] = priority]
      /\ k \in Bound
      /\ view' = [j \in Keys |->
            IF view[j].open THEN [view[j] EXCEPT !.moved = @ \cup {k}] ELSE NoView]
      /\ db' = db /\ life' = life /\ seen' = seen
  BY DEF Reprioritise
<1>2. board' \in [Bound -> Priorities] /\ \A j \in Bound \ {k} : board'[j] = board[j]
  BY <1>1 DEF CpuInd
<1>3. ASSUME NEW j \in Keys
      PROVE  view'[j] \in {NoView} \cup Views /\ Informed(j)'
  <2>1. CASE view[j].open
    <3>1. view[j] \in Views
      BY <2>1 DEF CpuInd, NoView
    <3> DEFINE v == [view[j] EXCEPT !.moved = @ \cup {k}]
    <3>2. /\ v \in Views
          /\ v.dead = view[j].dead /\ v.ranks = view[j].ranks
          /\ v.moved = view[j].moved \cup {k}
      BY <1>1, <3>1 DEF Views
    <3>3. view'[j] = v
      BY <1>1, <2>1
    <3> HIDE DEF v
    <3>4. DOMAIN view[j].ranks \subseteq Bound
      BY <3>1 DEF Views, Sample
    <3>5. /\ \A i \in view[j].dead : life[i] = "gone"
          /\ \A i \in DOMAIN view[j].ranks \ view[j].moved : view[j].ranks[i] = board[i]
      BY <2>1 DEF CpuInd, Informed
    <3>6. \A i \in v.dead : life'[i] = "gone"
      BY <1>1, <3>2, <3>5
    <3>7. \A i \in DOMAIN v.ranks \ v.moved : v.ranks[i] = board'[i]
      BY <1>2, <3>2, <3>4, <3>5
    <3> QED
      BY <3>2, <3>3, <3>6, <3>7 DEF Informed
  <2>2. CASE ~view[j].open
    <3>1. view'[j] = NoView
      BY <1>1, <2>2
    <3> QED
      BY <3>1 DEF Informed, NoView
  <2> QED
    BY <2>1, <2>2
<1>4. view' \in [Keys -> {NoView} \cup Views]
  BY <1>1, <1>3
<1> QED
  BY <1>1, <1>2, <1>3, <1>4 DEF CpuInd, PlaceKept, Spoken, Quiet

(* The file and the processes age together.                                *)
LEMMA TickStep ==
    ASSUME CpuInd, Tick
    PROVE  CpuInd' /\ PlaceKept
<1>1. /\ db' = Ticked(db)
      /\ seen' = [k \in Keys |->
            IF k \in db.tickets /\ life[k] # "gone" THEN Older(seen[k]) ELSE 0]
      /\ life' = life /\ view' = view /\ board' = board
  BY DEF Tick, Ticked
<1>2. /\ FileOK(db')
      /\ db'.tickets = db.tickets /\ db'.unpolled = db.unpolled
      /\ \A k \in db.tickets : \A s \in 0..Horizon :
            Spoken(db, k, s) => Spoken(db', k, Older(s))
  BY <1>1, TickedFile DEF CpuInd
<1>3. seen' \in [Keys -> 0..Horizon]
  BY <1>1, OlderType DEF CpuInd
<1>4. ASSUME NEW k \in Keys, life'[k] # "gone"
      PROVE  Spoken(db', k, seen'[k])
  <2>1. CASE k \in db.tickets
    <3>1. seen'[k] = Older(seen[k]) /\ seen[k] \in 0..Horizon
      BY <1>1, <1>4, <2>1 DEF CpuInd
    <3> QED
      BY <1>1, <1>2, <1>4, <2>1, <3>1 DEF CpuInd
  <2>2. CASE k \notin db.tickets
    BY <1>2, <2>2 DEF Spoken
  <2> QED
    BY <2>1, <2>2
<1>5. \A k \in Keys : Informed(k)'
  BY <1>1, StillInformed
<1>6. PlaceKept
  BY <1>2 DEF PlaceKept
<1> QED
  BY <1>1, <1>2, <1>3, <1>4, <1>5, <1>6 DEF CpuInd

LEMMA CpuStep == CpuInd /\ [Next]_vars => CpuInd' /\ PlaceKept
<1> SUFFICES ASSUME CpuInd, [Next]_vars PROVE CpuInd' /\ PlaceKept
  OBVIOUS
<1>1. ASSUME NEW k \in Keys, Observe(k) PROVE CpuInd' /\ PlaceKept
  BY <1>1, ObserveStep
<1>2. ASSUME NEW k \in Keys, CheckAny(k) PROVE CpuInd' /\ PlaceKept
  BY <1>2, CheckStep DEF CheckAny
<1>3. ASSUME NEW k \in Keys, Cancel(k) PROVE CpuInd' /\ PlaceKept
  BY <1>3, CancelStep
<1>4. ASSUME NEW k \in Keys, Suspend(k) PROVE CpuInd' /\ PlaceKept
  BY <1>4, SuspendStep
<1>5. ASSUME NEW k \in Keys, NEW allows \in BOOLEAN, LegacyCheck(k, allows)
      PROVE  CpuInd' /\ PlaceKept
  BY <1>5, LegacyCheckStep
<1>6. ASSUME NEW k \in Keys, End(k) PROVE CpuInd' /\ PlaceKept
  BY <1>6, EndStep
<1>7. ASSUME NEW k \in Keys, Crash(k) PROVE CpuInd' /\ PlaceKept
  BY <1>7, CrashStep
<1>8. ASSUME NEW k \in Keys, Renew(k) PROVE CpuInd' /\ PlaceKept
  BY <1>8, RenewStep
<1>9. ASSUME NEW k \in Keys, NEW priority \in Priorities, Reprioritise(k, priority)
      PROVE  CpuInd' /\ PlaceKept
  BY <1>9, ReprioritiseStep
<1>10. ASSUME ReconcileAny PROVE CpuInd' /\ PlaceKept
  <2>1. PICK own \in {Stages \cap Legacy, Stages \ Legacy} :
          \E eligible \in SUBSET own : Reconcile(own, eligible)
    BY <1>10 DEF ReconcileAny
  <2>2. own \in SUBSET Stages
    OBVIOUS
  <2> QED
    BY <2>1, <2>2, ReconcileStep
<1>11. ASSUME Tick PROVE CpuInd' /\ PlaceKept
  BY <1>11, TickStep
<1>12. ASSUME UNCHANGED vars PROVE CpuInd' /\ PlaceKept
  <2>1. db' = db /\ life' = life /\ view' = view /\ board' = board /\ seen' = seen
    BY <1>12 DEF vars
  <2> QED
    BY <2>1 DEF CpuInd, PlaceKept, Informed, Spoken, Quiet
<1> QED
  BY <1>1, <1>2, <1>3, <1>4, <1>5, <1>6, <1>7, <1>8, <1>9, <1>10, <1>11, <1>12 DEF Next

(* The inductive invariant of the file of cpuAdmission.ts, of the          *)
(* processes it knows of and of the checks in progress.                    *)
THEOREM CpuInvariant == Spec => []CpuInd
<1>1. Init => CpuInd
  BY CpuInitially
<1>2. CpuInd /\ [Next]_vars => CpuInd'
  BY CpuStep
<1> QED
  BY <1>1, <1>2, PTL DEF Spec

(* The tickets always stand in one line; held and launched are those of    *)
(* stages alone, and no mark of a ticket outlives it (the triggers of      *)
(* cpuAdmission.ts).                                                       *)
THEOREM CpuTypes == Spec => []TypeOK
<1>1. CpuInd => TypeOK
  BY DEF CpuInd, FileOK, Line, Marks, TypeOK
<1> QED
  BY <1>1, CpuInvariant, PTL

(* A process that keeps polling is passed over only after the short bound  *)
(* of silence and forgotten only after the long one, whoever else checks,  *)
(* with whatever probe, in either release.                                 *)
THEOREM CpuPolledKept == Spec => PolledKept
<1>1. CpuInd /\ [Next]_vars => PlaceKept
  BY CpuStep
<1> QED
  BY <1>1, CpuInvariant, PTL DEF Spec, PolledKept, PlaceKept

-----------------------------------------------------------------------------
(* Admissions                                                              *)

(* Of the keys of the current release, only the answer to its own check    *)
(* starts one.                                                             *)
LEMMA OnlyChecksLaunch ==
    ASSUME CpuInd, Next, NEW k \in Keys \ Legacy, Launches(k)
    PROVE  \E allows \in BOOLEAN : Check(k, allows, TRUE)
<1> USE DEF Launches
<1>0. life \in [Keys -> {"live", "launching", "gone"}]
  BY DEF CpuInd
<1>1. ASSUME NEW j \in Keys, NEW allows \in BOOLEAN, NEW consume \in BOOLEAN,
             Check(j, allows, consume), j # k \/ consume = FALSE
      PROVE  FALSE
  BY <1>0, <1>1 DEF Check
<1>2. ASSUME NEW j \in Keys, NEW allows \in BOOLEAN, LegacyCheck(j, allows) PROVE FALSE
  BY <1>0, <1>2 DEF LegacyCheck
<1>3. ASSUME NEW j \in Keys, Cancel(j) \/ End(j) \/ Crash(j) \/ Renew(j) PROVE FALSE
  BY <1>0, <1>3 DEF Cancel, End, Crash, Renew
<1>4. ASSUME NEW j \in Keys, Observe(j) \/ Suspend(j) PROVE FALSE
  BY <1>4 DEF Observe, Suspend
<1>5. ASSUME NEW j \in Keys, NEW priority \in Priorities, Reprioritise(j, priority) PROVE FALSE
  BY <1>5 DEF Reprioritise
<1>6. ASSUME ReconcileAny \/ Tick PROVE FALSE
  BY <1>6 DEF ReconcileAny, Reconcile, Tick
<1>7. ASSUME NEW j \in Keys, CheckAny(j)
      PROVE  \E allows \in BOOLEAN : Check(k, allows, TRUE)
  <2>1. CASE \E allows \in BOOLEAN : Check(j, allows, TRUE)
    <3>1. PICK allows \in BOOLEAN : Check(j, allows, TRUE)
      BY <2>1
    <3>2. j = k
      BY <1>1, <3>1
    <3> QED
      BY <3>1, <3>2
  <2>2. CASE Check(j, TRUE, FALSE)
    BY <1>1, <2>2
  <2> QED
    BY <1>7, <2>1, <2>2 DEF CheckAny
<1> QED
  BY <1>2, <1>3, <1>4, <1>5, <1>6, <1>7 DEF Next

LEMMA ClassType ==
    ASSUME NEW d \in File, NEW k \in Keys
    PROVE  /\ Class(d, k) \in 0..2 /\ Class(d, k) <= d.rank[k]
           /\ k \in Legacy => Class(d, k) = d.rank[k]
<1>1. d.age[k] \in Nat /\ d.rank[k] \in 0..2 /\ MaxWait \in Nat \ {0}
  BY FileFields
<1>2. d.age[k] \div MaxWait \in Nat
  BY <1>1
<1> QED
  BY <1>1, <1>2 DEF Class, Aged

LEMMA AheadFirst ==
    ASSUME NEW d, FileOK(d), NEW k \in Keys \ Legacy, Ahead(d, k) = {k}
    PROVE  /\ k \in Counted(d)
           /\ \A j \in (Counted(d) \cap Lane(k)) \ {k} :
                 (AtBound(d, k) => j \notin Gates) =>
                     /\ ~(Class(d, j) < Class(d, k))
                     /\ Class(d, j) = Class(d, k) => k \in d.earlier[j]
<1> DEFINE class == [j \in Keys |-> Class(d, j)]
           others == {j \in Counted(d) \cap Lane(k) : AtBound(d, k) => j \notin Gates \/ j = k}
<1>1. {j \in others : \/ class[j] < class[k]
                      \/ class[j] = class[k] /\ j \in d.earlier[k] \cup {k}} = {k}
  BY DEF Ahead, AheadOf
<1>2. Counted(d) \subseteq d.tickets /\ d.tickets \subseteq Keys
  BY FileFields DEF Counted, FileOK
<1>3. class \in [Keys -> Int]
  BY ClassType DEF FileOK
<1>4. \A j \in Keys : class[j] = Class(d, j)
  OBVIOUS
<1> HIDE DEF class
<1>5. k \in Counted(d)
  BY <1>1
<1>6. ASSUME NEW j \in (Counted(d) \cap Lane(k)) \ {k}, AtBound(d, k) => j \notin Gates
      PROVE  /\ ~(Class(d, j) < Class(d, k))
             /\ Class(d, j) = Class(d, k) => k \in d.earlier[j]
  <2>1. j \in others /\ j # k /\ j \in Keys
    BY <1>2, <1>6
  <2> HIDE DEF others
  <2>2. ~(class[j] < class[k]) /\ ~(class[j] = class[k] /\ j \in d.earlier[k])
    BY <1>1, <2>1
  <2>4. j \notin d.earlier[k] => k \in d.earlier[j]
    BY <1>2, <1>5, <1>6 DEF FileOK, Line
  <2> QED
    BY <1>4, <2>1, <2>2, <2>4
<1> QED
  BY <1>5, <1>6

LEMMA LaunchStep ==
    ASSUME CpuInd, NEW k \in Keys \ Legacy, NEW allows \in BOOLEAN,
           Check(k, allows, TRUE), Launches(k), NEW j \in Keys
    PROVE  ~Overtakes(k, j)
<1> DEFINE v == view[k]
           p == Polled(db, k, v)
           fresh == \A i \in Sampled(p) : Fresh(p, k, v, i)
           d == Ranked(p, v)
<1>1. v \in Views /\ Informed(k) /\ v.open
  BY DEF CpuInd, Check, NoView
<1>2. fresh /\ Admits(d, k, allows) /\ db' = Consumed(d, k)
  BY DEF Check, Launches
<1>3. k \notin v.dead /\ v.ranks \in Sample
  BY <1>1 DEF Informed, Launches, Views
<1>4. /\ \A i \in Sampled(p) : i \in DOMAIN v.ranks
      /\ \A i \in DOMAIN v.ranks \ v.moved : v.ranks[i] = board[i]
  BY <1>1, <1>2 DEF Fresh, Informed
<1> HIDE DEF v, fresh
<1>5. /\ FileOK(p)
      /\ p.age[k] = db.age[k]
      /\ \A i \in Keys \ {k} : Follows(db, p, i)
  BY <1>3, PolledFile DEF CpuInd
<1> HIDE DEF p
<1>6. /\ FileOK(d)
      /\ d.tickets = p.tickets /\ d.suspended = p.suspended
      /\ d.admitted = p.admitted
      /\ d.age = p.age /\ d.earlier = p.earlier
      /\ \A i \in Sampled(p) \cap DOMAIN v.ranks : d.rank[i] = v.ranks[i]
  BY <1>3, <1>5, RankedFile
<1> HIDE DEF d
<1>7. Counted(d) = Counted(p) /\ Counted(d) \subseteq d.tickets
  BY <1>6 DEF Counted
<1>8. \A i \in Counted(d) \cap Keys :
        d.rank[i] = IF i \in Bound THEN IF i \in v.moved THEN d.rank[i] ELSE board[i] ELSE 1
  BY <1>4, <1>6, <1>7 DEF Sampled, FileOK, Marks
<1>9. Ahead(d, k) = {k}
  BY <1>2 DEF Admits
<1>10. /\ k \in Counted(d)
       /\ \A i \in (Counted(d) \cap Lane(k)) \ {k} :
             (AtBound(d, k) => i \notin Gates) =>
                 /\ ~(Class(d, i) < Class(d, k))
                 /\ Class(d, i) = Class(d, k) => k \in d.earlier[i]
  BY <1>6, <1>9, AheadFirst
<1>11. SUFFICES ASSUME Overtakes(k, j) PROVE FALSE
  OBVIOUS
<1>12. /\ j \in (Counted(d) \cap Lane(k)) \ {k}
       /\ j \notin Legacy /\ j \notin v.moved /\ k \notin v.moved
       /\ AtBound(db, k) => j \notin Gates
       /\ \/ Due(j) < Due(k)
          \/ Due(j) = Due(k) /\ k \notin db.earlier[j]
  <2>1. Counted(db') \subseteq Counted(d)
    BY <1>2, <1>6, <1>7, <1>10, ConsumedFile
  <2>2. Counted(db)' = Counted(db')
    BY DEF Counted
  <2> QED
    BY <1>11, <2>1, <2>2 DEF Overtakes, Steady, v
<1>13. d.age[k] = db.age[k] /\ d.age[j] = db.age[j] /\ d.earlier[j] \subseteq db.earlier[j]
  BY <1>5, <1>6, <1>7, <1>12 DEF Follows
<1>14. AtBound(d, k) = AtBound(db, k)
  BY <1>13 DEF AtBound
<1>15. Class(d, k) = Due(k) /\ Class(d, j) = Due(j)
  BY <1>8, <1>10, <1>12, <1>13 DEF Class, Due
<1> QED
  BY <1>10, <1>12, <1>13, <1>14, <1>15

(* No process starts before another whose turn it is: whatever became      *)
(* stale between the board's answer and the lock, the check that commits   *)
(* ordered the line by the priorities of the board, the waiting times and  *)
(* the arrivals (the check of cpuAdmission.ts).                            *)
THEOREM CpuNoOvertaking == Spec => NoOvertaking
<1>1. ASSUME CpuInd, [Next]_vars, NEW k \in Keys \ Legacy, Launches(k), NEW j \in Keys
      PROVE  ~Overtakes(k, j)
  <2>1. CASE Next
    <3>1. PICK allows \in BOOLEAN : Check(k, allows, TRUE)
      BY <1>1, <2>1, OnlyChecksLaunch
    <3> QED
      BY <1>1, <3>1, LaunchStep
  <2>2. CASE UNCHANGED vars
    BY <1>1, <2>2 DEF vars, Launches
  <2> QED
    BY <1>1, <2>1, <2>2
<1>2. CpuInd /\ [Next]_vars =>
        \A k \in Keys \ Legacy : Launches(k) => \A j \in Keys : ~Overtakes(k, j)
  BY <1>1
<1> QED
  BY <1>2, CpuInvariant, PTL DEF Spec, NoOvertaking

-----------------------------------------------------------------------------
(* Somebody is first                                                       *)

(* Of any tickets, one has none of the others before it.                   *)
LEMMA FirstInLine ==
    ASSUME NEW d, FileOK(d), NEW D \in SUBSET d.tickets, D # {}
    PROVE  \E k \in D : d.earlier[k] \cap D = {}
<1> DEFINE T == d.tickets
           R == StrictSubsetOrdering(T)
           X == {d.earlier[k] : k \in D}
<1>1. IsFiniteSet(T) /\ T \subseteq Keys
  BY FileFields DEF FileOK
<1>2. X \subseteq SUBSET T /\ X # {}
  BY <1>1 DEF FileOK, Line
<1>3. IsWellFoundedOn(R, SUBSET T)
  BY <1>1, FS_StrictSubsetOrderingWellFounded, FS_FiniteSubsetsOfFinite
<1> HIDE DEF R
<1>4. PICK x \in X : \A y \in X : <<y, x>> \notin R
  BY <1>2, <1>3, WFMin
<1>5. PICK k \in D : x = d.earlier[k]
  OBVIOUS
<1>6. ASSUME NEW j \in d.earlier[k] \cap D PROVE FALSE
  <2>1. j \in Keys /\ k \in Keys
    BY <1>1, <1>6
  <2>2. d.earlier[j] \subseteq d.earlier[k] /\ j \notin d.earlier[j]
    BY <1>6, <2>1 DEF FileOK, Line
  <2>3. d.earlier[j] \in X /\ d.earlier[j] \in SUBSET T /\ d.earlier[k] \in SUBSET T
    BY <1>2, <1>5, <1>6
  <2>4. <<d.earlier[j], d.earlier[k]>> \in R
    BY <1>6, <2>2, <2>3 DEF R, StrictSubsetOrdering
  <2> QED
    BY <1>4, <1>5, <2>3, <2>4
<1> QED
  BY <1>6

(* Of any tickets, one comes first by a class and by arrival.              *)
LEMMA FirstByClass ==
    ASSUME NEW d, FileOK(d), NEW D \in SUBSET d.tickets, D # {},
           NEW class \in [Keys -> 0..2]
    PROVE  \E k \in D : \A j \in D : /\ ~(class[j] < class[k])
                                     /\ class[j] = class[k] => j \notin d.earlier[k]
<1> DEFINE Of(n) == {k \in D : class[k] = n}
<1>1. \A k \in D : class[k] \in 0..2
  BY FileFields DEF FileOK
<1>2. PICK n \in 0..2 : Of(n) # {} /\ \A k \in D : ~(class[k] < n)
  <2>1. CASE Of(0) # {}
    BY <1>1, <2>1
  <2>2. CASE Of(0) = {} /\ Of(1) # {}
    BY <1>1, <2>2
  <2>3. CASE Of(0) = {} /\ Of(1) = {}
    <3>1. \A k \in D : class[k] = 2
      BY <1>1, <2>3
    <3> QED
      BY <3>1
  <2> QED
    BY <2>1, <2>2, <2>3
<1>3. PICK k \in Of(n) : d.earlier[k] \cap Of(n) = {}
  BY <1>2, FirstInLine
<1> QED
  BY <1>2, <1>3

LEMMA FirstIsHead ==
    ASSUME FileOK(db),
           NEW D \in SUBSET Counted(db), D # {},
           NEW k \in D,
           \A j \in D : /\ ~(Class(db, j) < Class(db, k))
                        /\ Class(db, j) = Class(db, k) => j \notin db.earlier[k],
           IF k \in Legacy THEN D = Counted(db) ELSE Counted(db) \cap Lane(k) \subseteq D
    PROVE  Ahead(db, k) = {k}
<1>1. db \in File /\ Counted(db) \subseteq Keys
  BY FileFields DEF FileOK, Counted
<1>2. CASE k \in Legacy
  <2> DEFINE A == {j \in Counted(db) : \/ db.rank[j] < db.rank[k]
                                       \/ db.rank[j] = db.rank[k] /\ j \in db.earlier[k] \cup {k}}
  <2>1. Ahead(db, k) = A
    BY <1>2 DEF Ahead, AheadOf
  <2>2. k \in A
    OBVIOUS
  <2>3. ASSUME NEW j \in A, j # k PROVE FALSE
    <3>1. j \in D /\ j \in Keys /\ k \in Keys
      BY <1>1, <1>2, <2>3
    <3>2. /\ Class(db, k) = db.rank[k] /\ Class(db, j) <= db.rank[j]
          /\ Class(db, k) \in 0..2 /\ Class(db, j) \in 0..2
      BY <1>1, <1>2, <3>1, ClassType
    <3>3. db.rank[j] \in 0..2
      BY <1>1, <3>1, FileFields
    <3> QED
      BY <2>3, <3>1, <3>2, <3>3
  <2> QED
    BY <2>1, <2>2, <2>3
<1>3. CASE k \notin Legacy
  <2> DEFINE class == [j \in Keys |-> Class(db, j)]
             others == {j \in Counted(db) \cap Lane(k) : AtBound(db, k) => j \notin Gates \/ j = k}
             A == {j \in others : \/ class[j] < class[k]
                                  \/ class[j] = class[k] /\ j \in db.earlier[k] \cup {k}}
  <2>1. Ahead(db, k) = A
    BY <1>3 DEF Ahead, AheadOf
  <2>2. k \in others
    BY <1>1 DEF Lane, Keys
  <2>3. others \subseteq D /\ others \subseteq Keys
    BY <1>1, <1>3
  <2>4. \A j \in Keys : class[j] = Class(db, j)
    OBVIOUS
  <2> HIDE DEF class, others
  <2>5. k \in A
    BY <2>2
  <2>6. ASSUME NEW j \in A, j # k PROVE FALSE
    <3>1. j \in D /\ class[j] = Class(db, j) /\ class[k] = Class(db, k)
      BY <2>2, <2>3, <2>4
    <3>2. Class(db, k) \in 0..2 /\ Class(db, j) \in 0..2
      BY <1>1, <3>1, ClassType
    <3> QED
      BY <2>6, <3>1, <3>2
  <2> QED
    BY <2>1, <2>5, <2>6
<1> QED
  BY <1>2, <1>3

LEMMA HeadsExist == FileOK(db) => HeadExists
<1> SUFFICES ASSUME FileOK(db) PROVE HeadExists
  OBVIOUS
<1> DEFINE heads == {k \in Counted(db) : Ahead(db, k) = {k}}
           class == [j \in Keys |-> Class(db, j)]
<1>1. class \in [Keys -> 0..2]
  BY ClassType DEF FileOK
<1>2. Counted(db) \subseteq db.tickets /\ db.tickets \subseteq Keys
  BY FileFields DEF FileOK, Counted
<1>3. \A j \in Keys : class[j] = Class(db, j)
  OBVIOUS
<1> HIDE DEF class
<1>4. ASSUME NEW D \in SUBSET Counted(db), D # {}
      PROVE  \E k \in D : \A j \in D : /\ ~(Class(db, j) < Class(db, k))
                                       /\ Class(db, j) = Class(db, k) => j \notin db.earlier[k]
  <2>1. PICK k \in D : \A j \in D : /\ ~(class[j] < class[k])
                                    /\ class[j] = class[k] => j \notin db.earlier[k]
    BY <1>1, <1>2, <1>4, FirstByClass
  <2>2. \A j \in D : class[j] = Class(db, j)
    BY <1>2, <1>3
  <2> QED
    BY <2>1, <2>2
<1>5. ASSUME Counted(db) # {} PROVE heads # {}
  <2> DEFINE D == Counted(db)
  <2>1. PICK k \in D : \A j \in D : /\ ~(Class(db, j) < Class(db, k))
                                    /\ Class(db, j) = Class(db, k) => j \notin db.earlier[k]
    BY <1>4, <1>5
  <2>2. Ahead(db, k) = {k}
    BY <1>5, <2>1, FirstIsHead
  <2> QED
    BY <2>2
<1>6. ASSUME NEW lane \in {Stages, Commands}, Counted(db) \cap lane # {}, Counted(db) \cap Legacy = {}
      PROVE  heads \cap lane # {}
  <2> DEFINE D == Counted(db) \cap lane
  <2>1. PICK k \in D : \A j \in D : /\ ~(Class(db, j) < Class(db, k))
                                    /\ Class(db, j) = Class(db, k) => j \notin db.earlier[k]
    BY <1>4, <1>6
  <2>2. k \notin Legacy /\ Lane(k) = lane
    BY <1>6 DEF Lane
  <2>3. Ahead(db, k) = {k}
    BY <1>6, <2>1, <2>2, FirstIsHead
  <2> QED
    BY <2>3
<1> QED
  BY <1>5, <1>6 DEF HeadExists

(* No two processes wait for each other: of the tickets that count, one is *)
(* first in the eyes of its own release, and, without the older release,   *)
(* one in each lane.                                                       *)
THEOREM CpuHeadExists == Spec => []HeadExists
<1>1. CpuInd => HeadExists
  BY HeadsExist DEF CpuInd
<1> QED
  BY <1>1, CpuInvariant, PTL
=============================================================================
