------------------------- MODULE SendDeliveryProofs -------------------------
(***************************************************************************)
(* Theorems about SendDelivery, for all executors and all numbers of       *)
(* retries and faults: what its stores hold, who decides, and that no      *)
(* delivery is invented and no answer taken back.                          *)
(***************************************************************************)
EXTENDS SendDelivery, TLAPS

USE SendAssumption

-----------------------------------------------------------------------------
(* The inductive invariant, one part for each store and each party.        *)

Records ==
    [state : {"assigned", "delivery-uncertain", "delivered", "failed"},
     disposition : {None, "delivered", "lost", "unverified"}, discarded : BOOLEAN]

(* The journal's discard is the row of the action table; a fresh attempt    *)
(* has claimed the retry.                                                  *)
JournalOK ==
    /\ op \in [status : Open \cup Terminal, owner : Owners \cup {None}]
    /\ op.status = "delivering" <=> op.owner # None
    /\ winner \in {None, "retry", "discard"} /\ replaced \in BOOLEAN
    /\ op.status = "discarded" <=> winner = "discard"
    /\ replaced => winner = "retry"
    /\ op.status = "delivered" => taken

RecordOK ==
    /\ rec \in Records
    /\ rec.state = "delivered" => taken
    /\ rec.discarded => rec.state = "failed"

(* Whoever is about to write a delivery knows it.                          *)
Knows(p, t) ==
    /\ p.pc = "answered" /\ p.answer = "delivered" => t
    /\ p.pc = "owes" /\ p.outcome.state = "delivered" => t

PassesOK ==
    /\ exec \in [Executors -> Passes]
    /\ \A x \in Executors : Knows(exec[x], taken)

SettleOK ==
    /\ settle \in Settlements
    /\ settle.pc \in {"verdict", "answer"} /\ settle.outcome.state = "delivered" => taken
RepairOK ==
    /\ repair \in Outcomes \cup {None}
    /\ repair # None /\ repair.state = "delivered" => taken
DiscardOK == discard \in Discards /\ (discard.pc = "deliver" => taken)

(* A retry that goes on to the record has won in the journal.              *)
RetryOK ==
    /\ retry \in Retries
    /\ retry.pc \in {"rearm", "begin", "requeue"} => winner = "retry"

RestOK ==
    /\ taken \in BOOLEAN /\ host \in Executors \cup {None}
    /\ retries \in 0..MaxRetries /\ faults \in 0..MaxFaults

SendInd ==
    /\ JournalOK /\ RecordOK /\ PassesOK /\ SettleOK
    /\ RepairOK /\ DiscardOK /\ RetryOK /\ RestOK

(* The bodies of OneDecision and AnswersStay.                              *)
Decides ==
    /\ winner # None => winner' = winner
    /\ winner = "discard" => op'.status = "discarded" /\ replaced' = replaced
    /\ op'.status = "discarded" => winner' = "discard"
Stays ==
    /\ rec.state = "delivered" => rec' = rec
    /\ ResendSafe(rec) => ~InFlight(rec')
    /\ rec.discarded /\ winner = "discard" => rec'.discarded

Good == SendInd' /\ Decides /\ Stays

-----------------------------------------------------------------------------
(* Facts about outcomes                                                    *)

LEMMA OutcomeFacts ==
    /\ {Delivered, Lost, Unverified, Unproven, Discarded} = Outcomes
    /\ Delivered.state = "delivered"
    /\ \A o \in {Lost, Unverified, Unproven, Discarded} : o.state = "failed"
    /\ \A o \in Outcomes : /\ o \in Records /\ o.state \in {"delivered", "failed"}
                           /\ o.discarded => o.state = "failed"
BY DEF Outcomes, Delivered, Lost, Unverified, Unproven, Discarded, Outcome, Records

LEMMA VerdictFacts ==
    ASSUME NEW status \in Terminal
    PROVE  Verdict(status) \in Outcomes /\ (Verdict(status).state = "delivered" => status = "delivered")
<1>1. CASE status = "delivered"
  BY <1>1, OutcomeFacts DEF Verdict
<1>2. CASE status = "failed"
  BY <1>2, OutcomeFacts DEF Verdict, Outcomes
<1>3. CASE status = "uncertain"
  BY <1>3, OutcomeFacts DEF Verdict, Outcomes
<1>4. CASE status = "discarded"
  BY <1>4, OutcomeFacts DEF Verdict, Outcomes
<1> QED
  BY <1>1, <1>2, <1>3, <1>4 DEF Terminal

-----------------------------------------------------------------------------
(* What a step leaves alone stays good: the agent never loses a message.   *)

LEMMA Frame ==
    ASSUME SendInd, taken' \in BOOLEAN, taken => taken'
    PROVE  /\ UNCHANGED journal => JournalOK' /\ Decides
           /\ UNCHANGED rec => RecordOK' /\ Stays
           /\ UNCHANGED exec => PassesOK'
           /\ UNCHANGED settle => SettleOK'
           /\ UNCHANGED repair => RepairOK'
           /\ UNCHANGED discard => DiscardOK'
           /\ UNCHANGED retry /\ Decides => RetryOK'
<1>1. UNCHANGED journal => JournalOK' /\ Decides
  BY DEF journal, SendInd, JournalOK, Decides
<1>2. UNCHANGED rec => RecordOK' /\ Stays
  BY DEF SendInd, RecordOK, Stays, ResendSafe, InFlight
<1>3. UNCHANGED exec => PassesOK'
  BY DEF SendInd, PassesOK, Knows
<1>4. UNCHANGED settle => SettleOK'
  BY DEF SendInd, SettleOK
<1>5. UNCHANGED repair => RepairOK'
  BY DEF SendInd, RepairOK
<1>6. UNCHANGED discard => DiscardOK'
  BY DEF SendInd, DiscardOK
<1>7. UNCHANGED retry /\ Decides => RetryOK'
  BY DEF SendInd, RetryOK, Decides
<1> QED
  BY <1>1, <1>2, <1>3, <1>4, <1>5, <1>6, <1>7

-----------------------------------------------------------------------------
(* The transactions of the journal                                         *)

LEMMA Ended ==
    ASSUME SendInd, NEW status \in {"delivered", "failed", "uncertain"}, EndBy(status),
           status = "delivered" => taken', taken => taken', UNCHANGED <<winner, replaced>>
    PROVE  JournalOK' /\ Decides
<1>1. CASE op.status \in Open
  <2>1. op' = [status |-> status, owner |-> None]
    BY <1>1 DEF EndBy, To
  <2> QED
    BY <1>1, <2>1 DEF SendInd, JournalOK, Decides, Open, Terminal
<1>2. CASE op.status \notin Open
  BY <1>2 DEF EndBy, SendInd, JournalOK, Decides
<1> QED
  BY <1>1, <1>2

LEMMA Confirmed ==
    ASSUME SendInd, MayConfirm, Confirm, taken, taken', UNCHANGED <<winner, replaced>>
    PROVE  JournalOK' /\ Decides
<1>1. op' = [status |-> "delivered", owner |-> None]
  BY DEF Confirm, To
<1> QED
  BY <1>1 DEF MayConfirm, SendInd, JournalOK, Decides, Open, Terminal

LEMMA Requeued ==
    ASSUME SendInd, Requeue, taken => taken', UNCHANGED <<winner, replaced>>
    PROVE  JournalOK' /\ Decides
<1>1. CASE op.status = "delivering"
  <2>1. op' = [status |-> "queued", owner |-> None]
    BY <1>1 DEF Requeue, To
  <2> QED
    BY <1>1, <2>1 DEF SendInd, JournalOK, Decides, Open, Terminal
<1>2. CASE op.status # "delivering"
  BY <1>2 DEF Requeue, SendInd, JournalOK, Decides
<1> QED
  BY <1>1, <1>2

LEMMA Claimed ==
    ASSUME SendInd, NEW action \in {"retry", "discard"}, Claimable, Claim(action),
           taken => taken', UNCHANGED replaced
    PROVE  JournalOK' /\ Decides
<1>1. winner' \in {"retry", "discard"} /\ (winner # None => winner' = winner)
  BY DEF Claim, SendInd, JournalOK
<1>2. CASE winner' = "discard"
  <2>1. op' = [status |-> "discarded", owner |-> None]
    BY <1>2 DEF Claim, To
  <2> QED
    BY <1>1, <1>2, <2>1 DEF SendInd, JournalOK, Decides, Open, Terminal
<1>3. CASE winner' = "retry"
  <2>1. op' = op /\ winner # "discard"
    BY <1>1, <1>3 DEF Claim
  <2> QED
    BY <1>1, <1>3, <2>1 DEF SendInd, JournalOK, Decides
<1> QED
  BY <1>1, <1>2, <1>3

(* A host or a Viewer that comes or goes changes the stamp of a row that   *)
(* has one, and leaves it one.                                             *)
LEMMA Restamped ==
    ASSUME SendInd, taken => taken', UNCHANGED <<winner, replaced>>,
           op' = op \/ \E owner \in Owners : op.owner # None /\ op' = [op EXCEPT !.owner = owner]
    PROVE  JournalOK' /\ Decides
<1>1. CASE op' = op
  BY <1>1 DEF SendInd, JournalOK, Decides
<1>2. ASSUME NEW owner \in Owners, op.owner # None, op' = [op EXCEPT !.owner = owner]
      PROVE  JournalOK' /\ Decides
  <2>1. op' \in [status : Open \cup Terminal, owner : Owners \cup {None}]
        /\ op'.status = op.status /\ op'.owner = owner
    BY <1>2 DEF SendInd, JournalOK
  <2>2. owner # None
    BY <1>2
  <2> QED
    BY <1>2, <2>1, <2>2 DEF SendInd, JournalOK, Decides
<1> QED
  BY <1>1, <1>2

-----------------------------------------------------------------------------
(* The transactions of the record                                          *)

LEMMA Recording ==
    ASSUME SendInd, NEW o \in Outcomes, rec' = Recorded(rec, o),
           o.state = "delivered" => taken', taken => taken'
    PROVE  RecordOK' /\ Stays
<1>1. o \in Records /\ o.state \in {"delivered", "failed"} /\ (o.discarded => o.state = "failed")
  BY OutcomeFacts
<1>2. o.discarded \in BOOLEAN /\ rec.discarded \in BOOLEAN
  BY <1>1 DEF SendInd, RecordOK, Records
<1>3. CASE rec' = rec
  BY <1>3 DEF SendInd, RecordOK, Stays, ResendSafe, InFlight
<1>4. CASE rec' = o /\ rec' # rec
  <2>1. rec.state # "delivered" /\ (rec.discarded => o.discarded)
    BY <1>2, <1>4 DEF Recorded, SendInd, RecordOK
  <2> QED
    BY <1>1, <1>4, <2>1 DEF SendInd, RecordOK, Stays, ResendSafe, InFlight
<1> QED
  BY <1>3, <1>4 DEF Recorded

LEMMA Overwriting ==
    ASSUME SendInd, NEW o \in Outcomes, rec' = Overwritten(rec, o),
           o.state = "delivered" => taken', taken => taken'
    PROVE  RecordOK' /\ Stays
<1>1. o \in Records /\ o.state \in {"delivered", "failed"} /\ (o.discarded => o.state = "failed")
  BY OutcomeFacts
<1>2. CASE rec.state = "delivered" \/ rec.discarded
  BY <1>2 DEF Overwritten, SendInd, RecordOK, Stays, ResendSafe, InFlight
<1>3. CASE ~(rec.state = "delivered" \/ rec.discarded)
  BY <1>1, <1>3 DEF Overwritten, SendInd, RecordOK, Stays, ResendSafe, InFlight
<1> QED
  BY <1>2, <1>3

-----------------------------------------------------------------------------
(* The executors                                                           *)

(* Where a pass may go without anything to tell.                           *)
Quiet == {"idle", "listed", "settled", "abandoned", "ready", "recovering", "begun"}

LEMMA PassKinds ==
    ASSUME NEW p \in Passes
    PROVE  /\ p.pc = "answered" => p.answer \in Answers
           /\ p.pc = "owes" => p.outcome \in Outcomes
BY DEF Passes, Quiet

LEMMA Moved ==
    ASSUME SendInd, NEW x \in Executors, NEW pc \in Quiet, Move(x, pc), taken => taken'
    PROVE  PassesOK'
<1>1. [pc |-> pc] \in Passes /\ [pc |-> pc].pc = pc
  BY DEF Passes, Quiet
<1>2. exec' \in [Executors -> Passes] /\ exec'[x] = [pc |-> pc]
      /\ \A y \in Executors \ {x} : exec'[y] = exec[y]
  BY <1>1 DEF Move, SendInd, PassesOK
<1>3. Knows(exec'[x], taken')
  BY <1>1, <1>2 DEF Knows, Quiet
<1> QED
  BY <1>2, <1>3 DEF SendInd, PassesOK, Knows

LEMMA Owed ==
    ASSUME SendInd, NEW x \in Executors, NEW o \in Outcomes, Owe(x, o),
           o.state = "delivered" => taken', taken => taken'
    PROVE  PassesOK'
<1> DEFINE p == [pc |-> "owes", outcome |-> o]
<1>1. p \in Passes /\ p.pc = "owes" /\ p.outcome = o
  BY DEF Passes
<1>2. exec' \in [Executors -> Passes] /\ exec'[x] = p
      /\ \A y \in Executors \ {x} : exec'[y] = exec[y]
  BY <1>1 DEF Owe, SendInd, PassesOK
<1>3. Knows(exec'[x], taken')
  BY <1>1, <1>2 DEF Knows
<1> QED
  BY <1>2, <1>3 DEF SendInd, PassesOK, Knows

(* Ending an operation, whatever the verdict.                              *)
LEMMA EndGood ==
    ASSUME SendInd, NEW x \in Executors, NEW o \in Outcomes,
           NEW status \in {"delivered", "failed", "uncertain"}, End(x, status, o),
           status = "delivered" => taken, o.state = "delivered" => taken,
           faults' \in 0..MaxFaults
    PROVE  Good
<1>1. UNCHANGED <<winner, replaced, rec, taken, host, calls, retries>>
  BY DEF End
<1>2. RestOK' /\ taken' = taken /\ taken' \in BOOLEAN
  BY <1>1 DEF SendInd, RestOK
<1>3. JournalOK' /\ Decides /\ PassesOK'
  <2>1. CASE MayEnd(status)
    BY <1>1, <1>2, <2>1, Ended, Owed DEF End
  <2>2. CASE ~MayEnd(status)
    <3>1. UNCHANGED journal /\ Move(x, "idle")
      BY <1>1, <2>2 DEF End, journal
    <3> QED
      BY <1>2, <3>1, Frame, Moved DEF Quiet
  <2> QED
    BY <2>1, <2>2
<1> QED
  BY <1>1, <1>2, <1>3, Frame DEF calls, Good, SendInd

LEMMA EndUnknownGood ==
    ASSUME SendInd, NEW x \in Executors, EndUnknown(x)
    PROVE  Good
<1>1. CASE End(x, "uncertain", Unverified) /\ UNCHANGED faults
  <2>1. faults' \in 0..MaxFaults
    BY <1>1 DEF SendInd, RestOK
  <2> QED
    BY <1>1, <2>1, EndGood, OutcomeFacts DEF Outcomes
<1>2. CASE /\ faults < MaxFaults /\ faults' = faults + 1
           /\ End(x, "failed", Unproven)
  <2>1. faults' \in 0..MaxFaults
    BY <1>2 DEF SendInd, RestOK
  <2> QED
    BY <1>2, <2>1, EndGood, OutcomeFacts DEF Outcomes
<1> QED
  BY <1>1, <1>2 DEF EndUnknown

(* A step that only moves a pass.                                          *)
LEMMA PassGood ==
    ASSUME SendInd, NEW x \in Executors, NEW pc \in Quiet, Move(x, pc),
           UNCHANGED <<journal, rec, taken, host, calls>>,
           retries' = retries, faults' \in 0..MaxFaults
    PROVE  Good
<1>1. RestOK' /\ taken' = taken /\ taken' \in BOOLEAN
  BY DEF SendInd, RestOK
<1>2. PassesOK'
  BY <1>1, Moved
<1> QED
  BY <1>1, <1>2, Frame DEF calls, Good, SendInd

LEMMA DrainGood ==
    ASSUME SendInd, NEW x \in Executors, Drain(x)
    PROVE  Good
BY PassGood DEF Drain, Quiet, SendInd, RestOK

LEMMA ReadRecordGood ==
    ASSUME SendInd, NEW x \in Executors, ReadRecord(x)
    PROVE  Good
<1>1. PICK pc \in Quiet : Move(x, pc)
  BY DEF ReadRecord, Quiet
<1> QED
  BY <1>1, PassGood DEF ReadRecord, SendInd, RestOK

LEMMA EndAbandonedGood ==
    ASSUME SendInd, NEW x \in Executors, EndAbandoned(x)
    PROVE  Good
<1>1. CASE EndUnknown(x)
  BY <1>1, EndUnknownGood
<1>2. CASE /\ taken /\ MayConfirm
           /\ Confirm /\ Owe(x, Delivered)
           /\ UNCHANGED <<winner, replaced, rec, taken, host, calls, retries, faults>>
  <2>1. RestOK' /\ taken' = taken /\ taken' \in BOOLEAN
    BY <1>2 DEF SendInd, RestOK
  <2>2. JournalOK' /\ Decides
    BY <1>2, <2>1, Confirmed
  <2>3. PassesOK'
    BY <1>2, <2>1, Owed, OutcomeFacts
  <2> QED
    BY <1>2, <2>1, <2>2, <2>3, Frame DEF calls, Good, SendInd
<1>3. CASE /\ taken /\ Move(x, "idle")
           /\ UNCHANGED <<journal, rec, taken, host, calls, retries, faults>>
  BY <1>3, PassGood DEF Quiet, SendInd, RestOK
<1> QED
  BY <1>1, <1>2, <1>3 DEF EndAbandoned

LEMMA DeadHostGood ==
    ASSUME SendInd, NEW x \in Executors, DeadHost(x)
    PROVE  Good
<1>1. UNCHANGED <<winner, replaced, rec, taken, host, calls, retries, faults>>
  BY DEF DeadHost
<1>2. RestOK' /\ taken' = taken /\ taken' \in BOOLEAN
  BY <1>1 DEF SendInd, RestOK
<1>3. JournalOK' /\ Decides
  BY <1>1, <1>2, Requeued, Frame DEF DeadHost, journal
<1>4. PassesOK'
  BY <1>2, Moved DEF DeadHost, Quiet
<1> QED
  BY <1>1, <1>2, <1>3, <1>4, Frame DEF calls, Good, SendInd

LEMMA OpenedOwner ==
    ASSUME SendInd, NEW x \in Executors, Opened(x)
    PROVE  /\ op' = op \/ \E owner \in Owners : op.owner # None /\ op' = [op EXCEPT !.owner = owner]
           /\ host' \in Executors \cup {None}
<1>1. CASE op.owner # None /\ op.owner.claim = "current"
  <2> DEFINE o == [op.owner EXCEPT !.claim = "moved"]
  <2>1. op.owner \in Owners
    BY <1>1 DEF SendInd, JournalOK
  <2>2. o \in Owners
    BY <2>1 DEF Owners
  <2>3. op' = [op EXCEPT !.owner = o]
    BY <1>1 DEF Opened, SendInd, JournalOK
  <2> QED
    BY <1>1, <2>2, <2>3 DEF Opened
<1>2. CASE ~(op.owner # None /\ op.owner.claim = "current")
  BY <1>2 DEF Opened
<1> QED
  BY <1>1, <1>2

LEMMA HostReturnsGood ==
    ASSUME SendInd, NEW x \in Executors, HostReturns(x)
    PROVE  Good
<1>1. UNCHANGED <<winner, replaced, rec, taken, exec, calls, retries, faults>>
  BY DEF HostReturns
<1>2. RestOK' /\ taken' = taken /\ taken' \in BOOLEAN
  BY <1>1, OpenedOwner DEF HostReturns, SendInd, RestOK
<1>3. JournalOK' /\ Decides
  BY <1>1, <1>2, OpenedOwner, Restamped DEF HostReturns
<1> QED
  BY <1>1, <1>2, <1>3, Frame DEF calls, Good, SendInd

LEMMA RecoverGood ==
    ASSUME SendInd, NEW x \in Executors, Recover(x)
    PROVE  Good
<1>1. CASE End(x, "failed", Unproven) /\ UNCHANGED faults
  <2>1. faults' \in 0..MaxFaults
    BY <1>1 DEF SendInd, RestOK
  <2> QED
    BY <1>1, <2>1, EndGood, OutcomeFacts DEF Outcomes
<1>2. CASE /\ Opened(x) \/ UNCHANGED <<host, op>>
           /\ Move(x, "idle")
           /\ UNCHANGED <<winner, replaced, rec, taken, calls, retries, faults>>
  <2>1. RestOK' /\ taken' = taken /\ taken' \in BOOLEAN
    BY <1>2, OpenedOwner DEF SendInd, RestOK
  <2>2. op' = op \/ \E owner \in Owners : op.owner # None /\ op' = [op EXCEPT !.owner = owner]
    BY <1>2, OpenedOwner
  <2>3. JournalOK' /\ Decides
    BY <1>2, <2>1, <2>2, Restamped
  <2>4. PassesOK'
    BY <1>2, <2>1, Moved DEF Quiet
  <2> QED
    BY <1>2, <2>1, <2>3, <2>4, Frame DEF calls, Good, SendInd
<1> QED
  BY <1>1, <1>2 DEF Recover

LEMMA BeginGood ==
    ASSUME SendInd, NEW x \in Executors, Begin(x)
    PROVE  Good
<1>1. UNCHANGED <<winner, replaced, rec, taken, host, calls, retries, faults>>
  BY DEF Begin
<1>2. RestOK' /\ taken' = taken /\ taken' \in BOOLEAN
  BY <1>1 DEF SendInd, RestOK
<1>3. PassesOK'
  BY <1>2, Moved DEF Begin, Quiet
<1>4. JournalOK' /\ Decides
  <2>1. CASE op.status = "queued"
    <3>1. PICK claim \in {"current", "unknown"} :
             op' = [status |-> "delivering", owner |-> [by |-> x, claim |-> claim]]
      BY <2>1 DEF Begin
    <3>2. [by |-> x, claim |-> claim] \in Owners
      BY DEF Owners
    <3>3. [by |-> x, claim |-> claim] # None
      BY <3>2
    <3> QED
      BY <1>1, <2>1, <3>1, <3>2, <3>3 DEF SendInd, JournalOK, Decides, Open, Terminal
  <2>2. CASE op.status # "queued"
    BY <1>1, <1>2, <2>2, Frame DEF Begin, journal
  <2> QED
    BY <2>1, <2>2
<1> QED
  BY <1>1, <1>2, <1>3, <1>4, Frame DEF calls, Good, SendInd

LEMMA SendGood ==
    ASSUME SendInd, NEW x \in Executors, Send(x)
    PROVE  Good
<1>1. UNCHANGED <<journal, rec, host, calls, retries, faults>>
  BY DEF Send
<1>2. PICK answer \in Answers :
         /\ exec' = [exec EXCEPT ![x] = [pc |-> "answered", answer |-> answer]]
         /\ taken' \in IF answer = "delivered" THEN {TRUE} ELSE {taken, TRUE}
  BY DEF Send
<1>3. taken' \in BOOLEAN /\ (taken => taken') /\ (answer = "delivered" => taken')
  BY <1>2 DEF SendInd, RestOK
<1>4. RestOK'
  BY <1>1, <1>3 DEF SendInd, RestOK
<1>5. PassesOK'
  <2> DEFINE p == [pc |-> "answered", answer |-> answer]
  <2>1. p \in Passes /\ p.pc = "answered" /\ p.answer = answer
    BY DEF Passes
  <2>2. exec' \in [Executors -> Passes] /\ exec'[x] = p
        /\ \A y \in Executors \ {x} : exec'[y] = exec[y]
    BY <1>2, <2>1 DEF SendInd, PassesOK
  <2>3. Knows(exec'[x], taken')
    BY <1>3, <2>1, <2>2 DEF Knows
  <2> QED
    BY <1>3, <2>2, <2>3 DEF SendInd, PassesOK, Knows
<1> QED
  BY <1>1, <1>3, <1>4, <1>5, Frame DEF calls, Good, SendInd

LEMMA SettleSendGood ==
    ASSUME SendInd, NEW x \in Executors, SettleSend(x)
    PROVE  Good
<1> DEFINE answer == exec[x].answer
           queues == answer = "declined" \/ (answer = "timeout" /\ host = x)
<1>1. At(x, "answered") /\ (answer = "delivered" => taken)
  BY DEF SettleSend, At, SendInd, PassesOK, Knows
<1>2. CASE answer = "delivered"
  <2>1. End(x, "delivered", Delivered) /\ taken /\ faults' \in 0..MaxFaults
    BY <1>1, <1>2 DEF SettleSend, SendInd, RestOK
  <2> QED
    BY <2>1, EndGood, OutcomeFacts
<1>3. CASE answer = "refused"
  <2>1. End(x, "failed", Unproven) /\ faults' \in 0..MaxFaults
    BY <1>3 DEF SettleSend, SendInd, RestOK
  <2> QED
    BY <2>1, EndGood, OutcomeFacts DEF Outcomes
<1>4. CASE queues /\ answer \notin {"delivered", "refused"}
  <2>1. /\ Requeue /\ Move(x, "idle")
        /\ UNCHANGED <<winner, replaced, rec, taken, host, calls, retries, faults>>
    BY <1>4 DEF SettleSend
  <2>2. RestOK' /\ taken' = taken /\ taken' \in BOOLEAN
    BY <2>1 DEF SendInd, RestOK
  <2>3. JournalOK' /\ Decides
    BY <2>1, <2>2, Requeued
  <2>4. PassesOK'
    BY <2>1, <2>2, Moved DEF Quiet
  <2> QED
    BY <2>1, <2>2, <2>3, <2>4, Frame DEF calls, Good, SendInd
<1>5. CASE ~queues /\ answer \notin {"delivered", "refused"}
  <2>1. EndUnknown(x)
    BY <1>5 DEF SettleSend
  <2> QED
    BY <2>1, EndUnknownGood
<1> QED
  BY <1>2, <1>3, <1>4, <1>5

LEMMA ProjectGood ==
    ASSUME SendInd, NEW x \in Executors, Project(x)
    PROVE  Good
<1>1. UNCHANGED <<journal, taken, host, calls, retries, faults>> /\ Move(x, "idle")
  BY DEF Project
<1>2. RestOK' /\ taken' = taken /\ taken' \in BOOLEAN
  BY <1>1 DEF SendInd, RestOK
<1>3. exec[x] \in Passes /\ exec[x].pc = "owes" /\ Knows(exec[x], taken)
  BY DEF Project, At, SendInd, PassesOK
<1>4. exec[x].outcome \in Outcomes /\ (exec[x].outcome.state = "delivered" => taken)
  BY <1>3, PassKinds DEF Knows
<1>5. RecordOK' /\ Stays
  BY <1>2, <1>4, Recording DEF Project
<1>6. PassesOK'
  BY <1>1, <1>2, Moved DEF Quiet
<1> QED
  BY <1>1, <1>2, <1>5, <1>6, Frame DEF calls, Good, SendInd

LEMMA CrashGood ==
    ASSUME SendInd, NEW x \in Executors, Crash(x)
    PROVE  Good
<1>1. UNCHANGED <<winner, replaced, rec, calls, retries>> /\ Move(x, "idle")
  BY DEF Crash
<1>2. taken' \in BOOLEAN /\ (taken => taken')
  BY DEF Crash, SendInd, RestOK
<1>3. RestOK'
  BY <1>1, <1>2 DEF Crash, SendInd, RestOK
<1>4. JournalOK' /\ Decides
  <2>1. CASE op.owner # None /\ op.owner.by = x
    <3> DEFINE o == [op.owner EXCEPT !.by = "gone"]
    <3>1. op.owner \in Owners
      BY <2>1 DEF SendInd, JournalOK
    <3>2. o \in Owners
      BY <3>1 DEF Owners
    <3>3. op' = [op EXCEPT !.owner = o]
      BY <2>1 DEF Crash, SendInd, JournalOK
    <3> QED
      BY <1>1, <1>2, <2>1, <3>2, <3>3, Restamped
  <2>2. CASE ~(op.owner # None /\ op.owner.by = x)
    BY <1>1, <1>2, <2>2, Restamped DEF Crash
  <2> QED
    BY <2>1, <2>2
<1>5. PassesOK'
  BY <1>1, <1>2, Moved DEF Quiet
<1> QED
  BY <1>1, <1>2, <1>3, <1>4, <1>5, Frame DEF calls, Good, SendInd

LEMMA PassStopsGood ==
    ASSUME SendInd, NEW x \in Executors, PassStops(x)
    PROVE  Good
<1>1. faults' \in 0..MaxFaults
  BY DEF PassStops, SendInd, RestOK
<1> QED
  BY <1>1, PassGood DEF PassStops, Quiet

LEMMA LoseHostGood ==
    ASSUME SendInd, LoseHost
    PROVE  Good
<1>1. UNCHANGED <<journal, rec, taken, exec, calls, retries>>
  BY DEF LoseHost
<1>2. RestOK' /\ taken' = taken /\ taken' \in BOOLEAN
  BY <1>1 DEF LoseHost, SendInd, RestOK
<1> QED
  BY <1>1, <1>2, Frame DEF calls, Good, SendInd

-----------------------------------------------------------------------------
(* The repair                                                              *)

LEMMA RepairReadGood ==
    ASSUME SendInd, RepairRead
    PROVE  Good
<1>1. UNCHANGED <<journal, rec, taken, host, exec, settle, discard, retry, retries, faults>>
  BY DEF RepairRead
<1>2. RestOK' /\ taken' = taken /\ taken' \in BOOLEAN
  BY <1>1 DEF SendInd, RestOK
<1>3. op.status \in Terminal /\ (op.status = "delivered" => taken)
  BY DEF RepairRead, SendInd, JournalOK
<1>4. RepairOK'
  BY <1>2, <1>3, VerdictFacts DEF RepairRead, RepairOK
<1> QED
  BY <1>1, <1>2, <1>4, Frame DEF Good, SendInd

LEMMA RepairConfirmsGood ==
    ASSUME SendInd, RepairConfirms
    PROVE  Good
<1>1. UNCHANGED <<winner, replaced, rec, taken, host, exec, settle, discard, retry, retries, faults>>
  BY DEF RepairConfirms
<1>2. RestOK' /\ taken' = taken /\ taken
  BY <1>1 DEF RepairConfirms, SendInd, RestOK
<1>3. JournalOK' /\ Decides
  BY <1>1, <1>2, Confirmed DEF RepairConfirms
<1>4. RepairOK'
  BY <1>2, OutcomeFacts DEF RepairConfirms, RepairOK, Outcomes
<1> QED
  BY <1>1, <1>2, <1>3, <1>4, Frame DEF Good, SendInd, RestOK

LEMMA RepairWriteGood ==
    ASSUME SendInd, RepairWrite
    PROVE  Good
<1>1. UNCHANGED <<journal, taken, host, exec, settle, discard, retry, retries, faults>>
  BY DEF RepairWrite
<1>2. RestOK' /\ taken' = taken /\ taken' \in BOOLEAN
  BY <1>1 DEF SendInd, RestOK
<1>3. repair \in Outcomes /\ (repair.state = "delivered" => taken)
  BY DEF RepairWrite, SendInd, RepairOK
<1>4. RecordOK' /\ Stays
  BY <1>2, <1>3, Recording DEF RepairWrite
<1>5. RepairOK'
  BY DEF RepairWrite, RepairOK
<1> QED
  BY <1>1, <1>2, <1>4, <1>5, Frame DEF Good, SendInd

-----------------------------------------------------------------------------
(* The settlement                                                          *)

LEMMA SettleKinds ==
    ASSUME NEW s \in Settlements
    PROVE  /\ s.pc \in {"read", "fence"} =>
              s.status \in Open \cup {None} /\ s = [pc |-> s.pc, status |-> s.status]
           /\ s.pc \in {"verdict", "answer"} => s.outcome \in Outcomes
           /\ s.pc = "answer" => s.write \in {"outcome", "overwrite", "leave"}
BY DEF Settlements, Idle

LEMMA Answered ==
    ASSUME NEW o \in Outcomes, Answer(o), o.state = "delivered" => taken'
    PROVE  SettleOK'
<1>1. settle' = [pc |-> "verdict", outcome |-> o]
  BY DEF Answer
<1> QED
  BY <1>1 DEF SettleOK, Settlements

(* What the journal says of an ended send may be answered.                 *)
LEMMA AnsweredStatus ==
    ASSUME SendInd, op.status \in Terminal, Answer(Verdict(op.status)), taken' = taken
    PROVE  SettleOK'
<1>1. Verdict(op.status) \in Outcomes /\ (Verdict(op.status).state = "delivered" => taken')
  BY VerdictFacts DEF SendInd, JournalOK
<1> QED
  BY <1>1, Answered

LEMMA SettleAsksGood ==
    ASSUME SendInd, SettleAsks
    PROVE  Good
<1>1. UNCHANGED <<journal, rec, taken, host, exec, repair, discard, retry, retries, faults>>
  BY DEF SettleAsks
<1>2. RestOK' /\ taken' = taken /\ taken' \in BOOLEAN
  BY <1>1 DEF SendInd, RestOK
<1>3. SettleOK'
  BY DEF SettleAsks, SettleOK, Settlements, InFlight
<1> QED
  BY <1>1, <1>2, <1>3, Frame DEF Good, SendInd

LEMMA SettleConfirmsGood ==
    ASSUME SendInd, SettleConfirms
    PROVE  Good
<1>1. UNCHANGED <<winner, replaced, rec, taken, host, exec, repair, discard, retry, retries, faults>>
  BY DEF SettleConfirms
<1>2. RestOK' /\ taken' = taken /\ taken
  BY <1>1 DEF SettleConfirms, SendInd, RestOK
<1>3. JournalOK' /\ Decides /\ SettleOK'
  <2>1. CASE MayConfirm /\ Confirm /\ Answer(Delivered)
    BY <1>1, <1>2, <2>1, Confirmed, Answered, OutcomeFacts
  <2>2. CASE Answer(Discarded) /\ UNCHANGED op
    BY <1>1, <1>2, <2>2, Answered, OutcomeFacts, Frame DEF journal
  <2> QED
    BY <2>1, <2>2 DEF SettleConfirms
<1> QED
  BY <1>1, <1>2, <1>3, Frame DEF Good, SendInd, RestOK

LEMMA SettleReadGood ==
    ASSUME SendInd, SettleRead
    PROVE  Good
<1>1. UNCHANGED <<journal, rec, taken, host, exec, repair, discard, retry, retries, faults>>
  BY DEF SettleRead
<1>2. RestOK' /\ taken' = taken /\ taken' \in BOOLEAN
  BY <1>1 DEF SendInd, RestOK
<1>3. SettleOK'
  <2>1. CASE op.status \in Terminal /\ Answer(Verdict(op.status))
    BY <1>2, <2>1, AnsweredStatus
  <2>2. CASE \E status \in Open \cup {None} : settle' = [pc |-> "read", status |-> status]
    BY <2>2 DEF SettleOK, Settlements
  <2>3. CASE settle' = Idle
    BY <2>3 DEF SettleOK, Settlements, Idle
  <2> QED
    BY <2>1, <2>2, <2>3 DEF SettleRead
<1> QED
  BY <1>1, <1>2, <1>3, Frame DEF Good, SendInd

LEMMA SettleChecksGood ==
    ASSUME SendInd, SettleChecks
    PROVE  Good
<1>1. UNCHANGED <<journal, rec, taken, host, exec, repair, discard, retry, retries, faults>>
  BY DEF SettleChecks
<1>2. RestOK' /\ taken' = taken /\ taken' \in BOOLEAN
  BY <1>1 DEF SendInd, RestOK
<1>3. SettleOK'
  <2>1. CASE settle' = Idle
    BY <2>1 DEF SettleOK, Settlements, Idle
  <2>2. CASE Answer(Unverified)
    BY <2>2, Answered, OutcomeFacts
  <2>3. CASE settle.status # None /\ settle' = [settle EXCEPT !.pc = "fence"]
    <3>1. settle = [pc |-> "read", status |-> settle.status] /\ settle.status \in Open \cup {None}
      BY SettleKinds DEF SettleChecks, SendInd, SettleOK
    <3>2. settle' = [pc |-> "fence", status |-> settle.status]
      BY <2>3, <3>1
    <3> QED
      BY <2>3, <3>1, <3>2 DEF SettleOK, Settlements
  <2> QED
    BY <2>1, <2>2, <2>3 DEF SettleChecks
<1> QED
  BY <1>1, <1>2, <1>3, Frame DEF Good, SendInd

LEMMA SettleFenceGood ==
    ASSUME SendInd, SettleFence
    PROVE  Good
<1>1. UNCHANGED <<winner, replaced, rec, taken, host, exec, repair, discard, retry, retries>>
  BY DEF SettleFence
<1>2. RestOK' /\ taken' = taken /\ taken' \in BOOLEAN
  BY <1>1 DEF SettleFence, SendInd, RestOK
<1>3. JournalOK' /\ Decides /\ SettleOK'
  <2>1. CASE EndBy("failed") /\ (Answer(Lost) \/ Answer(Unverified))
    BY <1>1, <1>2, <2>1, Ended, Answered, OutcomeFacts
  <2>2. CASE /\ settle' = [settle EXCEPT !.status = "delivering"]
             /\ UNCHANGED op
    <3>1. settle = [pc |-> "fence", status |-> settle.status]
      BY SettleKinds DEF SettleFence, SendInd, SettleOK
    <3>2. settle' = [pc |-> "fence", status |-> "delivering"]
      BY <2>2, <3>1
    <3>3. SettleOK'
      BY <3>2 DEF SettleOK, Settlements, Open
    <3>4. JournalOK' /\ Decides
      BY <1>1, <1>2, <2>2, Frame DEF journal
    <3> QED
      BY <3>3, <3>4
  <2>3. CASE /\ op.status \in Terminal
             /\ Answer(Verdict(op.status)) /\ UNCHANGED op
    BY <1>1, <1>2, <2>3, AnsweredStatus, Frame DEF journal
  <2>4. CASE EndBy("uncertain") /\ Answer(Unverified)
    BY <1>1, <1>2, <2>4, Ended, Answered, OutcomeFacts
  <2>5. CASE Answer(Unverified) /\ UNCHANGED op
    BY <1>1, <1>2, <2>5, Answered, OutcomeFacts, Frame DEF journal
  <2> QED
    BY <2>1, <2>2, <2>3, <2>4, <2>5 DEF SettleFence
<1> QED
  BY <1>1, <1>2, <1>3, Frame DEF Good, SendInd

LEMMA SettleProjectsGood ==
    ASSUME SendInd, SettleProjects
    PROVE  Good
<1>1. UNCHANGED <<journal, rec, taken, host, exec, repair, discard, retry, retries, faults>>
  BY DEF SettleProjects
<1>2. RestOK' /\ taken' = taken /\ taken' \in BOOLEAN
  BY <1>1 DEF SendInd, RestOK
<1>3. settle.outcome \in Outcomes /\ (settle.outcome.state = "delivered" => taken)
  BY SettleKinds DEF SettleProjects, SendInd, SettleOK
<1>4. PICK write \in {"outcome", "overwrite", "leave"} :
         settle' = [pc |-> "answer", outcome |-> settle.outcome, write |-> write]
  BY DEF SettleProjects, Projected
<1>5. SettleOK'
  BY <1>2, <1>3, <1>4 DEF SettleOK, Settlements
<1> QED
  BY <1>1, <1>2, <1>5, Frame DEF Good, SendInd

LEMMA SettleWriteGood ==
    ASSUME SendInd, SettleWrite
    PROVE  Good
<1>1. UNCHANGED <<journal, taken, host, exec, repair, discard, retry, retries, faults>>
  BY DEF SettleWrite
<1>2. RestOK' /\ taken' = taken /\ taken' \in BOOLEAN
  BY <1>1 DEF SendInd, RestOK
<1>3. /\ settle.outcome \in Outcomes /\ settle.write \in {"outcome", "overwrite", "leave"}
      /\ settle.outcome.state = "delivered" => taken
  BY SettleKinds DEF SettleWrite, SendInd, SettleOK
<1>4. RecordOK' /\ Stays
  <2>1. CASE settle.write = "outcome"
    BY <1>2, <1>3, <2>1, Recording DEF SettleWrite
  <2>2. CASE settle.write = "overwrite"
    BY <1>2, <1>3, <2>2, Overwriting DEF SettleWrite
  <2>3. CASE settle.write = "leave"
    BY <1>2, <2>3, Frame DEF SettleWrite
  <2> QED
    BY <1>3, <2>1, <2>2, <2>3
<1>5. SettleOK'
  BY DEF SettleWrite, SettleOK, Settlements, Idle
<1> QED
  BY <1>1, <1>2, <1>4, <1>5, Frame DEF Good, SendInd

-----------------------------------------------------------------------------
(* Discard                                                                 *)

LEMMA DiscardReadGood ==
    ASSUME SendInd, DiscardRead
    PROVE  Good
<1>1. UNCHANGED <<journal, rec, taken, host, exec, settle, repair, retry, retries, faults>>
  BY DEF DiscardRead
<1>2. RestOK' /\ taken' = taken /\ taken' \in BOOLEAN
  BY <1>1 DEF SendInd, RestOK
<1>3. DiscardOK'
  <2>1. CASE op.status = "delivered" /\ discard' = [pc |-> "deliver"]
    BY <1>2, <2>1 DEF SendInd, JournalOK, DiscardOK, Discards
  <2>2. CASE discard' = [pc |-> "journal", risk |-> DuplicateRisk(rec)]
    BY <2>2 DEF DiscardOK, Discards, DuplicateRisk
  <2>3. CASE discard' = [pc |-> "claim"]
    BY <2>3 DEF DiscardOK, Discards
  <2> QED
    BY <2>1, <2>2, <2>3 DEF DiscardRead
<1> QED
  BY <1>1, <1>2, <1>3, Frame DEF Good, SendInd

LEMMA DiscardJournalGood ==
    ASSUME SendInd, DiscardJournal
    PROVE  Good
<1>1. UNCHANGED <<replaced, rec, taken, host, exec, settle, repair, retry, retries, faults>>
  BY DEF DiscardJournal
<1>2. RestOK' /\ taken' = taken /\ taken' \in BOOLEAN
  BY <1>1 DEF SendInd, RestOK
<1>3. CASE winner # "retry" /\ op.status = "queued"
  <2>1. winner' = "discard" /\ op' = [status |-> "discarded", owner |-> None]
    BY <1>3 DEF DiscardJournal, To
  <2>2. JournalOK' /\ Decides
    BY <1>1, <1>3, <2>1 DEF SendInd, JournalOK, Decides, Open, Terminal
  <2>3. PICK d \in {"lost", "unverified"} : discard' = [pc |-> "record", disposition |-> d]
    BY <1>3 DEF DiscardJournal
  <2>4. DiscardOK'
    BY <2>3 DEF DiscardOK, Discards
  <2> QED
    BY <1>1, <1>2, <2>2, <2>4, Frame DEF Good, SendInd
<1>4. CASE ~(winner # "retry" /\ op.status = "queued")
  <2>1. UNCHANGED journal
    BY <1>1, <1>4 DEF DiscardJournal, journal
  <2>2. DiscardOK'
    <3>1. CASE discard' = Idle
      BY <3>1 DEF DiscardOK, Discards, Idle
    <3>2. CASE op.status = "delivered" /\ discard' = [pc |-> "deliver"]
      BY <1>2, <3>2 DEF SendInd, JournalOK, DiscardOK, Discards
    <3>3. CASE discard' = [pc |-> "record", disposition |-> "unverified"]
      BY <3>3 DEF DiscardOK, Discards
    <3> QED
      BY <1>4, <3>1, <3>2, <3>3 DEF DiscardJournal
  <2> QED
    BY <1>1, <1>2, <2>1, <2>2, Frame DEF Good, SendInd
<1> QED
  BY <1>3, <1>4

LEMMA DiscardClaimGood ==
    ASSUME SendInd, DiscardClaim
    PROVE  Good
<1>1. UNCHANGED <<replaced, rec, taken, host, exec, settle, repair, retry, retries, faults>>
  BY DEF DiscardClaim
<1>2. RestOK' /\ taken' = taken /\ taken' \in BOOLEAN
  BY <1>1 DEF SendInd, RestOK
<1>3. JournalOK' /\ Decides
  BY <1>1, <1>2, Claimed, Frame DEF DiscardClaim, journal
<1>4. discard' \in {Idle, [pc |-> "record", disposition |-> "unverified"]}
  BY DEF DiscardClaim
<1>5. DiscardOK'
  BY <1>4 DEF DiscardOK, Discards, Idle
<1> QED
  BY <1>1, <1>2, <1>3, <1>5, Frame DEF Good, SendInd

LEMMA DiscardRecordGood ==
    ASSUME SendInd, DiscardRecord
    PROVE  Good
<1>1. UNCHANGED <<journal, taken, host, exec, settle, repair, retry, retries, faults>>
  BY DEF DiscardRecord
<1>2. RestOK' /\ taken' = taken /\ taken' \in BOOLEAN
  BY <1>1 DEF SendInd, RestOK
<1>3. DiscardOK'
  BY DEF DiscardRecord, DiscardOK, Discards, Idle
<1>4. RecordOK' /\ Stays
  <2>1. CASE discard.pc = "deliver"
    <3>1. taken
      BY <2>1 DEF SendInd, DiscardOK
    <3> QED
      BY <1>2, <2>1, <3>1, Recording, OutcomeFacts DEF DiscardRecord, Outcomes
  <2>2. CASE discard.pc = "record"
    <3>1. discard.disposition \in {"lost", "unverified"}
      BY <2>2 DEF SendInd, DiscardOK, Discards, Idle
    <3>2. CASE InFlight(rec) \/ (rec.state = "failed" /\ Discardable(rec))
      <4>1. rec' = [state |-> "failed", disposition |-> discard.disposition, discarded |-> TRUE]
        BY <2>2, <3>2 DEF DiscardRecord, Outcome
      <4> QED
        BY <3>1, <3>2, <4>1 DEF RecordOK, Records, Stays, ResendSafe, InFlight
    <3>3. CASE ~(InFlight(rec) \/ (rec.state = "failed" /\ Discardable(rec)))
      BY <1>2, <2>2, <3>3, Frame DEF DiscardRecord
    <3> QED
      BY <3>2, <3>3
  <2> QED
    BY <2>1, <2>2 DEF DiscardRecord
<1> QED
  BY <1>1, <1>2, <1>3, <1>4, Frame DEF Good, SendInd

-----------------------------------------------------------------------------
(* Retry                                                                   *)

LEMMA RetryKinds ==
    ASSUME NEW r \in Retries
    PROVE  r.pc \in {"claim", "rearm", "begin", "requeue"} =>
              /\ r.status \in Open \cup Terminal
              /\ r = [pc |-> r.pc, status |-> r.status]
BY DEF Retries, Idle

(* A retry that gives up, or goes on to a place that needs no claim.       *)
LEMMA RetryRests ==
    ASSUME NEW r \in Retries, r.pc \notin {"rearm", "begin", "requeue"}, retry' = r
    PROVE  RetryOK'
BY DEF RetryOK

(* A retry that has won and goes on.                                       *)
LEMMA RetryGoesOn ==
    ASSUME SendInd, NEW pc \in {"rearm", "begin", "requeue"},
           retry.pc \in {"claim", "rearm", "begin"}, retry' = [retry EXCEPT !.pc = pc],
           winner' = "retry"
    PROVE  RetryOK'
<1>1. retry = [pc |-> retry.pc, status |-> retry.status] /\ retry.status \in Open \cup Terminal
  BY RetryKinds DEF SendInd, RetryOK
<1>2. retry' = [pc |-> pc, status |-> retry.status]
  BY <1>1
<1> QED
  BY <1>1, <1>2 DEF RetryOK, Retries

LEMMA IdleRests == Idle \in Retries /\ Idle.pc = "idle"
BY DEF Retries, Idle

LEMMA RetryFencesGood ==
    ASSUME SendInd, RetryFences
    PROVE  Good
<1>1. UNCHANGED <<winner, replaced, rec, taken, host, exec, calls, retries, faults>>
  BY DEF RetryFences
<1>2. RestOK' /\ taken' = taken /\ taken' \in BOOLEAN
  BY <1>1 DEF SendInd, RestOK
<1>3. JournalOK' /\ Decides
  BY <1>1, <1>2, Ended DEF RetryFences
<1> QED
  BY <1>1, <1>2, <1>3, Frame DEF calls, Good, SendInd

LEMMA RetryFreshGood ==
    ASSUME SendInd, RetryFresh
    PROVE  Good
<1>1. UNCHANGED <<op, rec, taken, host, exec, calls, faults>>
  BY DEF RetryFresh
<1>2. RestOK' /\ taken' = taken /\ taken' \in BOOLEAN
  BY <1>1 DEF RetryFresh, SendInd, RestOK
<1>3. JournalOK' /\ Decides
  BY <1>1, <1>2 DEF RetryFresh, SendInd, JournalOK, Decides
<1> QED
  BY <1>1, <1>2, <1>3, Frame DEF calls, Good, SendInd

LEMMA RetryReadGood ==
    ASSUME SendInd, RetryRead
    PROVE  Good
<1>1. UNCHANGED <<journal, rec, taken, host, exec, settle, repair, discard, faults>>
  BY DEF RetryRead
<1>2. RestOK' /\ taken' = taken /\ taken' \in BOOLEAN
  BY <1>1 DEF RetryRead, SendInd, RestOK
<1>3. RetryOK'
  BY RetryRests DEF RetryRead, Retries
<1> QED
  BY <1>1, <1>2, <1>3, Frame DEF Good, SendInd

LEMMA RetrySectionGood ==
    ASSUME SendInd, RetrySection
    PROVE  Good
<1>1. UNCHANGED <<journal, rec, taken, host, exec, settle, repair, discard, retries, faults>>
  BY DEF RetrySection
<1>2. RestOK' /\ taken' = taken /\ taken' \in BOOLEAN
  BY <1>1 DEF SendInd, RestOK
<1>3. RetryOK'
  <2>1. CASE retry' = Idle
    BY <2>1, IdleRests, RetryRests
  <2>2. CASE retry' = [pc |-> "claim", status |-> op.status]
    BY <2>2 DEF RetryOK, Retries, SendInd, JournalOK
  <2> QED
    BY <2>1, <2>2 DEF RetrySection
<1> QED
  BY <1>1, <1>2, <1>3, Frame DEF Good, SendInd

LEMMA RetryClaimGood ==
    ASSUME SendInd, RetryClaim
    PROVE  Good
<1>1. UNCHANGED <<replaced, rec, taken, host, exec, settle, repair, discard, retries, faults>>
  BY DEF RetryClaim
<1>2. RestOK' /\ taken' = taken /\ taken' \in BOOLEAN
  BY <1>1 DEF SendInd, RestOK
<1>3. JournalOK' /\ Decides
  BY <1>1, <1>2, Claimed, Frame DEF RetryClaim, journal
<1>4. RetryOK'
  <2>1. CASE retry' = Idle
    BY <2>1, IdleRests, RetryRests
  <2>2. CASE winner' = "retry" /\ retry' = [retry EXCEPT !.pc = "rearm"]
    BY <2>2, RetryGoesOn DEF RetryClaim
  <2> QED
    BY <2>1, <2>2 DEF RetryClaim
<1> QED
  BY <1>1, <1>2, <1>3, <1>4, Frame DEF Good, SendInd

LEMMA RetryRearmGood ==
    ASSUME SendInd, RetryRearm
    PROVE  Good
<1>1. UNCHANGED <<journal, taken, host, exec, settle, repair, discard, retries, faults>>
  BY DEF RetryRearm
<1>2. RestOK' /\ taken' = taken /\ taken' \in BOOLEAN
  BY <1>1 DEF SendInd, RestOK
<1>3. winner = "retry" /\ winner' = winner
  BY <1>1 DEF RetryRearm, SendInd, RetryOK, journal
<1>4. RecordOK' /\ Stays /\ RetryOK'
  <2>1. CASE InFlight(rec) \/ (rec.state = "failed" /\ rec.disposition = "unverified")
    <3>1. rec' = [state |-> "assigned", disposition |-> None, discarded |-> FALSE]
      BY <2>1 DEF RetryRearm, Outcome
    <3>2. RetryOK'
      BY <1>3, <2>1, RetryGoesOn DEF RetryRearm
    <3> QED
      BY <1>3, <2>1, <3>1, <3>2 DEF RecordOK, Records, Stays, ResendSafe, InFlight
  <2>2. CASE ~(InFlight(rec) \/ (rec.state = "failed" /\ rec.disposition = "unverified"))
    BY <1>2, <2>2, Frame, IdleRests, RetryRests DEF RetryRearm
  <2> QED
    BY <2>1, <2>2
<1> QED
  BY <1>1, <1>2, <1>4, Frame DEF Good, SendInd

LEMMA RetryBeginGood ==
    ASSUME SendInd, RetryBegin
    PROVE  Good
<1>1. UNCHANGED <<journal, taken, host, exec, settle, repair, discard, retries, faults>>
  BY DEF RetryBegin
<1>2. RestOK' /\ taken' = taken /\ taken' \in BOOLEAN
  BY <1>1 DEF SendInd, RestOK
<1>3. winner = "retry" /\ winner' = winner
  BY <1>1 DEF RetryBegin, SendInd, RetryOK, journal
<1>4. RecordOK' /\ Stays /\ RetryOK'
  <2>1. CASE /\ rec.state = "assigned"
             /\ rec' = [rec EXCEPT !.state = "delivery-uncertain"]
             /\ retry' = [retry EXCEPT !.pc = "requeue"]
    <3>1. RetryOK'
      BY <1>3, <2>1, RetryGoesOn DEF RetryBegin
    <3> QED
      BY <1>3, <2>1, <3>1 DEF SendInd, RecordOK, Records, Stays, ResendSafe
  <2>2. CASE UNCHANGED rec /\ retry' = Idle
    BY <1>2, <2>2, Frame, IdleRests, RetryRests
  <2>3. CASE UNCHANGED rec /\ retry' = [retry EXCEPT !.pc = "requeue"]
    <3>1. RetryOK'
      BY <1>3, <2>3, RetryGoesOn DEF RetryBegin
    <3> QED
      BY <1>2, <2>3, <3>1, Frame
  <2> QED
    BY <2>1, <2>2, <2>3 DEF RetryBegin
<1> QED
  BY <1>1, <1>2, <1>4, Frame DEF Good, SendInd

LEMMA RetryRequeueGood ==
    ASSUME SendInd, RetryRequeue
    PROVE  Good
<1>1. UNCHANGED <<replaced, rec, taken, host, exec, settle, repair, discard, retries, faults>>
  BY DEF RetryRequeue
<1>2. RestOK' /\ taken' = taken /\ taken' \in BOOLEAN
  BY <1>1 DEF SendInd, RestOK
<1>3. RetryOK'
  BY IdleRests, RetryRests DEF RetryRequeue
<1>4. winner = "retry"
  BY DEF RetryRequeue, SendInd, RetryOK
<1>5. JournalOK' /\ Decides
  <2>1. CASE winner' = "retry" /\ op' = To("queued")
    <3>1. op' = [status |-> "queued", owner |-> None]
      BY <2>1 DEF To
    <3> QED
      BY <1>1, <1>4, <2>1, <3>1 DEF SendInd, JournalOK, Decides, Open, Terminal
  <2>2. CASE UNCHANGED <<op, winner>>
    BY <1>1, <1>2, <2>2, Frame DEF journal
  <2> QED
    BY <2>1, <2>2 DEF RetryRequeue
<1> QED
  BY <1>1, <1>2, <1>3, <1>5, Frame DEF Good, SendInd

LEMMA CallStopsGood ==
    ASSUME SendInd, CallStops
    PROVE  Good
<1>1. UNCHANGED <<journal, rec, taken, host, exec, retries>>
  BY DEF CallStops
<1>2. RestOK' /\ taken' = taken /\ taken' \in BOOLEAN
  BY <1>1 DEF CallStops, SendInd, RestOK
<1>3. Decides
  BY <1>1, <1>2, Frame
<1>4. SettleOK'
  BY <1>2, Frame DEF CallStops, SettleOK, Settlements, Idle
<1>5. RepairOK'
  BY <1>2, Frame DEF CallStops, RepairOK
<1>6. DiscardOK'
  BY <1>2, Frame DEF CallStops, DiscardOK, Discards, Idle
<1>7. RetryOK'
  BY <1>2, <1>3, Frame, IdleRests, RetryRests DEF CallStops
<1> QED
  BY <1>1, <1>2, <1>4, <1>5, <1>6, <1>7, Frame DEF Good, SendInd

-----------------------------------------------------------------------------
(* The specification                                                       *)

LEMMA InitGood == Init => SendInd
<1> SUFFICES ASSUME Init PROVE SendInd
  OBVIOUS
<1> USE DEF Init
<1>1. JournalOK
  BY DEF JournalOK, Open, Terminal
<1>2. RecordOK
  BY DEF RecordOK, Records, Outcome
<1>3. PassesOK
  BY DEF PassesOK, Passes, Knows, Idle
<1>4. SettleOK /\ RepairOK /\ DiscardOK
  BY DEF SettleOK, Settlements, RepairOK, DiscardOK, Discards, Idle
<1>5. RetryOK /\ RestOK
  <2>1. RetryOK
    BY IdleRests DEF RetryOK
  <2>2. taken \in BOOLEAN
    BY ZenonT(20)
  <2>3. host \in Executors \cup {None}
    OBVIOUS
  <2>4. retries \in 0..MaxRetries /\ faults \in 0..MaxFaults
    BY SendAssumption
  <2> QED
    BY <2>1, <2>2, <2>3, <2>4 DEF RestOK
<1> QED
  BY <1>1, <1>2, <1>3, <1>4, <1>5 DEF SendInd

LEMMA PassesGood ==
    ASSUME SendInd, NEW x \in Executors, Pass(x)
    PROVE  Good
<1>1. CASE EndSettled(x)
  BY <1>1, EndUnknownGood DEF EndSettled
<1> QED
  BY <1>1, DrainGood, ReadRecordGood, EndAbandonedGood, DeadHostGood, RecoverGood,
     BeginGood, SendGood, SettleSendGood, ProjectGood DEF Pass

LEMMA CallsGood ==
    ASSUME SendInd, Repairing \/ Settling \/ Discarding \/ Retrying \/ CallStops
    PROVE  Good
<1>1. CASE Repairing
  BY <1>1, RepairReadGood, RepairConfirmsGood, RepairWriteGood DEF Repairing
<1>2. CASE Settling
  BY <1>2, SettleAsksGood, SettleConfirmsGood, SettleReadGood, SettleChecksGood,
     SettleFenceGood, SettleProjectsGood, SettleWriteGood DEF Settling
<1>3. CASE Discarding
  BY <1>3, DiscardReadGood, DiscardJournalGood, DiscardClaimGood, DiscardRecordGood
     DEF Discarding
<1>4. CASE Retrying
  BY <1>4, RetryFencesGood, RetryFreshGood, RetryReadGood, RetrySectionGood,
     RetryClaimGood, RetryRearmGood, RetryBeginGood, RetryRequeueGood DEF Retrying
<1> QED
  BY <1>1, <1>2, <1>3, <1>4, CallStopsGood

LEMMA NextGood == SendInd /\ [Next]_vars => Good
<1> SUFFICES ASSUME SendInd, [Next]_vars PROVE Good
  OBVIOUS
<1>1. CASE UNCHANGED vars
  <2>1. /\ UNCHANGED <<rec, taken, host, exec, settle, repair, discard, retry, retries, faults>>
        /\ UNCHANGED journal
    BY <1>1 DEF vars, calls
  <2>2. RestOK' /\ taken' = taken /\ taken' \in BOOLEAN
    BY <2>1 DEF SendInd, RestOK
  <2> QED
    BY <2>1, <2>2, Frame DEF Good, SendInd
<1>2. CASE \E x \in Executors : Pass(x) \/ HostReturns(x) \/ PassStops(x) \/ Crash(x)
  BY <1>2, PassesGood, HostReturnsGood, PassStopsGood, CrashGood
<1>3. CASE LoseHost \/ Repairing \/ Settling \/ Discarding \/ Retrying \/ CallStops
  BY <1>3, LoseHostGood, CallsGood
<1> QED
  BY <1>1, <1>2, <1>3 DEF Next

LEMMA SendIndHolds == Spec => []SendInd
<1>1. SendInd /\ [Next]_vars => SendInd'
  BY NextGood DEF Good
<1> QED
  BY InitGood, <1>1, PTL DEF Spec

-----------------------------------------------------------------------------
(* The theorems                                                            *)

(* Every store and every call at work has its shape; in particular an      *)
(* operation has an owner exactly while it is delivering, as the journal's *)
(* transitions keep it (journal.ts).                                       *)
THEOREM SendTyped == Spec => []TypeOK
<1>1. SendInd => TypeOK
  BY DEF SendInd, JournalOK, RecordOK, Records, PassesOK, SettleOK, RepairOK, DiscardOK,
         RetryOK, RestOK, TypeOK
<1> QED
  BY SendIndHolds, <1>1, PTL

(* Neither the journal nor the delivery record calls a message delivered   *)
(* that the agent does not have: whoever writes so carries the host's own  *)
(* answer or what the journal said of it.                                  *)
THEOREM NothingInvented == Spec => []DeliveredArrived
<1>1. SendInd => DeliveredArrived
  BY DEF SendInd, JournalOK, RecordOK, DeliveredArrived
<1> QED
  BY SendIndHolds, <1>1, PTL

(* Retry and Discard of one delivery: the first claimed row of the         *)
(* journal's action table decides for good, and nothing delivers or        *)
(* replaces a discarded operation.                                         *)
THEOREM OneDecider == Spec => OneDecision
<1>1. SendInd /\ [Next]_vars => [Decides]_vars
  BY NextGood DEF Good
<1> QED
  BY SendIndHolds, <1>1, PTL DEF Spec, OneDecision, Decides

(* What a sender was told stays so: a delivery is never revised, a record  *)
(* that allowed a resend never waits again for its first attempt, and a    *)
(* discard that decided stays recorded.                                    *)
THEOREM AnswersHold == Spec => AnswersStay
<1>1. SendInd /\ [Next]_vars => [Stays]_rec
  BY NextGood DEF Good
<1> QED
  BY SendIndHolds, <1>1, PTL DEF Spec, AnswersStay, Stays
=============================================================================
