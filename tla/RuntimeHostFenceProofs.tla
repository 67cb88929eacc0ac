----------------------- MODULE RuntimeHostFenceProofs -----------------------
(* Theorems about RuntimeHostFence, for all processes and files.           *)
EXTENDS RuntimeHostFence, TLAPS

Opened == {"opened", "observed"} \cup Inside
Later == {"owned", "checked", "truncated", "written", "held"}

(* A process past its open has a file.                                     *)
HasFile == \A h \in Hosts : host[h].pc \in Opened => host[h].fd \in Files

(* Who serves locked the file the pathname names.                          *)
HeldOnPath == \A h \in Hosts : At(h, "held") => host[h].fd = path

(* As long as the predecessor serves, its record is the only one and stops *)
(* everybody under the lock.                                               *)
Guarded ==
    legacy = "serving" =>
        /\ path = 1 /\ record[1] = "legacy"
        /\ \A h \in Hosts : host[h].fd \in {None, 1} /\ host[h].pc \notin Later

FenceInd == TypeOK /\ HasFile /\ HeldOnPath /\ Guarded

USE HostsAssumption

LEMMA InitInd == Init => FenceInd
<1>1. 1 \in Files
  BY DEF Files
<1> QED
  BY <1>1 DEF Init, FenceInd, TypeOK, HasFile, HeldOnPath, Guarded, Waiting, Inside, Opened,
              Later, At, Files

(* A step of one process that moves it alone: what has to hold of its new  *)
(* place.                                                                  *)
Places == [pc : {"waiting", "gone", "expired", "exists", "opened", "observed"} \cup Inside,
           fd : Files \cup {None}, created : BOOLEAN]

LEMMA MoveInd ==
    ASSUME FenceInd, NEW h \in Hosts, NEW p \in Places,
           host' = [host EXCEPT ![h] = p],
           UNCHANGED <<path, legacy>>,
           record' \in [Files -> {"unused", "empty", "legacy", "host"}],
           lock' \in [Files -> Hosts \cup {None}],
           \A f \in Files, g \in Hosts : g # h => (lock'[f] = g <=> lock[f] = g),
           \A f \in Files : lock'[f] = h <=> p.pc \in Inside /\ p.fd = f,
           p.pc \in Opened => p.fd \in Files,
           p.pc = "held" => p.fd = path,
           legacy = "serving" => /\ record'[1] = "legacy"
                                 /\ p.fd \in {None, 1} /\ p.pc \notin Later
    PROVE  FenceInd'
<1>1. host \in [Hosts -> Places]
  BY DEF FenceInd, TypeOK, Places
<1>2. host' \in [Hosts -> Places] /\ host'[h] = p /\ \A g \in Hosts \ {h} : host'[g] = host[g]
  BY <1>1
<1>3. TypeOK'
  <2>1. \A f \in Files, g \in Hosts : lock'[f] = g <=> host'[g].pc \in Inside /\ host'[g].fd = f
    <3>1. SUFFICES ASSUME NEW f \in Files, NEW g \in Hosts
                   PROVE  lock'[f] = g <=> host'[g].pc \in Inside /\ host'[g].fd = f
      OBVIOUS
    <3>2. CASE g = h
      BY <1>2, <3>2
    <3>3. CASE g # h
      BY <1>2, <3>3 DEF FenceInd, TypeOK
    <3> QED
      BY <3>2, <3>3
  <2> QED
    BY <1>2, <2>1 DEF FenceInd, TypeOK, Places, Files
<1>4. HasFile'
  BY <1>2 DEF FenceInd, HasFile, Files
<1>5. HeldOnPath'
  BY <1>2 DEF FenceInd, HeldOnPath, At
<1>6. Guarded'
  BY <1>2 DEF FenceInd, Guarded
<1> QED
  BY <1>3, <1>4, <1>5, <1>6 DEF FenceInd

(* Giving lock and descriptor back.                                        *)
LEMMA ClosedInd ==
    ASSUME FenceInd, NEW h \in Hosts, NEW p \in {Waiting, Gone, Expired},
           host' = [host EXCEPT ![h] = p], lock' = Unlocked(h),
           UNCHANGED <<path, record, legacy>>
    PROVE  FenceInd'
<1>1. p \in Places /\ p.pc \in {"waiting", "gone", "expired"} /\ p.fd = None
  <2>1. CASE p = Waiting
    BY <2>1 DEF Places, Waiting
  <2>2. CASE p = Gone
    BY <2>2 DEF Places, Waiting, Gone
  <2>3. CASE p = Expired
    BY <2>3 DEF Places, Waiting, Expired
  <2> QED
    BY <2>1, <2>2, <2>3
<1>2. /\ lock \in [Files -> Hosts \cup {None}]
      /\ record \in [Files -> {"unused", "empty", "legacy", "host"}]
  BY DEF FenceInd, TypeOK
<1>3. \A f \in Files : lock'[f] = IF lock[f] = h THEN None ELSE lock[f]
  BY DEF Unlocked
<1>4. lock' \in [Files -> Hosts \cup {None}]
  BY <1>2 DEF Unlocked
<1>5. p.pc \notin Opened /\ p.pc \notin Later /\ p.pc \notin Inside
  BY <1>1 DEF Opened, Later, Inside
<1>6. \A f \in Files, g \in Hosts : g # h => (lock'[f] = g <=> lock[f] = g)
  BY <1>3
<1>7. \A f \in Files : lock'[f] = h <=> p.pc \in Inside /\ p.fd = f
  BY <1>3, <1>5
<1>8. legacy = "serving" => record'[1] = "legacy"
  BY DEF FenceInd, Guarded
<1>9. p.pc # "held"
  BY <1>1
<1> QED
  BY <1>1, <1>2, <1>4, <1>5, <1>6, <1>7, <1>8, <1>9, MoveInd

LEMMA RefusedInd ==
    ASSUME FenceInd, NEW h \in Hosts, Refused(h)
    PROVE  FenceInd'
<1>1. PICK p \in NextTries(h) : host' = [host EXCEPT ![h] = p]
  BY DEF Refused
<1>2. p \in {Waiting, Gone, Expired}
  BY DEF NextTries
<1> QED
  BY <1>1, <1>2, ClosedInd DEF Refused

(* A step further with the same descriptor.                                *)
LEMMA StepInd ==
    ASSUME FenceInd, NEW h \in Hosts, NEW pc \in Opened, Step(h, pc),
           host[h].pc \in Opened,
           UNCHANGED <<path, legacy>>,
           record' \in [Files -> {"unused", "empty", "legacy", "host"}],
           lock' \in [Files -> Hosts \cup {None}],
           \A f \in Files, g \in Hosts : g # h => (lock'[f] = g <=> lock[f] = g),
           \A f \in Files : lock'[f] = h <=> pc \in Inside /\ host[h].fd = f,
           pc = "held" => host[h].fd = path,
           legacy = "serving" => record'[1] = "legacy" /\ pc \notin Later
    PROVE  FenceInd'
<1> DEFINE p == [host[h] EXCEPT !.pc = pc]
<1>1. host[h] \in Places
  BY DEF FenceInd, TypeOK, Places
<1>2. p \in Places /\ p.pc = pc /\ p.fd = host[h].fd
  BY <1>1 DEF Places, Opened
<1>3. host' = [host EXCEPT ![h] = p]
  BY DEF Step
<1>4. host[h].fd \in Files
  BY DEF FenceInd, HasFile
<1>5. legacy = "serving" => host[h].fd \in {None, 1}
  BY DEF FenceInd, Guarded
<1> HIDE DEF p
<1>6. \A f \in Files : lock'[f] = h <=> p.pc \in Inside /\ p.fd = f
  BY <1>2
<1>7. p.pc = "held" => p.fd = path
  BY <1>2
<1>8. legacy = "serving" => /\ record'[1] = "legacy"
                            /\ p.fd \in {None, 1} /\ p.pc \notin Later
  BY <1>2, <1>5
<1>9. p.pc \in Opened => p.fd \in Files
  BY <1>2, <1>4
<1> QED
  BY <1>2, <1>3, <1>6, <1>7, <1>8, <1>9, MoveInd

(* As StepInd, with the files and locks as they are.                       *)
LEMMA PassInd ==
    ASSUME FenceInd, NEW h \in Hosts, NEW pc \in Opened, Step(h, pc),
           host[h].pc \in Opened, host[h].pc \in Inside <=> pc \in Inside,
           UNCHANGED <<path, record, lock, legacy>>,
           pc = "held" => host[h].fd = path,
           legacy = "serving" => pc \notin Later
    PROVE  FenceInd'
<1>1. /\ record' \in [Files -> {"unused", "empty", "legacy", "host"}]
      /\ lock' \in [Files -> Hosts \cup {None}]
  BY DEF FenceInd, TypeOK
<1>2. \A f \in Files : lock'[f] = h <=> pc \in Inside /\ host[h].fd = f
  BY DEF FenceInd, TypeOK
<1>3. legacy = "serving" => record'[1] = "legacy"
  BY DEF FenceInd, Guarded
<1> QED
  BY <1>1, <1>2, <1>3, StepInd

-----------------------------------------------------------------------------
(* The actions                                                              *)

LEMMA CreateInd ==
    ASSUME FenceInd, NEW h \in Hosts, Create(h)
    PROVE  FenceInd'
<1>1. host[h] \in Places /\ host[h].pc = "waiting" /\ host \in [Hosts -> Places]
  BY DEF FenceInd, TypeOK, Places, Create, At
<1>2. /\ lock \in [Files -> Hosts \cup {None}]
      /\ record \in [Files -> {"unused", "empty", "legacy", "host"}]
      /\ \A f \in Files : lock[f] # h
  BY <1>1 DEF FenceInd, TypeOK, Inside
<1>3. CASE path = None
  <2>1. legacy # "serving"
    BY <1>3 DEF FenceInd, Guarded
  <2>2. PICK f \in Files :
          /\ path' = f /\ record' = [record EXCEPT ![f] = "empty"]
          /\ host' = [host EXCEPT ![h] = [pc |-> "opened", fd |-> f, created |-> TRUE]]
    BY <1>3 DEF Create
  <2>3. UNCHANGED <<lock, legacy>>
    BY DEF Create
  <2>4. /\ host'[h] = [pc |-> "opened", fd |-> f, created |-> TRUE]
        /\ \A g \in Hosts \ {h} : host'[g] = host[g]
    BY <1>1, <2>2
  <2>5. host' \in [Hosts -> Places]
    BY <1>1, <2>2 DEF Places
  <2>6. \A e \in Files, g \in Hosts : lock'[e] = g <=> host'[g].pc \in Inside /\ host'[g].fd = e
    BY <1>1, <1>2, <2>3, <2>4 DEF FenceInd, TypeOK, Inside
  <2>7. TypeOK'
    BY <1>2, <2>2, <2>3, <2>5, <2>6 DEF FenceInd, TypeOK, Places, Files
  <2>8. HasFile'
    BY <2>4 DEF FenceInd, HasFile, Files
  <2>9. HeldOnPath'
    <3>1. \A g \in Hosts : ~At(g, "held")
      BY <1>3 DEF FenceInd, HeldOnPath, HasFile, At, Opened, Inside, Files
    <3> QED
      BY <2>4, <3>1 DEF HeldOnPath, At
  <2>10. Guarded'
    BY <2>1, <2>3 DEF Guarded
  <2> QED
    BY <2>7, <2>8, <2>9, <2>10 DEF FenceInd
<1>4. CASE path # None
  <2> DEFINE p == [host[h] EXCEPT !.pc = "exists"]
  <2>1. p \in Places /\ p.pc = "exists" /\ p.fd = host[h].fd
    BY <1>1 DEF Places
  <2>2. host' = [host EXCEPT ![h] = p] /\ UNCHANGED <<path, record, lock, legacy>>
    BY <1>4 DEF Create, Step
  <2>3. legacy = "serving" => record'[1] = "legacy" /\ host[h].fd \in {None, 1}
    BY <2>2 DEF FenceInd, Guarded
  <2> HIDE DEF p
  <2>4. p.pc \notin Opened /\ p.pc \notin Inside /\ p.pc \notin Later /\ p.pc # "held"
    BY <2>1 DEF Opened, Inside, Later
  <2>5. legacy = "serving" => /\ record'[1] = "legacy"
                              /\ p.fd \in {None, 1} /\ p.pc \notin Later
    BY <2>1, <2>3, <2>4
  <2>6. \A f \in Files : lock'[f] = h <=> p.pc \in Inside /\ p.fd = f
    BY <1>2, <2>2, <2>4
  <2> QED
    BY <1>2, <2>1, <2>2, <2>4, <2>5, <2>6, MoveInd
<1> QED
  BY <1>3, <1>4

LEMMA OpenExistingInd ==
    ASSUME FenceInd, NEW h \in Hosts, OpenExisting(h)
    PROVE  FenceInd'
<1>1. CASE path = None
  BY <1>1, RefusedInd DEF OpenExisting
<1>2. CASE path # None
  <2> DEFINE p == [host[h] EXCEPT !.pc = "opened", !.fd = path]
  <2>1. host[h] \in Places /\ path \in Files /\ host[h].pc = "exists"
    BY <1>2 DEF FenceInd, TypeOK, Places, OpenExisting, At
  <2>2. p \in Places /\ p.pc = "opened" /\ p.fd = path
    BY <2>1 DEF Places
  <2>3. host' = [host EXCEPT ![h] = p] /\ UNCHANGED <<path, record, lock, legacy>>
    BY <1>2 DEF OpenExisting
  <2> HIDE DEF p
  <2>4. /\ lock' \in [Files -> Hosts \cup {None}]
        /\ record' \in [Files -> {"unused", "empty", "legacy", "host"}]
        /\ \A f \in Files : lock'[f] # h
    BY <2>1, <2>3 DEF FenceInd, TypeOK, Inside
  <2>5. \A f \in Files : lock'[f] = h <=> p.pc \in Inside /\ p.fd = f
    BY <2>2, <2>4 DEF Inside
  <2>6. legacy = "serving" => /\ record'[1] = "legacy"
                              /\ p.fd \in {None, 1} /\ p.pc \notin Later
    BY <2>2, <2>3 DEF FenceInd, Guarded, Later
  <2> QED
    BY <2>1, <2>2, <2>3, <2>4, <2>5, <2>6, MoveInd
<1> QED
  BY <1>1, <1>2

LEMMA ReadInd ==
    ASSUME FenceInd, NEW h \in Hosts,
           ReadOwner(h) \/ ReadLockedOwner(h) \/ CheckPath(h) \/ Recheck(h)
    PROVE  FenceInd'
<1> USE DEF Opened, Inside, Later, At
<1>1. CASE Refused(h)
  BY <1>1, RefusedInd
<1>2. CASE ReadOwner(h) /\ ~Refused(h)
  BY <1>2, PassInd DEF ReadOwner
<1>3. CASE ReadLockedOwner(h) /\ ~Refused(h)
  <2>1. host[h].fd \in Files /\ ~HeldByRecord(h)
    BY <1>3 DEF FenceInd, HasFile, ReadLockedOwner
  <2>2. legacy # "serving"
    BY <2>1 DEF HeldByRecord, FenceInd, Guarded, Files
  <2> QED
    BY <1>3, <2>2, PassInd DEF ReadLockedOwner
<1>4. CASE CheckPath(h) /\ ~Refused(h)
  BY <1>4, PassInd DEF CheckPath, FenceInd, Guarded
<1>5. CASE Recheck(h) /\ ~Refused(h)
  BY <1>5, PassInd DEF Recheck, Canonical, FenceInd, Guarded
<1> QED
  BY <1>1, <1>2, <1>3, <1>4, <1>5

LEMMA TryLockInd ==
    ASSUME FenceInd, NEW h \in Hosts, TryLock(h)
    PROVE  FenceInd'
<1>1. CASE Refused(h)
  BY <1>1, RefusedInd
<1>2. CASE ~Refused(h)
  <2>1. /\ host[h].pc = "observed" /\ host[h].fd \in Files /\ lock[host[h].fd] = None
        /\ lock' = [lock EXCEPT ![host[h].fd] = h]
        /\ Step(h, "locked") /\ UNCHANGED <<path, record, legacy>>
    BY <1>2 DEF TryLock, At, FenceInd, HasFile, Opened
  <2>2. /\ lock \in [Files -> Hosts \cup {None}]
        /\ record' \in [Files -> {"unused", "empty", "legacy", "host"}]
        /\ \A f \in Files : lock[f] # h
    BY <2>1 DEF FenceInd, TypeOK, Inside
  <2>3. /\ lock' \in [Files -> Hosts \cup {None}]
        /\ \A f \in Files : lock'[f] = IF f = host[h].fd THEN h ELSE lock[f]
    BY <2>1, <2>2
  <2>4. \A f \in Files, g \in Hosts : g # h => (lock'[f] = g <=> lock[f] = g)
    BY <2>1, <2>3
  <2>5. \A f \in Files : lock'[f] = h <=> "locked" \in Inside /\ host[h].fd = f
    BY <2>2, <2>3 DEF Inside
  <2>6. legacy = "serving" => record'[1] = "legacy" /\ "locked" \notin Later
    BY <2>1 DEF FenceInd, Guarded, Later
  <2>7. "locked" \in Opened /\ host[h].pc \in Opened
    BY <2>1 DEF Opened, Inside
  <2> QED
    BY <2>1, <2>2, <2>3, <2>4, <2>5, <2>6, <2>7, StepInd
<1> QED
  BY <1>1, <1>2

(* The record changes under the lock only.                                 *)
LEMMA RecordInd ==
    ASSUME FenceInd, NEW h \in Hosts, Truncate(h) \/ Write(h)
    PROVE  FenceInd'
<1>1. CASE Refused(h)
  BY <1>1, RefusedInd
<1>2. CASE ~Refused(h)
  <2>1. PICK pc \in {"truncated", "written"}, r \in {"empty", "host"} :
          Step(h, pc) /\ record' = [record EXCEPT ![host[h].fd] = r]
    BY <1>2 DEF Truncate, Write
  <2>2. /\ host[h].pc \in {"checked", "truncated"}
        /\ UNCHANGED <<path, lock, legacy>>
    BY <1>2 DEF Truncate, Write, At
  <2>3. legacy # "serving"
    BY <2>2 DEF FenceInd, Guarded, Later
  <2>4. /\ record' \in [Files -> {"unused", "empty", "legacy", "host"}]
        /\ lock' \in [Files -> Hosts \cup {None}]
        /\ \A f \in Files : lock'[f] = h <=> pc \in Inside /\ host[h].fd = f
    BY <2>1, <2>2 DEF FenceInd, TypeOK, Inside
  <2>5. pc \in Opened /\ host[h].pc \in Opened /\ pc # "held"
    BY <2>2 DEF Opened, Inside
  <2> QED
    BY <2>1, <2>2, <2>3, <2>4, <2>5, StepInd
<1> QED
  BY <1>1, <1>2

LEMMA LifeInd ==
    ASSUME FenceInd, NEW h \in Hosts, Release(h) \/ Die(h) \/ Restart(h)
    PROVE  FenceInd'
<1>1. CASE Leave(h)
  BY <1>1, ClosedInd DEF Leave
<1>2. CASE Restart(h)
  <2>1. lock \in [Files -> Hosts \cup {None}] /\ host[h].pc \in {"gone", "expired"}
    BY <1>2 DEF Restart, FenceInd, TypeOK, Gone, Expired, Waiting
  <2>2. \A f \in Files : lock[f] # h
    BY <2>1 DEF FenceInd, TypeOK, Inside
  <2>3. lock' = Unlocked(h)
    BY <1>2, <2>1, <2>2 DEF Restart, Unlocked
  <2> QED
    BY <1>2, <2>3, ClosedInd DEF Restart
<1> QED
  BY <1>1, <1>2 DEF Release, Die

LEMMA OthersInd ==
    ASSUME FenceInd, LegacyLeaves \/ LegacyExits \/ RemoveFile
    PROVE  FenceInd'
<1> USE DEF FenceInd, TypeOK, HasFile, HeldOnPath, Guarded, At
<1>1. CASE LegacyLeaves
  BY <1>1 DEF LegacyLeaves, Later
<1>2. CASE LegacyExits
  BY <1>2 DEF LegacyExits
<1>3. CASE RemoveFile
  BY <1>3 DEF RemoveFile
<1> QED
  BY <1>1, <1>2, <1>3

LEMMA NextInd == FenceInd /\ [Next]_vars => FenceInd'
<1> SUFFICES ASSUME FenceInd, [Next]_vars PROVE FenceInd'
  OBVIOUS
<1>1. CASE UNCHANGED vars
  BY <1>1 DEF vars, FenceInd, TypeOK, HasFile, HeldOnPath, Guarded, At
<1>2. CASE \E h \in Hosts : Acquire(h) \/ Release(h) \/ Die(h) \/ Restart(h)
  BY <1>2, CreateInd, OpenExistingInd, ReadInd, TryLockInd, RecordInd, LifeInd DEF Acquire
<1>3. CASE LegacyLeaves \/ LegacyExits \/ RemoveFile
  BY <1>3, OthersInd
<1> QED
  BY <1>1, <1>2, <1>3 DEF Next

(* Every lock belongs to the process whose descriptor it is.               *)
THEOREM FenceTyped == Spec => []TypeOK
<1>1. FenceInd => TypeOK
  BY DEF FenceInd
<1> QED
  BY InitInd, NextInd, <1>1, PTL DEF Spec

(* One generation at most serves, for any number of contenders and         *)
(* replaced files: whoever serves locked the file of the pathname, and the *)
(* predecessor's record stopped everybody under that lock.                 *)
THEOREM FenceExcludes == Spec => []OneHost
<1>1. FenceInd => OneHost
  <2>1. SUFFICES ASSUME FenceInd PROVE OneHost
    OBVIOUS
  <2>2. ASSUME NEW g \in Hosts, NEW h \in Hosts, At(g, "held"), At(h, "held")
        PROVE  g = h
    <3>1. /\ host[g].fd = path /\ host[h].fd = path /\ path \in Files
          /\ host[g].pc \in Inside /\ host[h].pc \in Inside
      BY <2>1, <2>2 DEF FenceInd, HeldOnPath, HasFile, At, Opened, Inside
    <3>2. lock[path] = g /\ lock[path] = h
      BY <2>1, <3>1 DEF FenceInd, TypeOK
    <3> QED
      BY <3>2
  <2>3. legacy = "serving" => \A h \in Hosts : ~At(h, "held")
    BY <2>1 DEF FenceInd, Guarded, Later, At
  <2> QED
    BY <2>2, <2>3 DEF OneHost
<1> QED
  BY InitInd, NextInd, <1>1, PTL DEF Spec
=============================================================================
