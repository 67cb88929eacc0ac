------------------------- MODULE RuntimeHostFence -------------------------
(***************************************************************************)
(* The singleton fence of the runtime host                                 *)
(* (src/runtime-host/runtimeHostFence.ts, fenceLock.ts) and the wait for   *)
(* it at boot (fenceWait.ts).                                              *)
(*                                                                         *)
(* The fence is a kernel lock on an open file; the record in the file says *)
(* who took it and guards against a predecessor of an older release, which *)
(* has no lock and owns the pathname alone.  Between two system calls of   *)
(* one process the others go on, and any of them may die.                  *)
(***************************************************************************)
EXTENDS Naturals

CONSTANTS
    Hosts,    \* runtime host processes, each restarted when it ends
    Parked,   \* those that were staged to wait without a deadline
    MaxFiles, \* bound: files the pathname names one after the other
    None

ASSUME HostsAssumption ==
    Parked \subseteq Hosts /\ MaxFiles \in Nat \ {0} /\ None \notin Hosts \cup Nat

VARIABLES
    path,     \* the file the pathname names
    record,   \* a file's owner record
    lock,     \* who holds the kernel lock on a file
    host,     \* a process, where it is in `acquire'
    legacy    \* the predecessor of the older release

vars == <<path, record, lock, host, legacy>>

Files == 1..MaxFiles

Waiting == [pc |-> "waiting", fd |-> None, created |-> FALSE]
Gone == [Waiting EXCEPT !.pc = "gone"]
Expired == [Waiting EXCEPT !.pc = "expired"]
At(h, pc) == host[h].pc = pc
Step(h, pc) == host' = [host EXCEPT ![h].pc = pc]

(* Closing the descriptor frees its lock, as the process's death does.     *)
Unlocked(h) == [f \in Files |-> IF lock[f] = h THEN None ELSE lock[f]]

(* acquireRuntimeHostFence: a parked process never gives up, any other may *)
(* be past its budget.                                                     *)
NextTries(h) == IF h \in Parked THEN {Waiting} ELSE {Waiting, Expired}

(* acquire throws: lock and descriptor are given back.                     *)
Refused(h) ==
    /\ host' \in {[host EXCEPT ![h] = next] : next \in NextTries(h)}
    /\ lock' = Unlocked(h)
    /\ UNCHANGED <<path, record, legacy>>

(* A record cannot be read, or names a predecessor that is alive.          *)
(* Mutant: the predecessor's record holds after its death.                 *)
HeldByRecordStaleBug(h) ==
    LET owner == record[host[h].fd] IN
    owner = "legacy" \/ (owner = "empty" /\ ~host[h].created)

HeldByRecord(h) ==
    LET owner == record[host[h].fd] IN
    \/ owner = "empty" /\ ~host[h].created
    \/ owner = "legacy" /\ legacy # "dead"

(* The descriptor's file is still the one the pathname names.              *)
(* Mutant: the pathname is not looked at again.                            *)
CanonicalBug(h) == TRUE

Canonical(h) == host[h].fd = path

-----------------------------------------------------------------------------
(* acquire                                                                 *)

Create(h) ==
    /\ At(h, "waiting")
    /\ IF path = None
       THEN \E f \in Files :
              /\ record[f] = "unused"
              /\ path' = f /\ record' = [record EXCEPT ![f] = "empty"]
              /\ host' = [host EXCEPT ![h] = [pc |-> "opened", fd |-> f, created |-> TRUE]]
       ELSE Step(h, "exists") /\ UNCHANGED <<path, record>>
    /\ UNCHANGED <<lock, legacy>>

OpenExisting(h) ==
    /\ At(h, "exists")
    /\ IF path = None THEN Refused(h)
       ELSE /\ host' = [host EXCEPT ![h].pc = "opened", ![h].fd = path]
            /\ UNCHANGED <<path, record, lock, legacy>>

ReadOwner(h) ==
    /\ At(h, "opened")
    /\ IF HeldByRecord(h) THEN Refused(h)
       ELSE Step(h, "observed") /\ UNCHANGED <<path, record, lock, legacy>>

TryLock(h) ==
    /\ At(h, "observed")
    /\ IF lock[host[h].fd] # None THEN Refused(h)
       ELSE /\ lock' = [lock EXCEPT ![host[h].fd] = h]
            /\ Step(h, "locked") /\ UNCHANGED <<path, record, legacy>>

ReadLockedOwner(h) ==
    /\ At(h, "locked")
    /\ IF HeldByRecord(h) THEN Refused(h)
       ELSE Step(h, "owned") /\ UNCHANGED <<path, record, lock, legacy>>

CheckPath(h) ==
    /\ At(h, "owned")
    /\ IF ~Canonical(h) THEN Refused(h)
       ELSE Step(h, "checked") /\ UNCHANGED <<path, record, lock, legacy>>

Truncate(h) ==
    /\ At(h, "checked")
    /\ record' = [record EXCEPT ![host[h].fd] = "empty"]
    /\ Step(h, "truncated") /\ UNCHANGED <<path, lock, legacy>>

(* The record, unless the file system refuses it.                          *)
Write(h) ==
    /\ At(h, "truncated")
    /\ \/ /\ record' = [record EXCEPT ![host[h].fd] = "host"]
          /\ Step(h, "written") /\ UNCHANGED <<path, lock, legacy>>
       \/ Refused(h)

Recheck(h) ==
    /\ At(h, "written")
    /\ IF ~Canonical(h) THEN Refused(h)
       ELSE Step(h, "held") /\ UNCHANGED <<path, record, lock, legacy>>

(* Mutant: the file is closed and its lock stays.                          *)
LeaveLockedBug(h) ==
    /\ host' = [host EXCEPT ![h] = Gone]
    /\ UNCHANGED <<path, record, lock, legacy>>

Leave(h) ==
    /\ host' = [host EXCEPT ![h] = Gone] /\ lock' = Unlocked(h)
    /\ UNCHANGED <<path, record, legacy>>

Release(h) == At(h, "held") /\ Leave(h)
Die(h) == host[h] \notin {Gone, Expired} /\ Leave(h)

Restart(h) ==
    /\ host[h] \in {Gone, Expired} /\ host' = [host EXCEPT ![h] = Waiting]
    /\ UNCHANGED <<path, record, lock, legacy>>

-----------------------------------------------------------------------------
Spare == \E f \in Files : record[f] = "unused"

(* The predecessor goes, with its file or, killed, without.                *)
LegacyLeaves ==
    /\ legacy = "serving"
    /\ \/ Spare /\ legacy' = "leaving" /\ path' = None
       \/ legacy' = "dead" /\ UNCHANGED path
    /\ UNCHANGED <<record, lock, host>>

LegacyExits ==
    /\ legacy = "leaving" /\ legacy' = "dead"
    /\ UNCHANGED <<path, record, lock, host>>

(* Somebody removes the file of a fence nobody serves behind, the only way *)
(* out when it was left empty.                                             *)
RemoveFile ==
    /\ Spare /\ path # None /\ path' = None
    /\ legacy = "dead" /\ \A h \in Hosts : ~At(h, "held")
    /\ UNCHANGED <<record, lock, host, legacy>>

Init ==
    /\ \/ /\ legacy = "serving" /\ path = 1
          /\ record = [f \in Files |-> IF f = 1 THEN "legacy" ELSE "unused"]
       \/ /\ legacy = "dead" /\ path = None
          /\ record = [f \in Files |-> "unused"]
    /\ lock = [f \in Files |-> None]
    /\ host = [h \in Hosts |-> Waiting]

Acquire(h) ==
    \/ Create(h) \/ OpenExisting(h) \/ ReadOwner(h) \/ TryLock(h) \/ ReadLockedOwner(h)
    \/ CheckPath(h) \/ Truncate(h) \/ Write(h) \/ Recheck(h)

Next ==
    \/ \E h \in Hosts : Acquire(h) \/ Release(h) \/ Die(h) \/ Restart(h)
    \/ LegacyLeaves \/ LegacyExits \/ RemoveFile

Spec == Init /\ [][Next]_vars

(* A booting process keeps trying, on a timer; a predecessor that is going *)
(* ends.  Nobody has to leave, but the other generations are not restarted *)
(* for ever: each attempt of theirs can refuse one of the waiter's.        *)
FairSpec ==
    /\ Spec
    /\ \A h \in Hosts : WF_vars(Acquire(h))
    /\ WF_vars(LegacyExits)
    /\ <>[][\A h \in Hosts : ~Restart(h)]_host

-----------------------------------------------------------------------------
Inside == {"locked", "owned", "checked", "truncated", "written", "held"}

(* A lock belongs to a process that is past it in `acquire', on the file   *)
(* it opened, and to no other.                                             *)
TypeOK ==
    /\ path \in Files \cup {None}
    /\ record \in [Files -> {"unused", "empty", "legacy", "host"}]
    /\ lock \in [Files -> Hosts \cup {None}]
    /\ legacy \in {"serving", "leaving", "dead"}
    /\ host \in [Hosts -> [pc : {"waiting", "gone", "expired", "exists", "opened", "observed"} \cup Inside,
                           fd : Files \cup {None}, created : BOOLEAN]]
    /\ \A f \in Files, h \in Hosts : lock[f] = h <=> host[h].pc \in Inside /\ host[h].fd = f

(* Of all generations, the predecessor without a lock included, one at     *)
(* most serves, whoever removed or replaced the file while another opened  *)
(* or locked it (runtimeHostFence.ts:131, :145).                           *)
OneHost ==
    /\ \A g, h \in Hosts : At(g, "held") /\ At(h, "held") => g = h
    /\ legacy = "serving" => \A h \in Hosts : ~At(h, "held")

(* The file is empty and nobody is left to write it: every later acquire   *)
(* takes it for held (runtimeHostFence.ts:118).                            *)
Abandoned ==
    /\ path # None /\ record[path] = "empty"
    /\ \A h \in Hosts : host[h].fd = path => ~host[h].created /\ ~At(h, "truncated")

(* While a parked successor lives and no predecessor serves, somebody gets *)
(* the fence again and again, whoever else tried, gave up, left or died    *)
(* (fenceWait.ts:88, "a parked wait never gives up"); unless a process     *)
(* ended between emptying the file and writing it.                         *)
ParkedServes ==
    \A h \in Parked :
        []<>(At(h, "gone") \/ legacy = "serving" \/ Abandoned \/ \E g \in Hosts : At(g, "held"))
=============================================================================
