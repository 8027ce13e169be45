----------------------------- MODULE KeeperLock -----------------------------
(***************************************************************************)
(* How keeper processes exclude each other: the lock file of               *)
(* keeper/src/shared/lock.ts, the abstract socket of shared/host_lock.ts,  *)
(* and the order in which run/lock.ts takes and drops the two.             *)
(*                                                                         *)
(* One step is one system call on the shared lock file, since other        *)
(* processes run between any two of them.  Time is the age of the record:  *)
(* the time since its mtime, its updatedAtMs and its expiresAtMs - TTL,    *)
(* which the code always writes together.  A process answers its timers at *)
(* once unless it is stalled (stopped, suspended, its event loop blocked). *)
(***************************************************************************)
EXTENDS Integers

CONSTANTS
  Keepers,     \* the processes; a restarted one is another owner in its place
  NoOwner,     \* ownerId of a process that is gone: no process has it
  NoFile,      \* the lock file does not exist
  TTL,         \* lockTtlMs, in ticks
  HEARTBEAT,   \* lockHeartbeatMs, in ticks
  MaxCrashes,  \* bound on the crashes of a behaviour
  MaxStalls    \* bound on its stalls

ASSUME KeeperLockAssumption ==
  /\ NoOwner \notin Keepers
  /\ HEARTBEAT \in Nat \ {0} /\ TTL \in Nat /\ HEARTBEAT < TTL
  /\ NoFile \notin [owner : Keepers \cup {NoOwner}, age : 0..(2 * TTL + 1), written : BOOLEAN]
  /\ MaxCrashes \in Nat /\ MaxStalls \in Nat

VARIABLES
  hostLocked,  \* config.hostLockName is set and the platform has the socket
  host,        \* who has bound the abstract socket
  file,        \* the lock file: its creator's ownerId, its age, is it written
  pc,          \* where each process is
  sinceBeat,   \* ticks since its heartbeat timer last fired
  stalled,     \* the processes that do not run at present
  crashes, stalls

lockVars == <<hostLocked, host, file, pc, sinceBeat, stalled, crashes, stalls>>

MaxAge == 2 * TTL + 1
Records == [owner : Keepers \cup {NoOwner}, age : 0..MaxAge, written : BOOLEAN]

(* A process that has the lock acts as the keeper until it has exited: its  *)
(* tasks go on while the lost lock is being reported and a release is under *)
(* way.                                                                     *)
Working == {"held", "beat", "verify", "lost", "release"}
Steps   == {"waiting", "down", "bind", "open", "write", "read", "stat", "unlink"} \cup Working

Has(p)  == pc[p] \in Working
Mine(p) == file # NoFile /\ file.owner = p
Stale   == file.written /\ file.age >= TTL

LockInit ==
  /\ hostLocked \in BOOLEAN
  /\ host = NoOwner /\ file = NoFile
  /\ pc = [p \in Keepers |-> "down"]
  /\ sinceBeat = [p \in Keepers |-> 0]
  /\ stalled = {} /\ crashes = 0 /\ stalls = 0

(* The attempt fails or the process ends: the socket is unbound, a lock    *)
(* file stays.  The next attempt, or the restart, is a while away.         *)
Leave(p) ==
  /\ pc' = [pc EXCEPT ![p] = "waiting"]
  /\ host' = IF host = p THEN NoOwner ELSE host
  /\ file' = IF Mine(p) THEN [file EXCEPT !.owner = NoOwner] ELSE file

Goto(p, step) == pc' = [pc EXCEPT ![p] = step] /\ UNCHANGED host

Others == UNCHANGED <<hostLocked, sinceBeat, stalled, crashes, stalls>>

-----------------------------------------------------------------------------
(* Acquiring.                                                              *)

(* The supervisor starts the process, or it wakes for its next attempt.    *)
Start(p) ==
  /\ pc[p] = "down"
  /\ Goto(p, IF hostLocked THEN "bind" ELSE "open")
  /\ UNCHANGED file /\ Others

(* The socket first: a keeper on the same host is found out before the     *)
(* state directory is touched.                                             *)
BindHost(p) ==
  /\ pc[p] = "bind"
  /\ \/ host = NoOwner /\ host' = p /\ pc' = [pc EXCEPT ![p] = "open"] /\ UNCHANGED file
     \/ host # NoOwner /\ Leave(p)
  /\ Others

(* O_CREAT | O_EXCL.                                                       *)
OpenExclusive(p) ==
  /\ pc[p] = "open"
  /\ \/ /\ file = NoFile
        /\ file' = [owner |-> p, age |-> 0, written |-> FALSE]
        /\ Goto(p, "write")
     \/ file # NoFile /\ Goto(p, "read") /\ UNCHANGED file
  /\ Others

(* The record goes to the descriptor: to the file that was created, even   *)
(* if its name has been unlinked since.                                    *)
WriteRecord(p) ==
  /\ pc[p] = "write"
  /\ file' = IF Mine(p) THEN [file EXCEPT !.written = TRUE, !.age = 0] ELSE file
  /\ Goto(p, "held")
  /\ sinceBeat' = [sinceBeat EXCEPT ![p] = 0]
  /\ UNCHANGED <<hostLocked, stalled, crashes, stalls>>

(* Another's record: a written one says when it expires, for one that is   *)
(* still empty its mtime is looked up, and one that has gone is retried.   *)
ReadHolder(p) ==
  /\ pc[p] = "read"
  /\ \/ file = NoFile /\ Goto(p, "open") /\ UNCHANGED file
     \/ file # NoFile /\ ~file.written /\ Goto(p, "stat") /\ UNCHANGED file
     \/ file # NoFile /\ Stale /\ Goto(p, "unlink") /\ UNCHANGED file
     \/ file # NoFile /\ file.written /\ ~Stale /\ Leave(p)
  /\ Others

(* isStaleByMtime: a file that has gone counts as stale.                   *)
StatHolder(p) ==
  /\ pc[p] = "stat"
  /\ \/ (file # NoFile => file.age > TTL) /\ Goto(p, "unlink") /\ UNCHANGED file
     \/ file # NoFile /\ file.age <= TTL /\ Leave(p)
  /\ Others

(* Whatever file has the name by now is removed.                           *)
BreakStale(p) ==
  /\ pc[p] = "unlink"
  /\ \/ file # NoFile /\ file' = NoFile /\ Goto(p, "open")
     \/ file = NoFile /\ Leave(p)
  /\ Others

-----------------------------------------------------------------------------
(* Holding.                                                                *)

HeartbeatBlind(p) ==                    \* mutant: whoever has the record
  /\ pc[p] = "held" /\ sinceBeat[p] >= HEARTBEAT
  /\ Goto(p, "beat")
  /\ UNCHANGED file /\ Others

(* The heartbeat reads the record: a missing, corrupt or foreign one, or   *)
(* one not updated for two TTLs, means the lock is lost.                   *)
Heartbeat(p) ==
  /\ pc[p] = "held" /\ sinceBeat[p] >= HEARTBEAT
  /\ Goto(p, IF Mine(p) /\ file.written /\ file.age <= 2 * TTL THEN "beat" ELSE "lost")
  /\ UNCHANGED file /\ Others

(* The new record is renamed over the name, whoever has it by now.         *)
RenewRecord(p) ==
  /\ pc[p] = "beat"
  /\ file' = [owner |-> p, age |-> 0, written |-> TRUE]
  /\ Goto(p, "verify")
  /\ Others

VerifyRecord(p) ==
  /\ pc[p] = "verify"
  /\ Goto(p, IF file # NoFile /\ file.written /\ file.owner # p THEN "lost" ELSE "held")
  /\ sinceBeat' = [sinceBeat EXCEPT ![p] = 0]
  /\ UNCHANGED <<hostLocked, file, stalled, crashes, stalls>>

(* The read or the write of a heartbeat fails: the lock counts as lost.    *)
HeartbeatFails(p) ==
  /\ pc[p] \in {"held", "beat"} /\ sinceBeat[p] >= HEARTBEAT
  /\ crashes < MaxCrashes /\ crashes' = crashes + 1
  /\ Goto(p, "lost")
  /\ UNCHANGED <<hostLocked, file, sinceBeat, stalled, stalls>>

(* exitOnLost: the uncaught error ends the process, after the alert.       *)
ExitOnLost(p) == pc[p] = "lost" /\ Leave(p) /\ Others

ReleaseHostFirst(p) ==                  \* mutant: the socket before the file
  /\ pc[p] = "held" /\ Mine(p)
  /\ pc' = [pc EXCEPT ![p] = "release"] /\ host' = NoOwner
  /\ UNCHANGED file /\ Others

(* A shutdown releases: the file only with proof of ownership, then the    *)
(* socket.                                                                 *)
Release(p) ==
  /\ pc[p] = "held"
  /\ \/ Mine(p) /\ file.written /\ Goto(p, "release") /\ UNCHANGED file
     \/ ~(Mine(p) /\ file.written) /\ Leave(p)
  /\ Others

ReleaseUnlink(p) ==
  /\ pc[p] = "release"
  /\ file' = NoFile
  /\ pc' = [pc EXCEPT ![p] = "waiting"]
  /\ host' = IF host = p THEN NoOwner ELSE host
  /\ Others

-----------------------------------------------------------------------------
(* The environment.                                                        *)

Crash(p) ==
  /\ pc[p] \notin {"waiting", "down"} /\ crashes < MaxCrashes
  /\ Leave(p)
  /\ crashes' = crashes + 1 /\ stalled' = stalled \ {p}
  /\ UNCHANGED <<hostLocked, sinceBeat, stalls>>

Stall(p) ==
  /\ pc[p] \notin {"waiting", "down"} /\ p \notin stalled /\ stalls < MaxStalls
  /\ stalled' = stalled \cup {p} /\ stalls' = stalls + 1
  /\ UNCHANGED <<hostLocked, host, file, pc, sinceBeat, crashes>>

Resume(p) ==
  /\ p \in stalled
  /\ stalled' = stalled \ {p}
  /\ UNCHANGED <<hostLocked, host, file, pc, sinceBeat, crashes, stalls>>

(* A running process has nothing left to do before time passes.            *)
Idle(p) == pc[p] \in {"waiting", "down"} \/ (pc[p] = "held" /\ sinceBeat[p] < HEARTBEAT)

Older(r) == [r EXCEPT !.age = IF @ < MaxAge THEN @ + 1 ELSE @]

Tick ==
  /\ \A p \in Keepers \ stalled : Idle(p)
  /\ file' = IF file = NoFile THEN NoFile ELSE Older(file)
  /\ sinceBeat' = [p \in Keepers |->
       IF Has(p) /\ sinceBeat[p] < HEARTBEAT THEN sinceBeat[p] + 1 ELSE sinceBeat[p]]
  /\ pc' = [p \in Keepers |-> IF pc[p] = "waiting" THEN "down" ELSE pc[p]]
  /\ UNCHANGED <<hostLocked, host, stalled, crashes, stalls>>

Acquire(p) ==
  \/ BindHost(p) \/ OpenExclusive(p) \/ WriteRecord(p)
  \/ ReadHolder(p) \/ StatHolder(p) \/ BreakStale(p)

Hold(p) ==
  \/ Heartbeat(p) \/ RenewRecord(p) \/ VerifyRecord(p)
  \/ ExitOnLost(p) \/ ReleaseUnlink(p)

Runs(p) == p \notin stalled /\ (Start(p) \/ Acquire(p) \/ Hold(p))

LockNext ==
  \/ \E p \in Keepers :
       \/ Runs(p)
       \/ p \notin stalled /\ (Release(p) \/ HeartbeatFails(p))
       \/ Crash(p) \/ Stall(p) \/ Resume(p)
  \/ Tick

(* The supervisor restarts a keeper that is down, a process that is not     *)
(* stalled gets on, a stall ends, and time passes.                          *)
LockFairness ==
  /\ \A p \in Keepers : WF_lockVars(Runs(p)) /\ WF_lockVars(Resume(p))
  /\ WF_lockVars(Tick)

LockSpec == LockInit /\ [][LockNext]_lockVars /\ LockFairness

-----------------------------------------------------------------------------
(* Properties.                                                             *)

(* type invariant *)
LockTypeOK ==
  /\ hostLocked \in BOOLEAN
  /\ host \in Keepers \cup {NoOwner}
  /\ file \in Records \cup {NoFile}
  /\ pc \in [Keepers -> Steps]
  /\ sinceBeat \in [Keepers -> 0..HEARTBEAT]
  /\ stalled \in SUBSET Keepers
  /\ crashes \in 0..MaxCrashes /\ stalls \in 0..MaxStalls

(* With the host lock no two processes ever work as the keeper, and the    *)
(* races on the lock file are out of reach: the record of a keeper at work *)
(* is never broken, replaced or removed by another, however long it        *)
(* stalls.                                                                 *)
HostLockExcludes ==
  hostLocked =>
    /\ \A p, q \in Keepers : Has(p) /\ Has(q) => p = q
    /\ \A p \in Keepers : pc[p] \in {"held", "beat", "verify"} => Mine(p)

SplitBrain == \E p, q \in Keepers : p # q /\ Has(p) /\ Has(q)

(* Without it two processes that found the same stale record, or one that  *)
(* was stalled past its TTL, can both come to work; the heartbeats then    *)
(* stop all of them but one.                                               *)
SplitBrainHeals == SplitBrain ~> ~SplitBrain

(* And a keeper that is gone is replaced: the record it leaves expires, the *)
(* races for it do not exclude everyone for ever.                           *)
KeeperComesBack == (\A p \in Keepers : ~Has(p)) ~> (\E p \in Keepers : pc[p] = "held")
=============================================================================
