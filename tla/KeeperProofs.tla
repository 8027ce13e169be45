---------------------------- MODULE KeeperProofs ----------------------------
(***************************************************************************)
(* What the keeper's modules promise, for every value of their constants:  *)
(* the lock between processes, the poke's cursors, the checkpoints before  *)
(* expiry, the sends behind the pause file and the circuit breaker, the    *)
(* settlement windows, and the rounds and the queue of the compounding.    *)
(* The machines share no state, and each is proved about on its own.       *)
(***************************************************************************)
EXTENDS KeeperLock, KeeperPoke, KeeperLocks, KeeperTx, Settlement, KeeperRewards,
        FiniteSetTheorems, TLAPS

-----------------------------------------------------------------------------
(* The lock.                                                               *)

(* Where a process is once it has the socket: it is bound before the lock  *)
(* file is opened, and given back with the process, or after the file.     *)
Bound == {"open", "write", "read", "stat", "unlink"} \cup Working

(* With the host lock the socket is bound by whoever is past it, so that   *)
(* the name of the lock file belongs to the process that created it.       *)
HostInv ==
  hostLocked =>
    \A p \in Keepers :
      /\ pc[p] \in Bound => host = p
      /\ pc[p] \in {"write", "held", "beat", "verify"} => Mine(p)

LockInv == LockTypeOK /\ HostInv

(* The socket has one owner, and that is all the exclusion there is.       *)
LEMMA HostInvExcludes == LockInv => HostLockExcludes
BY DEF LockInv, LockTypeOK, HostInv, HostLockExcludes, Has, Bound, Working

(* Nobody has started: neither socket nor file exists.                     *)
LEMMA LockInvInit == LockInit => LockInv
BY KeeperLockAssumption
   DEF LockInit, LockInv, LockTypeOK, HostInv, Bound, Working, Steps, Records, MaxAge

(* What a record becomes when it is created, renewed, orphaned or ages is  *)
(* a record.                                                               *)
LEMMA RecordsAreClosed ==
  ASSUME NEW f \in Records, NEW o \in Keepers \cup {NoOwner}
  PROVE  /\ [f EXCEPT !.owner = o] \in Records
         /\ [f EXCEPT !.written = TRUE, !.age = 0] \in Records
         /\ Older(f) \in Records
         /\ Older(f).owner = f.owner /\ Older(f) # NoFile
<1>1. /\ f.owner \in Keepers \cup {NoOwner} /\ f.age \in 0..MaxAge /\ f.written \in BOOLEAN
      /\ 0 \in 0..MaxAge /\ NoFile \notin Records
  BY KeeperLockAssumption DEF Records, MaxAge
<1>2. [f EXCEPT !.owner = o] \in Records
  BY DEF Records
<1>3. [f EXCEPT !.written = TRUE, !.age = 0] \in Records
  <2> DEFINE g == [f EXCEPT !.written = TRUE]
  <2>1. g \in Records
    BY DEF Records
  <2>2. [g EXCEPT !.age = 0] \in Records
    <3> HIDE DEF g
    <3> QED BY <1>1, <2>1 DEF Records
  <2> QED BY <2>2, Zenon
<1>4. Older(f) \in Records /\ Older(f).owner = f.owner
  <2>1. (IF f.age < MaxAge THEN f.age + 1 ELSE f.age) \in 0..MaxAge
    BY <1>1, KeeperLockAssumption DEF MaxAge
  <2> QED BY <1>1, <2>1 DEF Older, Records
<1> QED BY <1>1, <1>2, <1>3, <1>4, Zenon

LEMMA NewRecord ==
  ASSUME NEW o \in Keepers, NEW b \in BOOLEAN
  PROVE  /\ [owner |-> o, age |-> 0, written |-> b] \in Records
         /\ [owner |-> o, age |-> 0, written |-> b] # NoFile
         /\ [owner |-> o, age |-> 0, written |-> b].owner = o
<1>1. 0 \in 0..MaxAge /\ NoFile \notin Records
  BY KeeperLockAssumption DEF Records, MaxAge
<1>2. [owner |-> o, age |-> 0, written |-> b] \in Records
  BY <1>1 DEF Records
<1> QED BY <1>1, <1>2, Zenon

(* Leaving gives back the socket, and the record is nobody's from then on. *)
LEMMA LeaveKeeps ==
  ASSUME LockInv, NEW p \in Keepers, Leave(p),
         UNCHANGED <<hostLocked, sinceBeat>>, stalled' \in SUBSET Keepers,
         crashes' \in 0..MaxCrashes, stalls' \in 0..MaxStalls
  PROVE  LockInv'
<1>1. file' \in Records \cup {NoFile}
  BY KeeperLockAssumption, RecordsAreClosed DEF Leave, Mine, LockInv, LockTypeOK
<1>2. LockTypeOK'
  BY <1>1 DEF Leave, LockInv, LockTypeOK, Steps
<1>3. ASSUME NEW q \in Keepers, hostLocked PROVE
      /\ pc'[q] \in Bound => host' = q
      /\ pc'[q] \in {"write", "held", "beat", "verify"} => Mine(q)'
  <2>1. CASE q = p
    BY <2>1 DEF Leave, LockInv, LockTypeOK, Bound, Working
  <2>2. CASE q # p
    BY <2>2, <1>3 DEF Leave, LockInv, LockTypeOK, HostInv, Bound, Working, Mine
  <2> QED BY <2>1, <2>2
<1>4. HostInv'
  BY <1>3 DEF HostInv, LockInv, Leave
<1> QED BY <1>2, <1>4 DEF LockInv

(* A system call of one process: it goes to another step, with the socket  *)
(* as it is, and the file is changed at most by the one that owns it, or   *)
(* when no other process is at work behind the socket.                     *)
LEMMA AcquireKeeps ==
  ASSUME LockInv, NEW p \in Keepers, Start(p) \/ Acquire(p)
  PROVE  LockInv'
<1>1. CASE Start(p)
  BY <1>1 DEF Start, Goto, Others, LockInv, LockTypeOK, HostInv, Mine, Bound, Working, Steps
<1>2. CASE BindHost(p)
  <2>1. CASE host # NoOwner /\ Leave(p)
    BY <2>1, <1>2, LeaveKeeps DEF BindHost, Others, LockInv, LockTypeOK
  <2>2. CASE host = NoOwner /\ host' = p /\ pc' = [pc EXCEPT ![p] = "open"] /\ UNCHANGED file
    BY <2>2, <1>2, KeeperLockAssumption
       DEF BindHost, Others, LockInv, LockTypeOK, HostInv, Mine, Bound, Working, Steps
  <2> QED BY <1>2, <2>1, <2>2 DEF BindHost
<1>3. CASE OpenExclusive(p)
  <2>1. CASE file = NoFile
    <3>1. file' \in Records /\ file' # NoFile /\ file'.owner = p
      <4>1. file' = [owner |-> p, age |-> 0, written |-> FALSE]
        BY <1>3, <2>1 DEF OpenExclusive
      <4> QED BY <4>1, NewRecord, Zenon
    <3> QED BY <1>3, <2>1, <3>1
         DEF OpenExclusive, Goto, Others, LockInv, LockTypeOK, HostInv, Mine, Bound, Working, Steps
  <2>2. CASE file # NoFile
    BY <1>3, <2>2
       DEF OpenExclusive, Goto, Others, LockInv, LockTypeOK, HostInv, Mine, Bound, Working, Steps
  <2> QED BY <2>1, <2>2
<1>4. CASE WriteRecord(p)
  <2>1. /\ file' \in Records \cup {NoFile}
        /\ \A q \in Keepers : Mine(q) => Mine(q)'
    <3>1. CASE Mine(p)
      <4>1. file \in Records BY <3>1 DEF Mine, LockInv, LockTypeOK
      <4>2. file' \in Records /\ file'.owner = file.owner
        BY <1>4, <3>1, <4>1, RecordsAreClosed, KeeperLockAssumption DEF WriteRecord, Records
      <4>3. file' # NoFile BY <4>2, KeeperLockAssumption DEF Records, MaxAge
      <4> QED BY <4>2, <4>3 DEF Mine
    <3>2. CASE ~Mine(p)
      BY <1>4, <3>2 DEF WriteRecord, Mine, LockInv, LockTypeOK
    <3> QED BY <3>1, <3>2
  <2> QED BY <1>4, <2>1, KeeperLockAssumption
       DEF WriteRecord, Goto, LockInv, LockTypeOK, HostInv, Bound, Working, Steps
<1>5. CASE ReadHolder(p)
  <2>1. CASE Leave(p)
    BY <2>1, <1>5, LeaveKeeps DEF ReadHolder, Others, LockInv, LockTypeOK
  <2>2. CASE ~Leave(p)
    BY <2>2, <1>5
       DEF ReadHolder, Goto, Others, LockInv, LockTypeOK, HostInv, Mine, Bound, Working, Steps
  <2> QED BY <2>1, <2>2
<1>6. CASE StatHolder(p)
  <2>1. CASE Leave(p)
    BY <2>1, <1>6, LeaveKeeps DEF StatHolder, Others, LockInv, LockTypeOK
  <2>2. CASE ~Leave(p)
    BY <2>2, <1>6
       DEF StatHolder, Goto, Others, LockInv, LockTypeOK, HostInv, Mine, Bound, Working, Steps
  <2> QED BY <2>1, <2>2
<1>7. CASE BreakStale(p)
  <2>1. CASE file = NoFile
    BY <2>1, <1>7, LeaveKeeps DEF BreakStale, Others, LockInv, LockTypeOK
  <2>2. CASE file # NoFile
    BY <2>2, <1>7
       DEF BreakStale, Goto, Others, LockInv, LockTypeOK, HostInv, Mine, Bound, Working, Steps
  <2> QED BY <2>1, <2>2
<1> QED BY <1>1, <1>2, <1>3, <1>4, <1>5, <1>6, <1>7 DEF Acquire

(* The steps of a process that has the lock.                               *)
LEMMA HoldKeeps ==
  ASSUME LockInv, NEW p \in Keepers, Hold(p) \/ Release(p) \/ HeartbeatFails(p)
  PROVE  LockInv'
<1>1. CASE Heartbeat(p)
  BY <1>1 DEF Heartbeat, Goto, Others, LockInv, LockTypeOK, HostInv, Mine, Bound, Working, Steps
<1>2. CASE RenewRecord(p)
  <2>1. file' \in Records /\ file' # NoFile /\ file'.owner = p
    <3>1. file' = [owner |-> p, age |-> 0, written |-> TRUE]
      BY <1>2 DEF RenewRecord
    <3> QED BY <3>1, NewRecord, Zenon
  <2> QED BY <1>2, <2>1
       DEF RenewRecord, Goto, Others, LockInv, LockTypeOK, HostInv, Mine, Bound, Working, Steps
<1>3. CASE VerifyRecord(p)
  BY <1>3, KeeperLockAssumption
     DEF VerifyRecord, Goto, LockInv, LockTypeOK, HostInv, Mine, Bound, Working, Steps
<1>4. CASE ExitOnLost(p)
  BY <1>4, LeaveKeeps DEF ExitOnLost, Others, LockInv, LockTypeOK
<1>5. CASE ReleaseUnlink(p)
  BY <1>5
     DEF ReleaseUnlink, Others, LockInv, LockTypeOK, HostInv, Mine, Bound, Working, Steps
<1>6. CASE Release(p)
  <2>1. CASE Leave(p)
    BY <2>1, <1>6, LeaveKeeps DEF Release, Others, LockInv, LockTypeOK
  <2>2. CASE ~Leave(p)
    BY <2>2, <1>6
       DEF Release, Goto, Others, LockInv, LockTypeOK, HostInv, Mine, Bound, Working, Steps
  <2> QED BY <2>1, <2>2
<1>7. CASE HeartbeatFails(p)
  BY <1>7, KeeperLockAssumption
     DEF HeartbeatFails, Goto, LockInv, LockTypeOK, HostInv, Mine, Bound, Working, Steps
<1> QED BY <1>1, <1>2, <1>3, <1>4, <1>5, <1>6, <1>7 DEF Hold

(* Crashes, stalls and the passing of time.                                *)
LEMMA OutsideKeeps ==
  ASSUME LockInv, Tick \/ \E p \in Keepers : Crash(p) \/ Stall(p) \/ Resume(p)
  PROVE  LockInv'
<1>1. ASSUME NEW p \in Keepers, Crash(p) PROVE LockInv'
  BY <1>1, LeaveKeeps, KeeperLockAssumption DEF Crash, LockInv, LockTypeOK
<1>2. ASSUME NEW p \in Keepers, Stall(p) \/ Resume(p) PROVE LockInv'
  BY <1>2, KeeperLockAssumption DEF Stall, Resume, LockInv, LockTypeOK, HostInv, Mine
<1>3. CASE Tick
  <2>1. /\ file' \in Records \cup {NoFile}
        /\ \A q \in Keepers : Mine(q) => Mine(q)'
    <3>1. CASE file = NoFile BY <1>3, <3>1 DEF Tick, Mine
    <3>2. CASE file # NoFile
      <4>1. file \in Records BY <3>2 DEF LockInv, LockTypeOK
      <4>2. Older(file) \in Records /\ Older(file).owner = file.owner /\ Older(file) # NoFile
        BY <4>1, RecordsAreClosed
      <4> QED BY <1>3, <3>2, <4>2 DEF Tick, Mine
    <3> QED BY <3>1, <3>2
  <2>2. sinceBeat' \in [Keepers -> 0..HEARTBEAT]
    BY <1>3, KeeperLockAssumption DEF Tick, LockInv, LockTypeOK
  <2>3. /\ pc' \in [Keepers -> Steps]
        /\ \A q \in Keepers : pc'[q] \in Bound => pc'[q] = pc[q]
    BY <1>3 DEF Tick, LockInv, LockTypeOK, Steps, Bound, Working
  <2>4. LockTypeOK'
    BY <1>3, <2>1, <2>2, <2>3 DEF Tick, LockInv, LockTypeOK
  <2>5. HostInv'
    BY <1>3, <2>1, <2>3 DEF Tick, LockInv, HostInv, Bound, Working
  <2> QED BY <2>4, <2>5 DEF LockInv
<1> QED BY <1>1, <1>2, <1>3

LEMMA LockInvNext == LockInv /\ [LockNext]_lockVars => LockInv'
<1> SUFFICES ASSUME LockInv, [LockNext]_lockVars PROVE LockInv'
  OBVIOUS
<1>1. CASE UNCHANGED lockVars
  BY <1>1 DEF lockVars, LockInv, LockTypeOK, HostInv, Mine
<1>2. CASE LockNext
  BY <1>2, AcquireKeeps, HoldKeeps, OutsideKeeps DEF LockNext, Runs
<1> QED BY <1>1, <1>2

(* Two keepers of a host never work at once, and the lock file of the one  *)
(* at work is never broken, replaced or removed by another, for any number *)
(* of processes, crashes and stalls (host_lock.ts, run/lock.ts).           *)
THEOREM HostLockIsExclusive == LockSpec => [](LockTypeOK /\ HostLockExcludes)
<1>1. LockInv => LockTypeOK /\ HostLockExcludes BY HostInvExcludes DEF LockInv
<1> QED BY <1>1, LockInvInit, LockInvNext, PTL DEF LockSpec

-----------------------------------------------------------------------------
(* The poke.                                                               *)

(* No cursor passes a flushed reign, and no run knows of one that could:   *)
(* what a scan has seen is on the chain; a run that may end without a      *)
(* transaction has seen nothing that the cursors did not cover; and after  *)
(* the receipt all it has seen is flushed.                                 *)
CursorInv ==
  /\ flushed <= reign
  /\ cursors.reign <= flushed /\ cursors.block <= flushed
  /\ poke.max <= reign /\ poke.end <= reign
  /\ poke.at = "read" => poke.end <= cursors.reign \/ poke.end <= cursors.block
  /\ poke.at = "flushed" => poke.max <= flushed /\ poke.end <= flushed

PokeInv == PokeTypeOK /\ CursorInv

LEMMA PokeInvInit == PokeInit => PokeInv
BY KeeperPokeAssumption DEF PokeInit, NoPoke, Unknown, PokeInv, PokeTypeOK, CursorInv

(* A scan that covers its window reports the last takeover in it, so that  *)
(* the end of what it covers is either that one or not past the window.    *)
LEMMA ScanTakeoversKeeps ==
  ASSUME PokeInv, ScanTakeovers
  PROVE  PokeInv'
<1>1. PICK onward \in {"read", "send"}, head \in 0..reign, lost \in {0} \cup ScanFrom..reign :
        LET logs == (ScanFrom..head) \ {0, lost}
            max  == IF logs = {} THEN 0 ELSE CHOOSE r \in logs : \A q \in logs : q <= r
        IN /\ IF head = reign /\ lost = 0 THEN UNCHANGED pokeFaults ELSE PokeFault
           /\ poke' = [at |-> IF max > cursors.reign THEN "send" ELSE onward, max |-> max,
                       end |-> IF lost = 0 THEN head ELSE Unknown, seen |-> Unknown]
  BY DEF ScanTakeovers
<1> DEFINE logs == (ScanFrom..head) \ {0, lost}
           max  == IF logs = {} THEN 0 ELSE CHOOSE r \in logs : \A q \in logs : q <= r
<1>2. ScanFrom \in Nat /\ reign \in Nat /\ head \in Nat /\ head <= reign /\ lost \in Nat
      /\ cursors.block \in Nat /\ cursors.reign \in Nat /\ ScanFrom <= cursors.block
  BY KeeperPokeAssumption DEF PokeInv, PokeTypeOK, ScanFrom
<1>3. max \in 0..reign /\ (lost = 0 => head <= max \/ head <= cursors.block)
  <2>1. CASE logs = {}
    <3>1. lost = 0 => head < ScanFrom \/ head = 0 BY <2>1, <1>2
    <3> QED BY <2>1, <3>1, <1>2
  <2>2. CASE logs # {}
    <3>1. \E r \in logs : \A q \in logs : q <= r
      <4>1. CASE head \in logs BY <4>1, <1>2
      <4>2. CASE head \notin logs
        <5>1. head = lost /\ head # 0 BY <4>2, <2>2, <1>2
        <5>2. head - 1 \in logs BY <5>1, <2>2, <1>2
        <5> QED BY <5>1, <5>2, <1>2
      <4> QED BY <4>1, <4>2
    <3>2. max \in logs /\ \A q \in logs : q <= max BY <3>1, <2>2
    <3>3. lost = 0 /\ head # 0 => head \in logs BY <2>2, <1>2
    <3> QED BY <3>2, <3>3, <1>2
  <2> QED BY <2>1, <2>2
<1>4. /\ poke' = [at |-> IF max > cursors.reign THEN "send" ELSE onward, max |-> max,
                  end |-> IF lost = 0 THEN head ELSE Unknown, seen |-> Unknown]
      /\ pokeFaults' \in 0..MaxPokeFaults
  BY <1>1, KeeperPokeAssumption DEF PokeFault, PokeInv, PokeTypeOK
<1> HIDE DEF max
<1>5. /\ UNCHANGED <<reign, pendingEth, flushed, cursors>>
      /\ max \in 0..MaxReigns /\ head \in 0..MaxReigns
  <2>1. UNCHANGED <<reign, pendingEth, flushed, cursors>>
    BY Zenon DEF ScanTakeovers, ChainStays
  <2>2. reign <= MaxReigns /\ MaxReigns \in Nat
    BY KeeperPokeAssumption DEF PokeInv, PokeTypeOK
  <2>3. max \in 0..MaxReigns /\ head \in 0..MaxReigns
    BY <1>2, <1>3, <2>2
  <2> QED BY <2>1, <2>3
<1>6. PokeTypeOK'
  <2>1. poke' \in [at : {"idle", "read", "send", "flushed", "unproven"},
                   max : {Unknown} \cup 0..MaxReigns, end : {Unknown} \cup 0..MaxReigns,
                   seen : {Unknown} \cup 0..MaxPending]
    <3>1. /\ (IF max > cursors.reign THEN "send" ELSE onward) \in {"read", "send"}
          /\ (IF lost = 0 THEN head ELSE Unknown) \in {Unknown} \cup 0..MaxReigns
      BY <1>5
    <3> QED BY <1>4, <1>5, <3>1
  <2> QED BY <1>4, <1>5, <2>1 DEF PokeInv, PokeTypeOK
<1>7. CursorInv'
  BY <1>2, <1>3, <1>4, <1>5 DEF PokeInv, CursorInv, Unknown
<1> QED BY <1>6, <1>7 DEF PokeInv

(* A run that ends without a transaction covers nothing new.               *)
LEMMA PokeIdleKeeps ==
  ASSUME PokeInv, PokeIdle
  PROVE  PokeInv'
<1> DEFINE c == CoveredTo(cursors)
<1>1. c \in 0..MaxReigns /\ c <= flushed
  BY DEF PokeIdle, CoveredTo, Unknown, PokeInv, PokeTypeOK, CursorInv
<1>2. cursors' = [reign |-> cursors.reign, block |-> c, pending |-> pendingEth]
  <2> DEFINE d == [cursors EXCEPT !.pending = pendingEth]
  <2>1. d = [reign |-> cursors.reign, block |-> cursors.block, pending |-> pendingEth]
    BY DEF PokeInv, PokeTypeOK
  <2>2. d \in [reign : 0..MaxReigns, block : 0..MaxReigns, pending : 0..MaxPending]
    BY <2>1 DEF PokeInv, PokeTypeOK
  <2>3. [d EXCEPT !.block = c] = [reign |-> d.reign, block |-> c, pending |-> d.pending]
    <3> HIDE DEF d, c
    <3> QED BY <2>2
  <2> QED BY <2>1, <2>3 DEF PokeIdle
<1> HIDE DEF c
<1>3. PokeTypeOK'
  <2>1. cursors' \in [reign : 0..MaxReigns, block : 0..MaxReigns, pending : 0..MaxPending]
    BY <1>1, <1>2 DEF PokeInv, PokeTypeOK
  <2> QED BY <2>1 DEF PokeIdle, ChainStays, NoPoke, Unknown, PokeInv, PokeTypeOK
<1>4. CursorInv'
  <2>1. UNCHANGED <<reign, flushed>> /\ poke' = NoPoke
    BY Zenon DEF PokeIdle, ChainStays
  <2>2. cursors'.reign = cursors.reign /\ cursors'.block = c
    BY <1>2
  <2> QED BY <1>1, <2>1, <2>2 DEF NoPoke, Unknown, PokeInv, PokeTypeOK, CursorInv
<1> QED BY <1>3, <1>4 DEF PokeInv

(* The flush, and the receipt that proves it, move the cursors up to what  *)
(* has been flushed.                                                       *)
LEMMA SendAndSaveKeep ==
  ASSUME PokeInv, SendPoke \/ SavePoke
  PROVE  PokeInv'
<1>1. CASE SendPoke
  <2>1. pokeFaults' \in 0..MaxPokeFaults
    BY <1>1, KeeperPokeAssumption DEF SendPoke, PokeFault, PokeInv, PokeTypeOK
  <2>2. CASE FlushOk
    BY <1>1, <2>1, <2>2, KeeperPokeAssumption
       DEF SendPoke, FlushOk, PokeInv, PokeTypeOK, CursorInv, Unknown
  <2>3. CASE ~FlushOk
    BY <1>1, <2>1, <2>3 DEF SendPoke, PokeInv, PokeTypeOK, CursorInv, Unknown
  <2> QED BY <2>2, <2>3
<1>2. CASE SavePoke
  BY <1>2
     DEF SavePoke, Retire, CoveredTo, ChainStays, NoPoke, Unknown, PokeInv, PokeTypeOK, CursorInv
<1> QED BY <1>1, <1>2

LEMMA PokeInvNext == PokeInv /\ [PokeNext]_pokeVars => PokeInv'
<1> SUFFICES ASSUME PokeInv, [PokeNext]_pokeVars PROVE PokeInv'
  OBVIOUS
<1>1. CASE ReadWork
  BY <1>1 DEF ReadWork, ChainStays, PokeInv, PokeTypeOK, CursorInv
<1>2. CASE ScanError \/ PokeEnds
  BY <1>2, KeeperPokeAssumption
     DEF ScanError, PokeEnds, PokeFault, ChainStays, NoPoke, Unknown, PokeInv, PokeTypeOK, CursorInv
<1>3. CASE Takeover \/ AddPending
  BY <1>3, KeeperPokeAssumption
     DEF Takeover, AddPending, Unknown, PokeInv, PokeTypeOK, CursorInv
<1>4. CASE UNCHANGED pokeVars
  BY <1>4 DEF pokeVars, PokeInv, PokeTypeOK, CursorInv
<1> QED BY <1>1, <1>2, <1>3, <1>4, ScanTakeoversKeeps, PokeIdleKeeps, SendAndSaveKeep
        DEF PokeNext, PokeStep

(* No cursor of the poke's state file passes a reign whose share has not   *)
(* been flushed, for any number of reigns, rewound blocks and faults       *)
(* (tasks/poke.ts:627).                                                    *)
THEOREM PokeCursorsAreSafe == PokeSpec => [](PokeTypeOK /\ RetiredReignsAreFlushed)
<1>1. PokeInv => PokeTypeOK /\ RetiredReignsAreFlushed
  BY DEF PokeInv, CursorInv, RetiredReignsAreFlushed
<1> QED BY <1>1, PokeInvInit, PokeInvNext, PTL DEF PokeSpec

-----------------------------------------------------------------------------
(* The checkpoint before expiry.                                           *)

(* The run under way has an owner in its batch.                            *)
Attempted(o) == IF claim.at = "check" /\ o \in claim.paid THEN 1 ELSE 0

(* Nobody is in cooldown who has not been checkpointed, so that each run   *)
(* an owner had a place in has taken the owner along: it failed, or it is  *)
(* the one under way, and then the lock has not expired.                   *)
CheckpointInv ==
  duty = "checkpoint" =>
    /\ claim.at \in {"idle", "check"} /\ claim.paid \subseteq Owners
    /\ left \in [Owners -> Nat] /\ ownerCool \in [Owners -> Nat] /\ placed \in [Owners -> Nat]
    /\ kept \subseteq Owners /\ lockFaults \in Nat
    /\ \A o \in Owners \ kept :
         /\ ownerCool[o] = 0
         /\ placed[o] <= lockFaults + Attempted(o)
         /\ left[o] = 0 => Attempted(o) = 0

LEMMA CheckpointInvInit == VeTasksInit => CheckpointInv
BY KeeperLocksAssumption DEF VeTasksInit, CheckpointInv, NoClaim, Attempted

(* Who has a place by the locks of all others has one among the locks that *)
(* are about to expire, for those before it are.                           *)
LEMMA APlaceIsTaken ==
  ASSUME NEW end \in [Owners -> Nat], NEW cool \in [Owners -> Nat],
         NEW o \in Owners, HasPlace(o, end), cool[o] = 0
  PROVE  o \in OwnersToCheckpoint(end, cool)
<1>1. end[o] \in Nat /\ end[o] > 0 /\ end[o] <= WINDOW
  BY KeeperLocksAssumption DEF HasPlace
<1>2. ASSUME NEW q \in Owners, Before(q, o, end)  PROVE end[q] <= WINDOW
  BY <1>1, <1>2, KeeperLocksAssumption DEF Before
<1>3. {q \in InWindow(end) : Before(q, o, end)} = {q \in Owners : end[q] > 0 /\ Before(q, o, end)}
  BY <1>2 DEF InWindow
<1>4. o \in InWindow(end)
  BY <1>1 DEF InWindow
<1> QED BY <1>3, <1>4 DEF OwnersToCheckpoint, HasPlace

(* A run begins: whoever has a place and has not been checkpointed is in   *)
(* the batch.                                                              *)
LEMMA SelectOwnersKeeps == ASSUME CheckpointInv, SelectOwners  PROVE CheckpointInv'
<1> DEFINE end  == [o \in Owners |-> Sooner(left[o])]
           cool == [o \in Owners |-> Sooner(ownerCool[o])]
           queue == OwnersToCheckpoint(end, cool)
           counted == [o \in Owners |-> IF HasPlace(o, end) THEN placed[o] + 1 ELSE placed[o]]
<1>1. /\ duty = "checkpoint" /\ claim.at = "idle" /\ left' = end /\ ownerCool' = cool
      /\ placed' = counted
      /\ claim' = IF queue = {} THEN NoClaim ELSE [at |-> "check", queue |-> {}, paid |-> queue]
      /\ UNCHANGED <<duty, kept, lockFaults>>
  BY DEF SelectOwners
<1>2. end \in [Owners -> Nat] /\ cool \in [Owners -> Nat] /\ queue \subseteq Owners
  BY <1>1 DEF CheckpointInv, Sooner, OwnersToCheckpoint, InWindow
<1>3. counted \in [Owners -> Nat]
  BY <1>1 DEF CheckpointInv
<1>4. ASSUME NEW o \in Owners \ kept
      PROVE  /\ cool[o] = 0
             /\ counted[o] <= lockFaults + Attempted(o)'
             /\ end[o] = 0 => Attempted(o)' = 0
  <2>1. /\ ownerCool[o] = 0 /\ lockFaults \in Nat /\ placed[o] \in Nat /\ placed[o] <= lockFaults
    BY <1>1 DEF CheckpointInv, Attempted
  <2>2. cool[o] = 0
    BY <2>1 DEF Sooner
  <2>3. Attempted(o)' = IF o \in queue THEN 1 ELSE 0
    BY <1>1 DEF Attempted, NoClaim
  <2>4. HasPlace(o, end) => o \in queue
    BY <1>2, <2>2, APlaceIsTaken
  <2>5. counted[o] = IF HasPlace(o, end) THEN placed[o] + 1 ELSE placed[o]
    OBVIOUS
  <2>6. end[o] = 0 => o \notin queue
    BY DEF OwnersToCheckpoint, InWindow
  <2> HIDE DEF end, cool, queue, counted
  <2> QED BY <2>1, <2>2, <2>3, <2>4, <2>5, <2>6
<1>5. claim'.at \in {"idle", "check"} /\ claim'.paid \subseteq Owners
  BY <1>1, <1>2 DEF NoClaim
<1> HIDE DEF end, cool, queue, counted
<1> QED BY <1>1, <1>2, <1>3, <1>4, <1>5 DEF CheckpointInv

LEMMA CheckpointInvNext == CheckpointInv /\ [VeTasksNext]_veTaskVars => CheckpointInv'
<1> SUFFICES ASSUME CheckpointInv, [VeTasksNext]_veTaskVars  PROVE CheckpointInv'
  OBVIOUS
<1>1. CASE SelectAutomax
  BY <1>1 DEF SelectAutomax, CheckpointInv
<1>2. CASE ClaimBatch \/ SaveOwners \/ BatchFails
  BY <1>2 DEF ClaimBatch, SaveOwners, BatchFails, CheckpointInv
<1>3. CASE CheckpointBatch
  <2>1. duty = "checkpoint" => ownerCool' \in [Owners -> Nat]
    BY <1>3, KeeperLocksAssumption DEF CheckpointBatch, CheckpointInv
  <2>2. ASSUME duty = "checkpoint", NEW o \in Owners \ kept'
        PROVE  ownerCool'[o] = 0 /\ Attempted(o)' = 0 /\ placed[o] <= lockFaults
    <3>1. o \notin kept /\ o \notin claim.paid
      BY <1>3, <2>2 DEF CheckpointBatch
    <3>2. lockFaults + Attempted(o) = lockFaults
      BY <2>2, <3>1 DEF Attempted, CheckpointInv
    <3> QED BY <1>3, <2>2, <3>1, <3>2 DEF CheckpointBatch, CheckpointInv, Attempted, NoClaim
  <2>3. /\ claim'.at = "idle" /\ claim'.paid = {} /\ kept' = kept \cup claim.paid
        /\ UNCHANGED <<duty, left, placed, lockFaults>>
    BY <1>3 DEF CheckpointBatch, NoClaim
  <2>4. duty = "checkpoint" => lockFaults \in Nat
    BY DEF CheckpointInv
  <2> QED BY <2>1, <2>2, <2>3, <2>4 DEF CheckpointInv
<1>4. CASE ClaimDies
  <2>1. /\ claim'.at = "idle" /\ claim'.paid = {} /\ lockFaults' = lockFaults + 1
        /\ UNCHANGED <<duty, left, ownerCool, kept, placed>>
    BY <1>4 DEF ClaimDies, LockFault, NoClaim
  <2>2. ASSUME duty = "checkpoint", NEW o \in Owners \ kept
        PROVE  Attempted(o)' = 0 /\ placed[o] <= lockFaults + 1
    BY <2>1, <2>2 DEF CheckpointInv, Attempted
  <2> QED BY <2>1, <2>2 DEF CheckpointInv
<1>5. CASE UNCHANGED veTaskVars
  BY <1>5 DEF veTaskVars, CheckpointInv, Attempted
<1> QED BY <1>1, <1>2, <1>3, <1>4, <1>5, SelectOwnersKeeps DEF VeTasksNext, LockStep

(* For any number of owners, limit, window and cooldown: an owner who is   *)
(* among the first MAXOWNERS in more runs of the window than fail is       *)
(* checkpointed before the lock expires; in particular no cooldown is      *)
(* entered for a checkpoint that did not happen                            *)
(* (checkpoint_before_expiry.ts:374-429).                                  *)
THEOREM CheckpointsComeInTime == VeTasksSpec => []CheckpointedBeforeExpiry
<1>1. CheckpointInv => CheckpointedBeforeExpiry
  <2> SUFFICES ASSUME CheckpointInv, duty = "checkpoint", NEW o \in Owners,
                      left[o] = 0, placed[o] > lockFaults, o \notin kept
               PROVE  FALSE
    BY DEF CheckpointedBeforeExpiry
  <2>1. placed[o] <= lockFaults + 0 /\ placed[o] \in Nat /\ lockFaults \in Nat
    BY DEF CheckpointInv
  <2> QED BY <2>1
<1> QED BY <1>1, CheckpointInvNext, CheckpointInvInit, PTL DEF VeTasksSpec

-----------------------------------------------------------------------------
(* The pause file and the circuit breaker.                                 *)

Breakers == [corrupt : BOOLEAN, failures : 0..(MAXFAILURES + 10),
             tripped : BOOLEAN, left : 0..COOLDOWN]
Pauses   == [kind : {"none", "manual", "breaker"}, left : 0..COOLDOWN]

(* The sends that have passed their last check.                            *)
Submitting == {s \in Senders : at[s] = "submit"}

(* Only the breaker's pause ends by itself.  What has been submitted since *)
(* the keeper must stop, and what still can be, is no more than there are  *)
(* sends: while it must stop, no send passes the last check.               *)
StopInv ==
  /\ pauseFile.left > 0 => pauseFile.kind = "breaker"
  /\ ~MustStop(pauseFile, breaker) => late = 0
  /\ late + Cardinality(Submitting) <= Cardinality(Senders)

(* The state file has counted what the history has, until it trips; with   *)
(* the end of the cooldown the count starts again.                         *)
StreakInv ==
  ~breaker.corrupt =>
    /\ ~breaker.tripped => /\ breaker.left = 0 /\ streak <= breaker.failures
                           /\ breaker.failures < Larger(maxFailures, 2)
    /\ breaker.tripped /\ breaker.left = 0 => streak = 0

TxInv == TxTypeOK /\ StopInv /\ StreakInv

LEMMA TxInvHolds == TxInv => TxTypeOK /\ StopHolds
<1> SUFFICES ASSUME TxInv PROVE StopHolds
  BY DEF TxInv
<1>1. Cardinality(Submitting) \in Nat /\ Cardinality(Senders) \in Nat
  <2>1. IsFiniteSet(Senders) /\ Submitting \subseteq Senders
    BY KeeperTxAssumption DEF Submitting
  <2> QED BY <2>1, FS_Subset, FS_CardinalityType
<1>2. late <= Cardinality(Senders)
  BY <1>1 DEF TxInv, TxTypeOK, StopInv
<1>3. FailuresTrip
  BY DEF TxInv, TxTypeOK, StreakInv, FailuresTrip, BreakerPaused, Larger
<1> QED BY <1>2, <1>3 DEF StopHolds

LEMMA TxInvInit == TxInit => TxInv
<1> SUFFICES ASSUME TxInit PROVE TxInv
  OBVIOUS
<1>1. pauseFile \in Pauses /\ breaker \in Breakers
  BY KeeperTxAssumption DEF TxInit, NoPause, Cleared, Pauses, Breakers
<1>2. TxTypeOK
  BY <1>1, KeeperTxAssumption DEF TxInit, TxTypeOK, Pauses, Breakers
<1>3. Submitting = {} /\ Cardinality({}) = 0 /\ Cardinality(Senders) \in Nat
  BY FS_EmptySet, FS_CardinalityType, KeeperTxAssumption DEF TxInit, Submitting
<1>4. StopInv
  BY <1>3 DEF TxInit, NoPause, StopInv
<1>5. StreakInv
  BY KeeperTxAssumption DEF TxInit, Cleared, StreakInv, Larger
<1> QED BY <1>2, <1>4, <1>5 DEF TxInv

(* What an update of the breaker's state leaves in each field.             *)
LEMMA BreakerCounts ==
  ASSUME NEW b \in Breakers, NEW n \in 0..(MAXFAILURES + 10),
         NEW c, c = [b EXCEPT !.failures = n]
  PROVE  /\ c \in Breakers /\ c.failures = n
         /\ c.corrupt = b.corrupt /\ c.tripped = b.tripped /\ c.left = b.left
<1> DEFINE F == 0..(MAXFAILURES + 10)
           L == 0..COOLDOWN
<1>1. n \in F /\ Breakers = [corrupt : BOOLEAN, failures : F, tripped : BOOLEAN, left : L]
  BY DEF Breakers
<1> HIDE DEF F, L
<1> QED BY <1>1

LEMMA BreakerAges ==
  ASSUME NEW b \in Breakers, NEW l \in 0..COOLDOWN, NEW c, c = [b EXCEPT !.left = l]
  PROVE  /\ c \in Breakers /\ c.failures = b.failures
         /\ c.corrupt = b.corrupt /\ c.tripped = b.tripped /\ c.left = l
<1> DEFINE F == 0..(MAXFAILURES + 10)
           L == 0..COOLDOWN
<1>1. l \in L /\ Breakers = [corrupt : BOOLEAN, failures : F, tripped : BOOLEAN, left : L]
  BY DEF Breakers
<1> HIDE DEF F, L
<1> QED BY <1>1

(* A failure is counted, or trips the breaker; the first one after a       *)
(* cooldown is a probe.                                                    *)
LEMMA CountedFacts ==
  ASSUME TxTypeOK, StreakInv, ~breaker.corrupt
  PROVE  /\ Counted(breaker) \in Breakers /\ ~Counted(breaker).corrupt
         /\ \/ Counted(breaker).tripped /\ Counted(breaker).left > 0
            \/ /\ ~Counted(breaker).tripped /\ Counted(breaker).left = 0
               /\ streak + 1 <= Counted(breaker).failures
               /\ Counted(breaker).failures < Larger(maxFailures, 2)
<1> DEFINE cur  == IF Expired(breaker) THEN Cleared ELSE breaker
           n    == IF cur.failures > maxFailures + 8 THEN maxFailures + 10 ELSE cur.failures + 1
<1>1. /\ maxFailures \in 1..MAXFAILURES /\ COOLDOWN \in Nat \ {0} /\ MAXFAILURES \in Nat
      /\ breaker \in Breakers /\ Cleared \in Breakers /\ streak \in Nat
  BY KeeperTxAssumption DEF TxTypeOK, Breakers, Cleared
<1>2. /\ cur \in Breakers /\ ~cur.corrupt
      /\ cur.failures \in 0..(MAXFAILURES + 10) /\ cur.left \in 0..COOLDOWN
      /\ cur.tripped \in BOOLEAN
  BY <1>1 DEF Breakers, Cleared
<1>3. n \in 0..(MAXFAILURES + 10)
  <2> HIDE DEF cur
  <2> QED BY <1>1, <1>2
<1>4. /\ cur.tripped => cur.left > 0
      /\ ~cur.tripped => cur.left = 0 /\ streak <= cur.failures
      /\ ~cur.tripped => cur.failures < Larger(maxFailures, 2)
      /\ Expired(breaker) => ~cur.tripped /\ cur.failures = 0 /\ streak = 0
      /\ Threshold(breaker) = IF Expired(breaker) THEN Larger(maxFailures, 2) ELSE maxFailures
  BY <1>1 DEF StreakInv, Expired, Cleared, Larger, Threshold, Breakers
<1>5. Counted(breaker) = IF n >= Threshold(breaker)
                         THEN [cur EXCEPT !.failures = n, !.tripped = TRUE, !.left = COOLDOWN]
                         ELSE [cur EXCEPT !.failures = n]
  BY DEF Counted
<1> HIDE DEF cur
<1>6. CASE n >= Threshold(breaker)
  <2>1. /\ Counted(breaker) \in Breakers /\ Counted(breaker).corrupt = cur.corrupt
        /\ Counted(breaker).tripped /\ Counted(breaker).left = COOLDOWN
    <3> HIDE DEF n
    <3>1. COOLDOWN \in 0..COOLDOWN BY <1>1
    <3>2. Counted(breaker) = [cur EXCEPT !.failures = n, !.tripped = TRUE, !.left = COOLDOWN]
      BY <1>5, <1>6
    <3>3. cur \in Breakers /\ n \in 0..(MAXFAILURES + 10)
      BY <1>2, <1>3
    <3> DEFINE F == 0..(MAXFAILURES + 10)
               L == 0..COOLDOWN
               d == Counted(breaker)
    <3>4. /\ n \in F /\ COOLDOWN \in L
          /\ d = [cur EXCEPT !.failures = n, !.tripped = TRUE, !.left = COOLDOWN]
          /\ cur \in [corrupt : BOOLEAN, failures : F, tripped : BOOLEAN, left : L]
      BY <3>1, <3>2, <3>3 DEF Breakers
    <3>5. /\ d \in [corrupt : BOOLEAN, failures : F, tripped : BOOLEAN, left : L]
          /\ d.tripped = TRUE /\ d.corrupt = cur.corrupt /\ d.left = COOLDOWN
      <4> HIDE DEF F, L, d
      <4> QED BY <3>4
    <3> QED BY <3>5 DEF Breakers
  <2> QED BY <2>1, <1>1, <1>2
<1>7. CASE ~(n >= Threshold(breaker))
  <2>1. /\ Counted(breaker) \in Breakers /\ Counted(breaker).corrupt = cur.corrupt
        /\ Counted(breaker).failures = n /\ Counted(breaker).tripped = cur.tripped
        /\ Counted(breaker).left = cur.left
    <3> HIDE DEF n
    <3>1. Counted(breaker) = [cur EXCEPT !.failures = n]
      BY <1>5, <1>7
    <3>2. cur \in Breakers /\ n \in 0..(MAXFAILURES + 10)
      BY <1>2, <1>3
    <3> QED BY <3>1, <3>2, BreakerCounts
  <2>2. ~cur.tripped => n = cur.failures + 1 /\ n < Larger(maxFailures, 2)
    BY <1>1, <1>2, <1>4, <1>7 DEF Larger
  <2> QED BY <2>1, <2>2, <1>1, <1>2, <1>4
<1> QED BY <1>6, <1>7

(* Whatever of a failure is written, the state has counted it or has kept  *)
(* the keeper stopped, and a pause file it leaves is the breaker's.        *)
LEMMA RecordTxFailureKeeps ==
  ASSUME TxTypeOK, StreakInv, RecordTxFailure, UNCHANGED maxFailures,
         pauseFile.left > 0 => pauseFile.kind = "breaker"
  PROVE  /\ pauseFile' \in Pauses /\ breaker' \in Breakers /\ streak' \in Nat
         /\ faults' \in 0..MaxFaults
         /\ pauseFile'.left > 0 => pauseFile'.kind = "breaker"
         /\ StreakInv'
<1>1. /\ pauseFile \in Pauses /\ breaker \in Breakers /\ streak \in Nat /\ faults \in 0..MaxFaults
      /\ [kind |-> "breaker", left |-> COOLDOWN] \in Pauses
  BY KeeperTxAssumption DEF TxTypeOK, Pauses, Breakers
<1>2. /\ pauseFile' = pauseFile \/ pauseFile' = [kind |-> "breaker", left |-> COOLDOWN]
      /\ UNCHANGED faults \/ Fault
  BY DEF RecordTxFailure
<1>3. /\ pauseFile' \in Pauses
      /\ pauseFile'.left > 0 => pauseFile'.kind = "breaker"
      /\ faults' \in 0..MaxFaults
  BY <1>1, <1>2, KeeperTxAssumption DEF Fault
<1>4. CASE UNCHANGED <<breaker, streak>>
  BY <1>1, <1>3, <1>4 DEF StreakInv
<1>5. CASE ~breaker.corrupt /\ breaker' = Counted(breaker) /\ streak' = streak + 1
  <2> DEFINE c == Counted(breaker)
  <2>1. /\ c \in Breakers /\ ~c.corrupt
        /\ \/ c.tripped /\ c.left > 0
           \/ /\ ~c.tripped /\ c.left = 0
              /\ streak + 1 <= c.failures
              /\ c.failures < Larger(maxFailures, 2)
    BY <1>5, CountedFacts
  <2>2. c.left \in 0..COOLDOWN
    BY <2>1 DEF Breakers
  <2>3. breaker' = c /\ streak' = streak + 1 /\ streak' \in Nat
    BY <1>1, <1>5
  <2> HIDE DEF c
  <2>4. StreakInv'
    BY <2>1, <2>2, <2>3 DEF StreakInv, Larger
  <2> QED BY <1>3, <2>1, <2>3, <2>4
<1> QED BY <1>4, <1>5 DEF RecordTxFailure

(* The sends that end leave their pending transactions to nobody.          *)
LEMMA AbandonKeeps ==
  ASSUME TxTypeOK, NEW S \in SUBSET Senders, Abandon(S)
  PROVE  /\ tx' \in [Senders -> {"none", "pending", "ok", "odd", "bad"}]
         /\ orphans' \in 0..MaxOrphans
<1> DEFINE P == {s \in S : tx[s] = "pending"}
<1>1. Cardinality(P) \in Nat
  <2>1. IsFiniteSet(Senders) /\ P \subseteq Senders
    BY KeeperTxAssumption
  <2> QED BY <2>1, FS_Subset, FS_CardinalityType
<1>2. orphans' = orphans + Cardinality(P) /\ orphans' <= MaxOrphans
  BY DEF Abandon
<1>3. orphans' \in 0..MaxOrphans
  <2> HIDE DEF P
  <2> QED BY <1>1, <1>2, KeeperTxAssumption DEF TxTypeOK
<1> QED BY <1>3 DEF Abandon, TxTypeOK

(* A send that does not go to the submission leaves no more of them there. *)
LEMMA SubmittingShrinks ==
  ASSUME TxTypeOK, Submitting' \subseteq Submitting
  PROVE  /\ Cardinality(Submitting) \in Nat /\ Cardinality(Submitting') \in Nat
         /\ Cardinality(Submitting') <= Cardinality(Submitting)
<1>1. IsFiniteSet(Senders) /\ Submitting \subseteq Senders
  BY KeeperTxAssumption DEF Submitting
<1>2. IsFiniteSet(Submitting)
  BY <1>1, FS_Subset
<1> QED BY <1>2, FS_Subset, FS_CardinalityType

(* The bound survives every step after which nobody new is past the last   *)
(* check, and which starts the history anew when the stop is over.         *)
LEMMA StopStays ==
  ASSUME TxTypeOK, StopInv, Submitting' \subseteq Submitting,
         pauseFile'.left > 0 => pauseFile'.kind = "breaker",
         Stopping \/ UNCHANGED <<pauseFile, breaker, late>>
  PROVE  StopInv' /\ late' \in Nat
<1>1. late \in Nat /\ Cardinality(Senders) \in Nat
  BY FS_CardinalityType, KeeperTxAssumption DEF TxTypeOK
<1>2. late' \in Nat /\ late' <= late /\ (~MustStop(pauseFile', breaker') => late' = 0)
  BY <1>1 DEF Stopping, StopInv
<1>3. late' + Cardinality(Submitting') <= Cardinality(Senders)
  BY <1>1, <1>2, SubmittingShrinks DEF StopInv
<1> QED BY <1>2, <1>3 DEF StopInv

(* One send goes to a step other than the submission.                      *)
LEMMA SendMoves ==
  ASSUME TxTypeOK, NEW s \in Senders, NEW step \in {"idle", "guard", "estimate", "wait", "odd", "ok"},
         at' = [at EXCEPT ![s] = step]
  PROVE  /\ at' \in [Senders -> {"idle", "guard", "estimate", "submit", "wait", "odd", "ok"}]
         /\ Submitting' \subseteq Submitting
BY DEF TxTypeOK, Submitting

LEMMA FinishMoves ==
  ASSUME TxTypeOK, NEW s \in Senders, Finish(s)
  PROVE  /\ at' \in [Senders -> {"idle", "guard", "estimate", "submit", "wait", "odd", "ok"}]
         /\ Submitting' \subseteq Submitting
         /\ tx' \in [Senders -> {"none", "pending", "ok", "odd", "bad"}]
         /\ orphans' \in 0..MaxOrphans
<1>1. Abandon({s}) /\ {s} \in SUBSET Senders
  BY DEF Finish
<1> QED BY <1>1, AbandonKeeps, SendMoves DEF Finish

(* A look at the pause file removes one whose time is over; it says the    *)
(* same as before, and a stop is what it refuses for.                      *)
LEMMA AutoClearedSays ==
  ASSUME TxTypeOK, StopInv, pauseFile' = AutoCleared(pauseFile), UNCHANGED breaker
  PROVE  /\ pauseFile' \in Pauses
         /\ pauseFile'.left > 0 => pauseFile'.kind = "breaker"
         /\ MustStop(pauseFile', breaker') <=> MustStop(pauseFile, breaker)
         /\ MustStop(pauseFile, breaker) => Refuses(pauseFile, breaker)
BY KeeperTxAssumption
   DEF TxTypeOK, StopInv, AutoCleared, NoPause, Pauses, MustStop, Refuses, FilePaused, BreakerPaused

LEMMA BeginSendKeeps ==
  ASSUME TxInv, NEW s \in Senders, BeginSend(s), UNCHANGED maxFailures
  PROVE  TxInv'
<1>1. /\ pauseFile' \in Pauses
      /\ pauseFile'.left > 0 => pauseFile'.kind = "breaker"
  BY AutoClearedSays DEF BeginSend, TxInv
<1>2. /\ at' \in [Senders -> {"idle", "guard", "estimate", "submit", "wait", "odd", "ok"}]
      /\ Submitting' \subseteq Submitting
  BY SendMoves DEF BeginSend, SendGoto, TxInv
<1>3. StopInv' /\ late' \in Nat
  BY <1>1, <1>2, StopStays DEF BeginSend, TxInv
<1>4. UNCHANGED <<breaker, faults, streak, tx, orphans, maxFailures>>
  BY DEF BeginSend, SendGoto
<1>5. TxTypeOK' /\ StreakInv'
  BY <1>1, <1>2, <1>3, <1>4 DEF TxInv, TxTypeOK, StreakInv, Pauses
<1> QED BY <1>3, <1>5 DEF TxInv

(* The steps that record a failure.                                        *)
LEMMA FailuresKeep ==
  ASSUME TxInv, NEW s \in Senders, UNCHANGED maxFailures,
         EstimateFails(s) \/ WaitFails(s) \/ PayoutViolation(s)
           \/ (SubmitFails(s) /\ RecordTxFailure /\ Stopping)
  PROVE  TxInv'
<1>1. RecordTxFailure /\ Stopping
  BY DEF EstimateFails, WaitFails, PayoutViolation
<1>2. /\ pauseFile' \in Pauses /\ breaker' \in Breakers /\ streak' \in Nat
      /\ faults' \in 0..MaxFaults
      /\ pauseFile'.left > 0 => pauseFile'.kind = "breaker"
      /\ StreakInv'
  BY <1>1, RecordTxFailureKeeps DEF TxInv, StopInv
<1>3. /\ at' \in [Senders -> {"idle", "guard", "estimate", "submit", "wait", "odd", "ok"}]
      /\ Submitting' \subseteq Submitting
      /\ tx' \in [Senders -> {"none", "pending", "ok", "odd", "bad"}]
      /\ orphans' \in 0..MaxOrphans
  <2>1. CASE Finish(s)
    BY <2>1, FinishMoves DEF TxInv
  <2>2. CASE SendGoto(s, "ok")
    BY <2>2, SendMoves DEF SendGoto, TxInv, TxTypeOK
  <2> QED BY <2>1, <2>2 DEF EstimateFails, WaitFails, PayoutViolation, SubmitFails
<1>5. StopInv' /\ late' \in Nat
  BY <1>1, <1>2, <1>3, StopStays DEF TxInv
<1>6. TxTypeOK'
  BY <1>2, <1>3, <1>5 DEF TxInv, TxTypeOK, Pauses, Breakers
<1> QED BY <1>2, <1>5, <1>6 DEF TxInv

(* The last check: a send that passes it finds no reason to stop.          *)
LEMMA RecheckKeeps ==
  ASSUME TxInv, NEW s \in Senders, Recheck(s), UNCHANGED maxFailures
  PROVE  TxInv'
<1>1. /\ pauseFile' \in Pauses
      /\ pauseFile'.left > 0 => pauseFile'.kind = "breaker"
      /\ MustStop(pauseFile', breaker') => Refuses(pauseFile, breaker)
  BY AutoClearedSays DEF Recheck, TxInv
<1>2. UNCHANGED <<breaker, faults, streak, maxFailures>> /\ Stopping
  BY DEF Recheck
<1>3. CASE Finish(s)
  <2>1. /\ at' \in [Senders -> {"idle", "guard", "estimate", "submit", "wait", "odd", "ok"}]
        /\ Submitting' \subseteq Submitting
        /\ tx' \in [Senders -> {"none", "pending", "ok", "odd", "bad"}]
        /\ orphans' \in 0..MaxOrphans
    BY <1>3, FinishMoves DEF TxInv
  <2>2. StopInv' /\ late' \in Nat
    BY <1>1, <1>2, <2>1, StopStays DEF TxInv
  <2> QED BY <1>1, <1>2, <2>1, <2>2 DEF TxInv, TxTypeOK, StreakInv, Pauses
<1>4. CASE ~Refuses(pauseFile, breaker) /\ SendGoto(s, "submit")
  <2>1. late' = 0
    BY <1>1, <1>2, <1>4 DEF Stopping
  <2>2. Submitting' \subseteq Senders /\ IsFiniteSet(Senders)
    BY KeeperTxAssumption DEF Submitting
  <2>3. Cardinality(Submitting') <= Cardinality(Senders)
        /\ Cardinality(Submitting') \in Nat
    BY <2>2, FS_Subset, FS_CardinalityType
  <2>4. StopInv'
    BY <1>1, <2>1, <2>3 DEF StopInv
  <2>5. TxTypeOK' /\ StreakInv'
    BY <1>1, <1>2, <1>4, <2>1 DEF SendGoto, TxInv, TxTypeOK, StreakInv, Pauses
  <2> QED BY <2>4, <2>5 DEF TxInv
<1> QED BY <1>3, <1>4 DEF Recheck

(* One that submits is past it no more.                                    *)
LEMMA SubmitKeeps ==
  ASSUME TxInv, NEW s \in Senders, Submit(s), UNCHANGED maxFailures
  PROVE  TxInv'
<1>1. Submitting' = Submitting \ {s} /\ s \in Submitting
  BY DEF Submit, Submitting, TxInv, TxTypeOK
<1>2. /\ Cardinality(Submitting) \in Nat
      /\ Cardinality(Submitting') = Cardinality(Submitting) - 1
  <2>1. IsFiniteSet(Senders) /\ Submitting \subseteq Senders
    BY KeeperTxAssumption DEF Submitting
  <2>2. IsFiniteSet(Submitting)
    BY <2>1, FS_Subset
  <2> QED BY <1>1, <2>2, FS_RemoveElement, FS_CardinalityType
<1>3. Cardinality(Senders) \in Nat /\ late \in Nat
  BY FS_CardinalityType, KeeperTxAssumption DEF TxInv, TxTypeOK
<1>4. /\ late' = IF MustStop(pauseFile, breaker) THEN late + 1 ELSE 0
      /\ UNCHANGED <<pauseFile, breaker>>
  BY DEF Submit
<1>5. late' \in Nat /\ late' + Cardinality(Submitting') <= Cardinality(Senders)
  BY <1>2, <1>3, <1>4 DEF TxInv, StopInv
<1>6. StopInv'
  BY <1>4, <1>5 DEF TxInv, StopInv
<1>7. TxTypeOK' /\ StreakInv'
  BY <1>5 DEF Submit, TxInv, TxTypeOK, StreakInv
<1> QED BY <1>6, <1>7 DEF TxInv

(* The steps that leave both files alone.                                  *)
LEMMA QuietSendsKeep ==
  ASSUME TxInv, NEW s \in Senders, UNCHANGED <<maxFailures, pauseFile, breaker, late, streak>>,
         PendingGuard(s) \/ SubmitFails(s) \/ Confirmed(s) \/ MineSend(s) \/ Reorg(s)
  PROVE  TxInv'
<1>1. /\ at' \in [Senders -> {"idle", "guard", "estimate", "submit", "wait", "odd", "ok"}]
      /\ Submitting' \subseteq Submitting
      /\ tx' \in [Senders -> {"none", "pending", "ok", "odd", "bad"}]
      /\ orphans' \in 0..MaxOrphans
  <2>1. CASE Finish(s)
    BY <2>1, FinishMoves DEF TxInv
  <2>2. CASE PendingGuard(s) /\ SendGoto(s, "estimate")
    BY <2>2, SendMoves DEF SendGoto, TxInv, TxTypeOK
  <2>3. CASE Confirmed(s)
    BY <2>3, SendMoves DEF Confirmed, SendGoto, TxInv, TxTypeOK
  <2>4. CASE MineSend(s) \/ Reorg(s)
    BY <2>4, KeeperTxAssumption DEF MineSend, Reorg, TxInv, TxTypeOK, Submitting
  <2> QED BY <2>1, <2>2, <2>3, <2>4 DEF PendingGuard, SubmitFails
<1>2. StopInv' /\ late' \in Nat
  BY <1>1, StopStays DEF TxInv, StopInv
<1>3. faults' \in 0..MaxFaults
  <2>1. UNCHANGED faults \/ Fault
    BY Zenon DEF PendingGuard, SubmitFails, RecordTxFailure, Confirmed, MineSend, Reorg
  <2> QED BY <2>1, KeeperTxAssumption DEF Fault, TxInv, TxTypeOK
<1> QED BY <1>1, <1>2, <1>3 DEF TxInv, TxTypeOK, StreakInv

LEMMA NetworkKeeps ==
  ASSUME TxInv, MineOrphan \/ CrashAll, UNCHANGED maxFailures
  PROVE  TxInv'
<1>1. /\ at' \in [Senders -> {"idle", "guard", "estimate", "submit", "wait", "odd", "ok"}]
      /\ Submitting' \subseteq Submitting
      /\ tx' \in [Senders -> {"none", "pending", "ok", "odd", "bad"}]
      /\ orphans' \in 0..MaxOrphans
  <2>1. CASE MineOrphan
    BY <2>1, KeeperTxAssumption DEF MineOrphan, TxInv, TxTypeOK, Submitting
  <2>2. CASE CrashAll
    <3>1. Abandon(Senders) /\ at' = [q \in Senders |-> "idle"]
      BY <2>2 DEF CrashAll
    <3> QED BY <3>1, AbandonKeeps DEF TxInv, Submitting
  <2> QED BY <2>1, <2>2
<1>2. /\ UNCHANGED <<pauseFile, breaker, late, streak>>
      /\ faults' \in 0..MaxFaults
  BY KeeperTxAssumption DEF MineOrphan, CrashAll, Fault, TxInv, TxTypeOK
<1>3. StopInv' /\ late' \in Nat
  BY <1>1, <1>2, StopStays DEF TxInv, StopInv
<1> QED BY <1>1, <1>2, <1>3 DEF TxInv, TxTypeOK, StreakInv

LEMMA RecordTxSuccessKeeps ==
  ASSUME TxInv, NEW s \in Senders, RecordTxSuccess(s), UNCHANGED maxFailures
  PROVE  TxInv'
<1>1. /\ breaker' \in Breakers /\ streak' \in Nat /\ faults' \in 0..MaxFaults
      /\ UNCHANGED pauseFile /\ Stopping
  <2>1. Cleared \in Breakers /\ breaker \in Breakers
    BY KeeperTxAssumption DEF Cleared, Breakers, TxInv, TxTypeOK
  <2> QED BY <2>1, KeeperTxAssumption DEF RecordTxSuccess, Fault, TxInv, TxTypeOK
<1>2. StreakInv'
  BY KeeperTxAssumption DEF RecordTxSuccess, Cleared, TxInv, TxTypeOK, StreakInv, Larger
<1>3. /\ at' \in [Senders -> {"idle", "guard", "estimate", "submit", "wait", "odd", "ok"}]
      /\ Submitting' \subseteq Submitting
      /\ tx' \in [Senders -> {"none", "pending", "ok", "odd", "bad"}]
      /\ orphans' \in 0..MaxOrphans
  BY FinishMoves DEF RecordTxSuccess, TxInv
<1>4. StopInv' /\ late' \in Nat
  BY <1>1, <1>3, StopStays DEF TxInv, StopInv
<1> QED BY <1>1, <1>2, <1>3, <1>4 DEF TxInv, TxTypeOK, Breakers

(* Time passes: both files come closer to their end, and when the          *)
(* breaker's cooldown ends the count starts anew.                          *)
LEMMA PassKeeps ==
  ASSUME TxInv, Pass, UNCHANGED maxFailures
  PROVE  TxInv'
<1>1. breaker \in Breakers /\ breaker.left \in 0..COOLDOWN /\ Less(breaker.left) \in 0..COOLDOWN
  BY KeeperTxAssumption DEF TxInv, TxTypeOK, Breakers, Less
<1>2. breaker' = [breaker EXCEPT !.left = Less(breaker.left)]
  BY DEF Pass
<1>3. /\ breaker' \in Breakers /\ breaker'.failures = breaker.failures
      /\ breaker'.corrupt = breaker.corrupt /\ breaker'.tripped = breaker.tripped
      /\ breaker'.left = Less(breaker.left)
  BY <1>1, <1>2, BreakerAges
<1>4. /\ pauseFile' \in Pauses
      /\ pauseFile'.left > 0 => pauseFile'.kind = "breaker"
  <2> DEFINE K == {"none", "manual", "breaker"}
             L == 0..COOLDOWN
             l == Less(pauseFile.left)
  <2>1. pauseFile \in [kind : K, left : L] /\ pauseFile.left \in Nat /\ l \in L
        /\ (l > 0 => pauseFile.left > 0) /\ pauseFile' = [pauseFile EXCEPT !.left = l]
    BY KeeperTxAssumption DEF Pass, Less, TxInv, TxTypeOK
  <2>2. pauseFile' \in [kind : K, left : L] /\ pauseFile'.left = l /\ pauseFile'.kind = pauseFile.kind
    <3> HIDE DEF K, L, l
    <3> QED BY <2>1
  <2> QED BY <2>1, <2>2 DEF Pauses, TxInv, StopInv
<1>5. /\ streak' = (IF breaker.left = 1 THEN 0 ELSE streak) /\ streak \in Nat
      /\ UNCHANGED <<at, tx, orphans, faults>> /\ Stopping
  BY KeeperTxAssumption DEF Pass, TxInv, TxTypeOK
<1>6. StreakInv'
  BY <1>1, <1>3, <1>5 DEF TxInv, StreakInv, Less
<1>7. StopInv' /\ late' \in Nat
  BY <1>4, <1>5, StopStays DEF TxInv, Submitting
<1> QED BY <1>3, <1>4, <1>5, <1>6, <1>7 DEF TxInv, TxTypeOK, Breakers, Pauses

(* The operator, and a state file that is damaged.                         *)
LEMMA FilesChangedKeep ==
  ASSUME TxInv, Operator \/ CorruptState, UNCHANGED maxFailures
  PROVE  TxInv'
<1>1. /\ pauseFile' \in Pauses /\ breaker' \in Breakers /\ streak' \in Nat
      /\ faults' \in 0..MaxFaults
      /\ pauseFile'.left > 0 => pauseFile'.kind = "breaker"
      /\ UNCHANGED <<at, tx, orphans>> /\ Stopping
  <2>1. /\ NoPause \in Pauses /\ [kind |-> "manual", left |-> 0] \in Pauses
        /\ Cleared \in Breakers /\ pauseFile \in Pauses /\ breaker \in Breakers
        /\ NoPause.left = 0
    BY KeeperTxAssumption DEF NoPause, Cleared, Pauses, Breakers, TxInv, TxTypeOK
  <2>2. [Cleared EXCEPT !.corrupt = TRUE] \in Breakers
    <3> DEFINE F == 0..(MAXFAILURES + 10)
               L == 0..COOLDOWN
    <3>1. Cleared \in [corrupt : BOOLEAN, failures : F, tripped : BOOLEAN, left : L]
      BY <2>1 DEF Breakers
    <3>2. [Cleared EXCEPT !.corrupt = TRUE]
            \in [corrupt : BOOLEAN, failures : F, tripped : BOOLEAN, left : L]
      <4> HIDE DEF F, L
      <4> QED BY <3>1
    <3> QED BY <3>2 DEF Breakers
  <2>3. /\ pauseFile' \in {pauseFile, NoPause, [kind |-> "manual", left |-> 0]}
        /\ breaker' \in {breaker, Cleared, [Cleared EXCEPT !.corrupt = TRUE]}
        /\ streak' \in {streak, 0} /\ Fault
        /\ UNCHANGED <<at, tx, orphans>> /\ Stopping
    BY Zenon DEF Operator, CorruptState
  <2>4. faults' \in 0..MaxFaults /\ streak' \in Nat
    BY <2>3, KeeperTxAssumption DEF Fault, TxInv, TxTypeOK
  <2>5. breaker' \in Breakers
    BY <2>1, <2>2, <2>3, Zenon
  <2>6. pauseFile' \in Pauses /\ (pauseFile'.left > 0 => pauseFile'.kind = "breaker")
    BY <2>1, <2>3 DEF TxInv, StopInv
  <2> QED BY <2>3, <2>4, <2>5, <2>6
<1>2. StreakInv'
  BY KeeperTxAssumption
     DEF Operator, CorruptState, Cleared, TxInv, TxTypeOK, StreakInv, Larger
<1>3. StopInv' /\ late' \in Nat
  BY <1>1, StopStays DEF TxInv, Submitting
<1> QED BY <1>1, <1>2, <1>3 DEF TxInv, TxTypeOK, Breakers, Pauses

LEMMA TxInvNext == TxInv /\ [TxNext]_txVars => TxInv'
<1> SUFFICES ASSUME TxInv, [TxNext]_txVars PROVE TxInv'
  OBVIOUS
<1>1. CASE UNCHANGED txVars
  BY <1>1 DEF txVars, TxInv, TxTypeOK, StopInv, StreakInv, Submitting
<1>2. ASSUME TxNext PROVE TxInv'
  <2>1. UNCHANGED maxFailures
    BY <1>2 DEF TxNext
  <2>2. ASSUME NEW s \in Senders, BeginSend(s) \/ Send(s) \/ MineSend(s) \/ Reorg(s)
        PROVE  TxInv'
    <3>1. CASE PendingGuard(s) \/ Confirmed(s) \/ MineSend(s) \/ Reorg(s)
      BY <2>1, <3>1, QuietSendsKeep DEF PendingGuard, Confirmed, MineSend, Reorg
    <3>2. CASE SubmitFails(s)
      BY <2>1, <3>2, QuietSendsKeep, FailuresKeep DEF SubmitFails
    <3> QED BY <2>1, <2>2, <3>1, <3>2, BeginSendKeeps, FailuresKeep, RecheckKeeps,
              SubmitKeeps, RecordTxSuccessKeeps DEF Send
  <2> QED BY <1>2, <2>1, <2>2, NetworkKeeps, PassKeeps, FilesChangedKeep DEF TxNext
<1> QED BY <1>1, <1>2

(* Once the keeper must stop, no more transactions are submitted than      *)
(* sends had passed their last check, and the failures since a success     *)
(* never reach the breaker's limit with the keeper running: for any number *)
(* of sends, any limit and cooldown, failed writes, damaged files, crashes *)
(* and operators (shared/tx.ts, pause.ts, circuit_breaker.ts).             *)
THEOREM SendsStop == TxSpec => [](TxTypeOK /\ StopHolds)
BY TxInvInit, TxInvNext, TxInvHolds, PTL DEF TxSpec

-----------------------------------------------------------------------------
(* The settlement windows.                                                 *)

(* Multiples of a period, of which the windows are made.                   *)
LEMMA Multiple ==
  ASSUME NEW n \in Int, NEW p \in Nat \ {0}
  PROVE  /\ n \div p \in Int /\ n % p \in Int /\ 0 <= n % p /\ n % p < p
         /\ n = p * (n \div p) + (n % p)
OBVIOUS

LEMMA TimesGrows ==
  ASSUME NEW p \in Nat \ {0}, NEW k \in Int
  PROVE  k >= 1 => p * k >= p
<1> SUFFICES ASSUME k >= 1 PROVE p * k >= p
  OBVIOUS
<1> DEFINE j == k - 1
<1>1. j \in Nat /\ k = j + 1
  OBVIOUS
<1> HIDE DEF j
<1>2. p * (j + 1) = p * j + p /\ p * j \in Nat
  BY <1>1
<1> QED BY <1>1, <1>2

LEMMA TimesIsMultiple ==
  ASSUME NEW p \in Nat \ {0}, NEW k \in Int
  PROVE  (p * k) % p = 0
<1> DEFINE n == p * k
           q == n \div p
           r == n % p
           d == k - q
<1>1. n \in Int
  OBVIOUS
<1>2. q \in Int /\ r \in Int /\ 0 <= r /\ r < p /\ n = p * q + r
  <2> HIDE DEF n
  <2> QED BY <1>1, Multiple
<1>3. d \in Int /\ k = q + d
  BY <1>2
<1> HIDE DEF q, r, d
<1>4. p * (q + d) = p * q + p * d /\ p * q \in Int /\ p * d \in Int
  BY <1>2, <1>3
<1> DEFINE x == p * q
           y == p * d
<1>5. y = r
  <2>1. n = x + y
    BY <1>3, <1>4
  <2>2. n = x + r /\ x \in Int /\ y \in Int
    BY <1>2, <1>4
  <2> HIDE DEF n, x, y
  <2> QED BY <1>2, <2>1, <2>2
<1>6. ~(d >= 1)
  BY <1>2, <1>3, <1>5, TimesGrows
<1>7. ~(d <= -1)
  <2> SUFFICES ASSUME d <= -1 PROVE FALSE
    OBVIOUS
  <2>1. -d \in Int /\ -d >= 1
    BY <1>3
  <2>2. p * (-d) >= p
    BY <2>1, TimesGrows
  <2>3. p * (-d) = -(p * d)
    BY <1>3
  <2> QED BY <1>2, <1>5, <2>2, <2>3
<1>8. d = 0
  BY <1>3, <1>6, <1>7
<1>9. r = 0
  BY <1>5, <1>8
<1> QED BY <1>9 DEF r

LEMMA MultiplesAddUp ==
  ASSUME NEW p \in Nat \ {0}, NEW a \in Int, NEW b \in Int, a % p = 0, b % p = 0
  PROVE  (a + b) % p = 0 /\ (a - b) % p = 0
<1> DEFINE i == a \div p
           j == b \div p
<1>1. i \in Int /\ j \in Int /\ a = p * i /\ b = p * j
  BY Multiple
<1> HIDE DEF i, j
<1>2. i + j \in Int /\ i - j \in Int
  BY <1>1
<1>3. (p * (i + j)) % p = 0 /\ (p * (i - j)) % p = 0
  BY <1>2, TimesIsMultiple
<1>4. p * (i + j) = a + b /\ p * (i - j) = a - b
  BY <1>1
<1> QED BY <1>3, <1>4

LEMMA MultipleAtLeast ==
  ASSUME NEW p \in Nat \ {0}, NEW a \in Int, a % p = 0, a > 0
  PROVE  a >= p
OBVIOUS

LEMMA MultipleOfMultiple ==
  ASSUME NEW p \in Nat \ {0}, NEW q \in Nat \ {0}, NEW a \in Int, a % q = 0, q % p = 0
  PROVE  a % p = 0
<1> DEFINE i == a \div q
           j == q \div p
<1>1. i \in Int /\ j \in Int /\ a = q * i /\ q = p * j
  BY Multiple
<1> HIDE DEF i, j
<1>2. q * i = p * (j * i) /\ j * i \in Int
  BY <1>1
<1>3. (p * (j * i)) % p = 0
  BY <1>2, TimesIsMultiple
<1> QED BY <1>1, <1>2, <1>3

LEMMA ConfigTypes ==
  ASSUME NEW c \in Configs
  PROVE  /\ c.period \in Nat \ {0} /\ c.duration \in Nat \ {0} /\ c.duration <= DAY /\ c.anchor \in Int
         /\ WEEK % c.period = 0 /\ DAY <= WEEK /\ c.period \in {DAY, WEEK}
<1>1. WEEK \in Nat \ {0} /\ DAY \in Nat \ {0} /\ WEEK % DAY = 0
  BY SettlementAssumption
<1>2. WEEK % WEEK = 0
  BY <1>1
<1>3. DAY <= WEEK
  BY <1>1, MultipleAtLeast
<1> QED BY <1>1, <1>2, <1>3 DEF Configs

(* Windows are whole periods apart.                                        *)
LEMMA AnchorsApart ==
  ASSUME NEW c \in Configs, NEW v \in Int, NEW w \in Int, IsAnchor(c, v)
  PROVE  IsAnchor(c, w) <=> (w - v) % c.period = 0
<1> DEFINE p == c.period
           a == c.anchor
<1>1. p \in Nat \ {0} /\ a \in Int /\ v - a \in Int /\ w - a \in Int /\ w - v \in Int
  BY ConfigTypes
<1>2. (v - a) % p = 0
  BY DEF IsAnchor
<1> HIDE DEF p, a
<1>3. ASSUME (w - a) % p = 0 PROVE (w - v) % p = 0
  <2>1. ((w - a) - (v - a)) % p = 0
    BY <1>1, <1>2, <1>3, MultiplesAddUp
  <2>2. (w - a) - (v - a) = w - v
    BY <1>1
  <2> QED BY <2>1, <2>2
<1>4. ASSUME (w - v) % p = 0 PROVE (w - a) % p = 0
  <2>1. ((w - v) + (v - a)) % p = 0
    BY <1>1, <1>2, <1>4, MultiplesAddUp
  <2>2. (w - v) + (v - a) = w - a
    BY <1>1
  <2> QED BY <2>1, <2>2
<1> QED BY <1>3, <1>4 DEF IsAnchor, p, a

LEMMA NextWindowIsFirst ==
  ASSUME NEW c \in Configs, NEW now \in Int
  PROVE  LET w == NextWindow(c, now) IN
         /\ w \in Int /\ now < w /\ w <= now + c.period /\ IsAnchor(c, w)
         /\ \A v \in (now + 1)..(w - 1) : ~IsAnchor(c, v)
<1> DEFINE p == c.period
           a == c.anchor
           r == (now - a) % p
           q == (now - a) \div p
           first == now + p - r
<1>1. p \in Nat \ {0} /\ a \in Int
  BY ConfigTypes
<1>2. now - a \in Int /\ q \in Int /\ r \in Int /\ 0 <= r /\ r < p /\ now - a = p * q + r
  <2> DEFINE n == now - a
  <2>1. n \in Int
    BY <1>1
  <2> HIDE DEF n
  <2>2. n \div p \in Int /\ n % p \in Int /\ 0 <= n % p /\ n % p < p /\ n = p * (n \div p) + (n % p)
    BY <1>1, <2>1, Multiple
  <2> QED BY <2>1, <2>2 DEF n
<1>3. first \in (now + 1)..(now + p) /\ IsAnchor(c, first)
  <2> HIDE DEF q, r
  <2>1. first \in Int /\ now < first /\ first <= now + p
    BY <1>1, <1>2 DEF r
  <2>2. first - a = p * q + p
    <3> DEFINE x == p * q
    <3>1. x \in Int /\ now - a = x + r /\ r \in Int
      BY <1>1, <1>2
    <3> HIDE DEF x, p, a
    <3>2. first - a = x + p
      BY <1>1, <3>1
    <3> QED BY <3>2 DEF x
  <2>3. p * q + p = p * (q + 1) /\ q + 1 \in Int
    BY <1>1, <1>2
  <2>4. (first - a) % p = 0
    BY <1>1, <2>2, <2>3, TimesIsMultiple
  <2> QED BY <2>1, <2>4, <1>1 DEF IsAnchor
<1> DEFINE w == NextWindow(c, now)
<1>4. w \in (now + 1)..(now + p) /\ IsAnchor(c, w)
  <2> HIDE DEF first
  <2> QED BY <1>3 DEF NextWindow
<1>5. ASSUME NEW v \in (now + 1)..(w - 1), IsAnchor(c, v) PROVE FALSE
  <2> HIDE DEF w
  <2>1. v \in Int /\ w \in Int /\ w - v > 0 /\ w - v < p
    BY <1>1, <1>4, <1>5
  <2>2. (w - v) % p = 0
    BY <1>4, <1>5, <2>1, AnchorsApart
  <2> HIDE DEF p
  <2>3. w - v >= p
    BY <1>1, <2>1, <2>2, MultipleAtLeast
  <2> QED BY <1>1, <2>1, <2>3
<1> QED BY <1>1, <1>4, <1>5

(* After a cycle no window is left out that is not over.                   *)
LEMMA NextAfterIsFirst ==
  ASSUME NEW c \in Configs, NEW now \in 0..(WEEK - 1), NEW s, s.open \in Int, s.open >= -WEEK
  PROVE  LET w == NextAfter(c, s, now) IN
         /\ w \in Int /\ s.open < w /\ (w - s.open) % c.period = 0
         /\ \A v \in (s.open + 1)..(w - 1) : (v - s.open) % c.period = 0 => v + c.duration <= now
<1> DEFINE p == c.period
           o == s.open
           m == now - c.duration - o
           Right(w) == /\ w + c.duration > now
                       /\ \A v \in (o + 1)..(w - 1) : (v - o) % p = 0 => v + c.duration <= now
           Candidates == {o + k * p : k \in 1..(3 * WEEK)}
<1>1. /\ p \in Nat \ {0} /\ c.duration \in Nat \ {0} /\ c.duration <= WEEK /\ WEEK \in Nat \ {0}
      /\ o \in Int /\ now \in Int /\ m \in Int /\ m < 2 * WEEK
  BY ConfigTypes, SettlementAssumption
<1>2. \E k \in 1..(3 * WEEK) : Right(o + k * p)
  <2>1. CASE m < p
    <3>1. 1 \in 1..(3 * WEEK)
      BY <1>1
    <3>2. o + 1 * p = o + p
      BY <1>1
    <3>3. o + p + c.duration > now
      BY <1>1, <2>1
    <3>4. ASSUME NEW v \in (o + 1)..((o + p) - 1), (v - o) % p = 0 PROVE FALSE
      <4> HIDE DEF p, o
      <4>1. v - o \in Int /\ v - o > 0 /\ v - o < p
        BY <1>1
      <4>2. v - o >= p
        BY <1>1, <3>4, <4>1, MultipleAtLeast
      <4> QED BY <1>1, <4>1, <4>2
    <3>5. Right(o + p)
      <4> HIDE DEF p, o
      <4> QED BY <3>3, <3>4
    <3> QED BY <3>1, <3>2, <3>5
  <2>2. CASE m >= p
    <3> DEFINE q == m \div p
               r == m % p
               x == p * q
    <3>1. q \in Int /\ r \in Int /\ 0 <= r /\ r < p /\ m = x + r
      <4> HIDE DEF m, p
      <4> QED BY <1>1, Multiple
    <3>2. x \in Int /\ (q + 1) * p = x + p
      <4> HIDE DEF q, r, p
      <4> QED BY <1>1, <3>1
    <3>3. q >= 1
      <4> SUFFICES ASSUME q <= 0 PROVE FALSE
        BY <3>1
      <4> HIDE DEF q, r, m, p
      <4>1. p * q <= 0
        <5>1. -q \in Nat /\ p * (-q) = -(p * q) /\ p * (-q) \in Nat
          BY <1>1, <3>1
        <5> QED BY <1>1, <3>1, <5>1
      <4> QED BY <1>1, <2>2, <3>1, <4>1
    <3>4. q <= m
      <4> HIDE DEF q, r, m
      <4> DEFINE i == q - 1
                 j == p - 1
      <4>1. i \in Nat /\ j \in Nat /\ q = i + 1 /\ p = j + 1
        BY <1>1, <3>1, <3>3
      <4> HIDE DEF i, j, p
      <4>2. (j + 1) * q = j * q + q /\ j * q \in Nat
        BY <3>1, <3>3, <4>1
      <4> QED BY <1>1, <3>1, <4>1, <4>2
    <3>5. q + 1 \in 1..(3 * WEEK)
      <4> HIDE DEF q, r, m
      <4> QED BY <1>1, <3>1, <3>3, <3>4
    <3> DEFINE w == o + (q + 1) * p
    <3>6. w = o + x + p
      <4> HIDE DEF q, x, p, o
      <4> QED BY <1>1, <3>1, <3>2
    <3>7. w + c.duration > now
      <4> HIDE DEF w, x, q, r
      <4> QED BY <1>1, <3>1, <3>2, <3>6
    <3>8. ASSUME NEW v \in (o + 1)..(w - 1), (v - o) % p = 0 PROVE v + c.duration <= now
      <4> HIDE DEF w, o, p
      <4>1. v - o \in Int /\ v \in Int
        BY <1>1, <3>2, <3>6
      <4>2. v - o <= x
        <5> SUFFICES ASSUME v - o > x PROVE FALSE
          BY <3>2, <4>1
        <5>1. x % p = 0
          BY <1>1, <3>1, TimesIsMultiple
        <5> HIDE DEF x
        <5>2. ((v - o) - x) % p = 0
          BY <1>1, <3>2, <3>8, <4>1, <5>1, MultiplesAddUp
        <5>3. (v - o) - x \in Int /\ (v - o) - x > 0 /\ (v - o) - x < p
          BY <1>1, <3>2, <3>6, <4>1
        <5>4. (v - o) - x >= p
          BY <1>1, <5>2, <5>3, MultipleAtLeast
        <5> QED BY <1>1, <5>3, <5>4, <3>2, <4>1
      <4> HIDE DEF x, q, r
      <4> QED BY <1>1, <3>1, <3>2, <4>1, <4>2 DEF o
    <3>9. Right(w)
      BY <3>7, <3>8
    <3> QED BY <3>5, <3>9
  <2> HIDE DEF m
  <2> QED BY <1>1, <2>1, <2>2
<1>3. \E w \in Candidates : Right(w)
  BY <1>2
<1> DEFINE w == NextAfter(c, s, now)
<1>4. w \in Candidates /\ Right(w)
  <2>1. w = CHOOSE u \in Candidates : Right(u)
    BY DEF NextAfter
  <2> HIDE DEF Candidates, Right, w
  <2> QED BY <1>3, <2>1
<1>5. PICK k \in 1..(3 * WEEK) : w = o + k * p
  BY <1>4
<1>6. k * p = p * k /\ p * k \in Int /\ p * k >= p /\ (p * k) % p = 0
  BY <1>1, <1>5, TimesGrows, TimesIsMultiple
<1>7. w \in Int /\ o < w /\ w - o = p * k
  <2> DEFINE y == p * k
  <2>1. y \in Int /\ y >= p /\ w = o + y
    BY <1>5, <1>6
  <2> HIDE DEF y, w
  <2>2. w \in Int /\ o < w /\ w - o = y
    BY <1>1, <2>1
  <2> QED BY <2>2 DEF y
<1> HIDE DEF w
<1> QED BY <1>4, <1>6, <1>7 DEF w

Cycles == {"none", "immediate", "spread"}
SettlementStates == [next : Int, open : Int, close : Int, phase : Cycles \cup {"lost"},
                     done : SUBSET {"compound-lp", "automax-bonus"}, harvest : BOOLEAN,
                     batches : Int]

SettlementTypes ==
  /\ sClock \in 0..(WEEK - 1) /\ sConfig \in Configs /\ sOpened \in Int /\ sSince \in 0..2
  /\ sMem \in SettlementStates /\ sMem.phase # "lost" /\ sDisk \in SettlementStates

(* No window before the next one is left out that is not over, once one    *)
(* has been opened under the present settings; the one that is open is the *)
(* last that was opened.                                                   *)
Elapsed(from, to) ==
  \A v \in (from + 1)..(to - 1) : IsAnchor(sConfig, v) => v + sConfig.duration <= sClock
Sound(s) ==
  /\ s.next >= -WEEK /\ IsAnchor(sConfig, s.next)
  /\ s.phase = "none" /\ sSince > 0 => Elapsed(sOpened, s.next)
  /\ s.phase # "none" => s.open = s.next /\ sOpened = s.next

(* The loop is in the part of its round that the cycle's phase calls for.  *)
InTurn ==
  /\ sAt \in {"immediate-1", "immediate-2", "transition"} => sMem.phase = "immediate"
  /\ sAt \in {"spread", "schedule", "batch", "finish"} => sMem.phase = "spread"

(* The file is the daemon's state, but for a schedule that was only        *)
(* anchored anew and comes no later.                                       *)
OnDisk ==
  /\ sDisk.phase = "none" => sMem.phase = "none" /\ sMem.next <= sDisk.next
  /\ sDisk.phase \in {"immediate", "spread"} => sMem = sDisk

WindowsInv ==
  SettlementTypes /\ InTurn /\ OnDisk /\ Sound(sMem) /\ (sDisk.phase # "lost" => Sound(sDisk))

LEMMA NoCycleIs ==
  ASSUME NEW w \in Int
  PROVE  /\ NoCycle(w) \in SettlementStates /\ NoCycle(w).next = w /\ NoCycle(w).phase = "none"
         /\ NoCycle(w).open = 0
BY DEF NoCycle, Unscheduled, SettlementStates, Cycles

LEMMA NoStateIs == NoState \in SettlementStates /\ NoState.phase = "lost"
<1>1. NoCycle(0) \in SettlementStates
  BY NoCycleIs
<1> QED BY <1>1 DEF NoState, SettlementStates, Cycles

(* A schedule that starts anew has no window before its next one.          *)
LEMMA AnewIsSound ==
  ASSUME NEW c \in Configs, NEW now \in Int, NEW w \in Int, w = NextWindow(c, now)
  PROVE  \A v \in (now + 1)..(w - 1) : IsAnchor(c, v) => v + c.duration <= now
BY NextWindowIsFirst

LEMMA WindowsInvInit == SettlementInit => WindowsInv
<1> SUFFICES ASSUME SettlementInit PROVE WindowsInv
  OBVIOUS
<1> DEFINE w == NextWindow(sConfig, 0)
<1>1. /\ sClock = 0 /\ sConfig \in Configs /\ sMem = NoCycle(w) /\ sDisk = NoState /\ sAt = "top"
      /\ sOpened = 0 /\ sSince = 2
  BY DEF SettlementInit
<1>2. /\ w \in Int /\ 0 < w /\ IsAnchor(sConfig, w)
      /\ \A v \in (0 + 1)..(w - 1) : ~IsAnchor(sConfig, v)
  BY <1>1, NextWindowIsFirst
<1> HIDE DEF w
<1>3. SettlementTypes
  BY <1>1, <1>2, NoCycleIs, NoStateIs, SettlementAssumption DEF SettlementTypes
<1>4. InTurn /\ OnDisk
  BY <1>1, NoStateIs DEF InTurn, OnDisk
<1>5. Sound(sMem)
  BY <1>1, <1>2, NoCycleIs, SettlementAssumption DEF Sound, Elapsed
<1> QED BY <1>1, <1>3, <1>4, <1>5, NoStateIs DEF WindowsInv

(* What a step of the loop writes goes to memory and disk alike.           *)
LEMMA KeepsWindows ==
  ASSUME WindowsInv, NEW s \in SettlementStates, s.phase # "lost", Keep(s),
         UNCHANGED <<sClock, sConfig>>, sOpened' \in Int, sSince' \in 0..2,
         InTurn', Sound(s)'
  PROVE  WindowsInv'
<1>1. sMem' = s /\ sDisk' = s
  BY DEF Keep
<1>2. SettlementTypes'
  BY <1>1 DEF WindowsInv, SettlementTypes
<1>3. OnDisk'
  BY <1>1 DEF OnDisk, SettlementStates
<1>4. Sound(sMem)' /\ Sound(sDisk)'
  BY <1>1 DEF Sound, Elapsed
<1> QED BY <1>2, <1>3, <1>4 DEF WindowsInv

LEMMA UnchangedWindows ==
  ASSUME WindowsInv, UNCHANGED <<sClock, sConfig, sMem, sDisk, sOpened, sSince>>, InTurn'
  PROVE  WindowsInv'
<1>1. SettlementTypes' /\ OnDisk'
  BY DEF WindowsInv, SettlementTypes, OnDisk
<1>2. Sound(sMem)' /\ (sDisk.phase # "lost" => Sound(sDisk))'
  BY DEF WindowsInv, Sound, Elapsed
<1> QED BY <1>1, <1>2 DEF WindowsInv

LEMMA ClosedIsSound ==
  ASSUME WindowsInv, sMem.phase # "none"
  PROVE  LET s == Closed(sConfig, sMem, sClock) IN
         /\ s \in SettlementStates /\ s.phase = "none" /\ s.next \in Int
         /\ s.next >= -WEEK /\ IsAnchor(sConfig, s.next) /\ Elapsed(sOpened, s.next)
<1> DEFINE w == NextAfter(sConfig, sMem, sClock)
<1>1. /\ sMem \in SettlementStates /\ sClock \in 0..(WEEK - 1) /\ sConfig \in Configs
      /\ sMem.open = sMem.next /\ sOpened = sMem.next /\ sMem.next >= -WEEK
      /\ IsAnchor(sConfig, sMem.next)
  BY DEF WindowsInv, SettlementTypes, Sound
<1>2. sMem.open \in Int /\ sMem.open >= -WEEK /\ IsAnchor(sConfig, sMem.open) /\ sOpened = sMem.open
  BY <1>1 DEF SettlementStates
<1>3. /\ w \in Int /\ sMem.open < w /\ (w - sMem.open) % sConfig.period = 0
      /\ \A v \in (sMem.open + 1)..(w - 1) :
           (v - sMem.open) % sConfig.period = 0 => v + sConfig.duration <= sClock
  BY <1>1, <1>2, NextAfterIsFirst
<1> HIDE DEF w
<1>4. IsAnchor(sConfig, w)
  BY <1>1, <1>2, <1>3, AnchorsApart
<1>5. ASSUME NEW v \in (sMem.open + 1)..(w - 1), IsAnchor(sConfig, v)
      PROVE  v + sConfig.duration <= sClock
  <2>1. v \in Int
    BY <1>2, <1>3
  <2>2. (v - sMem.open) % sConfig.period = 0
    BY <1>1, <1>2, <1>5, <2>1, AnchorsApart
  <2> QED BY <1>3, <2>2
<1>6. Elapsed(sOpened, w)
  BY <1>2, <1>5 DEF Elapsed
<1>7. w >= -WEEK
  BY <1>2, <1>3, SettlementAssumption
<1>8. Closed(sConfig, sMem, sClock) = NoCycle(w)
  BY DEF Closed, w
<1> QED BY <1>3, <1>4, <1>6, <1>7, <1>8, NoCycleIs

LEMMA CloseKeeps ==
  ASSUME WindowsInv, sMem.phase # "none", Keep(Closed(sConfig, sMem, sClock)),
         UNCHANGED <<sClock, sConfig, sOpened, sSince>>, sAt' \in {"due", "top"}
  PROVE  WindowsInv'
<1> DEFINE s == Closed(sConfig, sMem, sClock)
<1>1. /\ s \in SettlementStates /\ s.phase = "none" /\ s.next >= -WEEK
      /\ IsAnchor(sConfig, s.next) /\ Elapsed(sOpened, s.next)
  BY ClosedIsSound
<1>2. PICK t : t = s
  OBVIOUS
<1>3. Keep(t) /\ t \in SettlementStates /\ t.phase = "none" /\ t.next >= -WEEK
      /\ IsAnchor(sConfig, t.next) /\ Elapsed(sOpened, t.next)
  BY <1>1, <1>2
<1>4. Sound(t)'
  BY <1>3 DEF Sound, Elapsed
<1>5. InTurn'
  BY DEF InTurn
<1>6. sOpened' \in Int /\ sSince' \in 0..2
  BY DEF WindowsInv, SettlementTypes
<1> QED BY <1>3, <1>4, <1>5, <1>6, KeepsWindows

LEMMA LoopKeepsWindows == WindowsInv /\ SettlementLoop => WindowsInv'
<1> SUFFICES ASSUME WindowsInv, SettlementLoop PROVE WindowsInv'
  OBVIOUS
<1>1. /\ sMem \in SettlementStates /\ sMem.phase # "lost" /\ InTurn
      /\ sClock \in Int /\ sConfig \in Configs /\ sOpened \in Int /\ sSince \in 0..2
      /\ Sound(sMem)
  BY SettlementAssumption DEF WindowsInv, SettlementTypes
<1>2. CASE CloseElapsed
  <2>1. CASE /\ sMem.phase # "none" /\ Keep(Closed(sConfig, sMem, sClock)) /\ sAt' = "due"
             /\ UNCHANGED <<sClock, sConfig, sOpened, sSince>>
    BY <2>1, CloseKeeps
  <2>2. CASE UNCHANGED <<sMem, sDisk, sClock, sConfig, sOpened, sSince>> /\ sAt' = "due"
    BY <2>2, UnchangedWindows DEF InTurn
  <2> QED BY <1>2, <2>1, <2>2 DEF CloseElapsed, Same, SameHistory
<1>3. CASE OpenDue
  <2>0. PICK s : s = Opened(sConfig, sMem)
    OBVIOUS
  <2>1. /\ sAt' = "immediate-1" /\ sMem.phase = "none" /\ Keep(s) /\ sOpened' = sMem.next
        /\ sSince' \in 0..2 /\ UNCHANGED <<sClock, sConfig>>
    BY <1>1, <1>3, <2>0 DEF OpenDue, Same
  <2>2. /\ s \in SettlementStates /\ s.phase = "immediate" /\ s.open = sMem.next /\ s.next = sMem.next
    <3>1. sConfig.duration \in Nat \ {0} /\ sMem.next \in Int
      BY <1>1, ConfigTypes DEF SettlementStates
    <3>2. PICK e : e = sMem.next + sConfig.duration
      OBVIOUS
    <3>3. e \in Int
      BY <3>1, <3>2
    <3>4. s = [sMem EXCEPT !.open = sMem.next, !.close = e, !.phase = "immediate"]
      BY <2>0, <3>2 DEF Opened
    <3> QED BY <1>1, <3>1, <3>3, <3>4 DEF SettlementStates, Cycles
  <2>3. sMem' = s
    BY <2>1 DEF Keep
  <2>4. InTurn'
    BY <2>1, <2>2, <2>3 DEF InTurn
  <2>5. Sound(s)'
    BY <1>1, <2>1, <2>2 DEF Sound
  <2>6. sOpened' \in Int
    BY <1>1, <2>1 DEF SettlementStates
  <2> QED BY <2>1, <2>2, <2>4, <2>5, <2>6, KeepsWindows
<1>4. CASE NothingToOpen
  <2>1. InTurn'
    BY <1>1, <1>4 DEF NothingToOpen, InTurn
  <2> QED BY <1>4, <2>1, UnchangedWindows DEF NothingToOpen, Same, SameHistory
<1>5. ASSUME NEW i \in {1, 2}, RunImmediate(i) PROVE WindowsInv'
  <2>1. PICK s : /\ Keep(s)
                 /\ s = markImmediateTaskDone(sMem, Immediate[i]) \/ s = sMem
    BY <1>5 DEF RunImmediate
  <2>2. Immediate[i] \in {"compound-lp", "automax-bonus"}
    BY DEF Immediate
  <2>3. /\ s \in SettlementStates /\ s.next = sMem.next /\ s.open = sMem.open
        /\ s.phase = sMem.phase
    BY <1>1, <2>1, <2>2 DEF markImmediateTaskDone, SettlementStates
  <2>4. /\ sAt \in {"immediate-1", "immediate-2"} /\ sAt' \in {"immediate-2", "transition"}
        /\ UNCHANGED <<sClock, sConfig, sOpened, sSince>>
    BY <1>5 DEF RunImmediate, Same, SameHistory
  <2>5. sMem' = s
    BY <2>1 DEF Keep
  <2>6. InTurn'
    BY <1>1, <2>3, <2>4, <2>5 DEF InTurn
  <2>7. Sound(s)'
    BY <1>1, <2>3, <2>4 DEF Sound, Elapsed
  <2> QED BY <1>1, <2>1, <2>3, <2>4, <2>6, <2>7, KeepsWindows
<1>6. CASE TransitionToSpread
  <2>1. CASE Keep(transitionToSpread(sMem)) /\ sAt' = "spread" /\ Same /\ SameHistory
    <3>0. PICK s : s = transitionToSpread(sMem)
      OBVIOUS
    <3>1. sMem.phase = "immediate"
      BY <1>1, <1>6 DEF TransitionToSpread, InTurn
    <3>2. /\ s \in SettlementStates /\ s.next = sMem.next /\ s.open = sMem.open /\ s.phase = "spread"
      BY <1>1, <3>0 DEF transitionToSpread, SettlementStates, Cycles
    <3>3. sMem' = s /\ Keep(s)
      BY <2>1, <3>0 DEF Keep
    <3>4. InTurn'
      BY <2>1, <3>2, <3>3 DEF InTurn
    <3>5. Sound(s)'
      BY <1>1, <2>1, <3>1, <3>2 DEF Sound, Same, SameHistory
    <3> QED BY <1>1, <2>1, <3>2, <3>3, <3>4, <3>5, KeepsWindows DEF Same, SameHistory
  <2>2. CASE sAt' = "tasks" /\ UNCHANGED <<sMem, sDisk>> /\ Same /\ SameHistory
    BY <2>2, UnchangedWindows DEF InTurn, Same, SameHistory
  <2> QED BY <1>6, <2>1, <2>2 DEF TransitionToSpread
<1>7. CASE RunHarvest \/ ScheduleBatches \/ RunBatch
  <2>1. /\ sAt \in {"spread", "schedule", "batch"}
        /\ sAt' \in {"schedule", "batch", "finish", "top"}
        /\ UNCHANGED <<sClock, sConfig, sOpened, sSince>>
    BY <1>7 DEF RunHarvest, ScheduleBatches, RunBatch, Same, SameHistory
  <2>2. CASE UNCHANGED <<sMem, sDisk>>
    <3>1. InTurn'
      BY <1>1, <2>1, <2>2 DEF InTurn
    <3> QED BY <2>1, <2>2, <3>1, UnchangedWindows
  <2>3. CASE \E s \in SettlementStates :
               Keep(s) /\ s.next = sMem.next /\ s.open = sMem.open /\ s.phase = sMem.phase
    <3>1. PICK s \in SettlementStates :
            Keep(s) /\ s.next = sMem.next /\ s.open = sMem.open /\ s.phase = sMem.phase
      BY <2>3
    <3>2. sMem' = s
      BY <3>1 DEF Keep
    <3>3. InTurn'
      BY <1>1, <2>1, <3>1, <3>2 DEF InTurn
    <3>4. Sound(s)'
      BY <1>1, <2>1, <3>1 DEF Sound, Elapsed
    <3> QED BY <1>1, <2>1, <3>1, <3>3, <3>4, KeepsWindows
  <2>4. ASSUME NEW s, Keep(s), s = sMem \/ s = markHarvestDone(sMem) \/ s = markBatchCompleted(sMem)
                 \/ \E n \in 1..BATCHES : s = populateSpreadBatches(sMem, n)
        PROVE  WindowsInv'
    <3>1. /\ s \in SettlementStates
          /\ s.next = sMem.next /\ s.open = sMem.open /\ s.phase = sMem.phase
      <4>1. CASE s = sMem \/ s = markHarvestDone(sMem)
        BY <1>1, <4>1 DEF markHarvestDone, SettlementStates
      <4>2. CASE s = markBatchCompleted(sMem)
        <5>1. sMem.batches - 1 \in Int
          BY <1>1 DEF SettlementStates
        <5> QED BY <1>1, <4>2, <5>1 DEF markBatchCompleted, SettlementStates
      <4>3. ASSUME NEW n \in 1..BATCHES, s = populateSpreadBatches(sMem, n)
            PROVE  /\ s \in SettlementStates
                   /\ s.next = sMem.next /\ s.open = sMem.open /\ s.phase = sMem.phase
        <5>1. n \in Int
          OBVIOUS
        <5> QED BY <1>1, <4>3, <5>1 DEF populateSpreadBatches, SettlementStates
      <4> QED BY <2>4, <4>1, <4>2, <4>3
    <3> QED BY <2>3, <2>4, <3>1
  <2> QED BY <1>7, <2>2, <2>4 DEF RunHarvest, ScheduleBatches, RunBatch, scheduleBatches
<1>8. CASE CloseComplete
  <2>1. sAt = "finish" /\ sMem.phase # "none" /\ UNCHANGED <<sClock, sConfig, sOpened, sSince>>
    BY <1>1, <1>8 DEF CloseComplete, InTurn, Same, SameHistory
  <2>2. CASE Keep(Closed(sConfig, sMem, sClock)) /\ sAt' = "top"
    BY <2>1, <2>2, CloseKeeps
  <2>3. CASE UNCHANGED <<sMem, sDisk>> /\ sAt' = "tasks"
    BY <2>1, <2>3, UnchangedWindows DEF InTurn
  <2> QED BY <1>8, <2>2, <2>3 DEF CloseComplete
<1>9. CASE WaitForBatch
  <2>1. InTurn'
    BY <1>1, <1>9 DEF WaitForBatch, InTurn
  <2> QED BY <1>9, <2>1, UnchangedWindows DEF WaitForBatch, Same, SameHistory
<1>10. CASE IntervalTasks
  <2>1. InTurn'
    BY <1>10 DEF IntervalTasks, InTurn
  <2> QED BY <1>10, <2>1, UnchangedWindows DEF IntervalTasks, Same, SameHistory
<1> QED BY <1>2, <1>3, <1>4, <1>5, <1>6, <1>7, <1>8, <1>9, <1>10 DEF SettlementLoop

(* Taken back by a week, the windows keep their places.                    *)
LEMMA EarlierIsSound ==
  ASSUME WindowsInv, NEW s \in SettlementStates, s.phase # "lost", s.next >= 0, Sound(s),
         UNCHANGED <<sConfig, sSince>>, sClock = WEEK - 1, sClock' = 0, sOpened' = MinusWeek(sOpened)
  PROVE  Sound(Earlier(s))'
<1> DEFINE e == Earlier(s)
<1>1. /\ sConfig \in Configs /\ sOpened \in Int /\ WEEK \in Nat \ {0} /\ sConfig.duration \in Int
      /\ sConfig.period \in Nat \ {0} /\ WEEK % sConfig.period = 0 /\ s.next \in Int
  BY ConfigTypes, SettlementAssumption DEF WindowsInv, SettlementTypes, SettlementStates
<1>2. /\ e.next = s.next - WEEK /\ e.phase = s.phase
      /\ s.phase # "none" => e.open = s.open - WEEK
  BY DEF Earlier, SettlementStates
<1>3. /\ sOpened' \in Int /\ sOpened' >= sOpened - WEEK
      /\ sOpened >= 0 => sOpened' = sOpened - WEEK
  BY <1>1 DEF MinusWeek
<1>4. ASSUME NEW v \in Int PROVE IsAnchor(sConfig, v) <=> IsAnchor(sConfig, v + WEEK)
  <2>1. v + WEEK \in Int /\ (v + WEEK) - v = WEEK
    BY <1>1
  <2>2. ASSUME IsAnchor(sConfig, v) PROVE IsAnchor(sConfig, v + WEEK)
    BY <1>1, <2>1, <2>2, AnchorsApart
  <2>3. ASSUME IsAnchor(sConfig, v + WEEK) PROVE IsAnchor(sConfig, v)
    <3>1. IsAnchor(sConfig, v) <=> (v - (v + WEEK)) % sConfig.period = 0
      BY <1>1, <2>1, <2>3, AnchorsApart
    <3>2. (0 - WEEK) % sConfig.period = 0 /\ v - (v + WEEK) = 0 - WEEK
      <4>1. 0 % sConfig.period = 0
        BY <1>1
      <4> QED BY <1>1, <4>1, MultiplesAddUp
    <3> QED BY <3>1, <3>2
  <2> QED BY <2>2, <2>3
<1>5. IsAnchor(sConfig, s.next - WEEK)
  <2>1. s.next - WEEK \in Int /\ (s.next - WEEK) + WEEK = s.next
    BY <1>1
  <2> QED BY <1>4, <2>1 DEF Sound
<1>6. ASSUME Elapsed(sOpened, s.next),
             NEW v \in (sOpened' + 1)..((s.next - WEEK) - 1), IsAnchor(sConfig, v)
      PROVE  v + sConfig.duration <= 0
  <2>1. v \in Int /\ v + WEEK \in (sOpened + 1)..(s.next - 1)
    BY <1>1, <1>3
  <2>2. IsAnchor(sConfig, v + WEEK)
    BY <1>4, <1>6, <2>1
  <2>3. (v + WEEK) + sConfig.duration <= WEEK - 1
    BY <1>6, <2>1, <2>2 DEF Elapsed
  <2> QED BY <1>1, <2>1, <2>3
<1> HIDE DEF e
<1>7. e.next >= -WEEK /\ IsAnchor(sConfig', e.next)
  BY <1>1, <1>2, <1>5
<1>8. e.phase = "none" /\ sSince' > 0 =>
        \A v \in (sOpened' + 1)..(e.next - 1) : IsAnchor(sConfig', v) => v + sConfig'.duration <= sClock'
  BY <1>2, <1>6 DEF Sound
<1>9. e.phase # "none" => e.open = e.next /\ sOpened' = e.next
  BY <1>1, <1>2, <1>3 DEF Sound
<1>10. Sound(e)'
  BY <1>7, <1>8, <1>9 DEF Sound, Elapsed
<1> QED BY <1>10 DEF e

LEMMA EarlierIs ==
  ASSUME NEW s \in SettlementStates
  PROVE  /\ Earlier(s) \in SettlementStates /\ Earlier(s).phase = s.phase
         /\ Earlier(s).next = s.next - WEEK
<1>1. WEEK \in Int
  BY SettlementAssumption
<1> DEFINE n == s.next - WEEK
           o == IF s.phase = "none" THEN 0 ELSE s.open - WEEK
           c == IF s.phase = "none" THEN 0 ELSE s.close - WEEK
<1>2. n \in Int /\ o \in Int /\ c \in Int
  BY <1>1 DEF SettlementStates
<1>3. Earlier(s) = [s EXCEPT !.next = n, !.open = o, !.close = c]
  BY DEF Earlier
<1> HIDE DEF n, o, c
<1>4. /\ Earlier(s) \in SettlementStates /\ Earlier(s).phase = s.phase /\ Earlier(s).next = n
  BY <1>2, <1>3 DEF SettlementStates
<1> QED BY <1>4 DEF n

LEMMA ElapseKeepsWindows == WindowsInv /\ Elapse => WindowsInv'
<1> SUFFICES ASSUME WindowsInv, Elapse PROVE WindowsInv'
  OBVIOUS
<1>0. /\ sClock \in 0..(WEEK - 1) /\ sConfig \in Configs /\ sOpened \in Int /\ sSince \in 0..2
      /\ sMem \in SettlementStates /\ sMem.phase # "lost" /\ sDisk \in SettlementStates
      /\ WEEK \in Nat \ {0} /\ sConfig.duration \in Int
      /\ InTurn /\ OnDisk /\ Sound(sMem) /\ (sDisk.phase # "lost" => Sound(sDisk))
  BY ConfigTypes, SettlementAssumption DEF WindowsInv, SettlementTypes
<1>1. UNCHANGED <<sConfig, sAt, sSince>>
  BY DEF Elapse
<1>2. CASE sClock < WEEK - 1
  <2>1. sClock' = sClock + 1 /\ UNCHANGED <<sMem, sDisk, sOpened>>
    BY <1>2 DEF Elapse
  <2>2. SettlementTypes' /\ InTurn' /\ OnDisk'
    BY <1>0, <1>1, <1>2, <2>1 DEF SettlementTypes, InTurn, OnDisk
  <2>3. ASSUME NEW n \in Int, Elapsed(sOpened, n),
               NEW v \in (sOpened + 1)..(n - 1), IsAnchor(sConfig, v)
        PROVE  v + sConfig.duration <= sClock + 1
    <3>1. v \in Int /\ v + sConfig.duration <= sClock
      BY <1>0, <2>3 DEF Elapsed
    <3> QED BY <1>0, <3>1
  <2>4. sMem.next \in Int /\ sDisk.next \in Int
    BY <1>0 DEF SettlementStates
  <2>5. Sound(sMem)'
    BY <1>0, <1>1, <2>1, <2>3, <2>4 DEF Sound, Elapsed
  <2>6. sDisk.phase # "lost" => Sound(sDisk)'
    BY <1>0, <1>1, <2>1, <2>3, <2>4 DEF Sound, Elapsed
  <2> QED BY <2>1, <2>2, <2>5, <2>6 DEF WindowsInv
<1>3. CASE ~(sClock < WEEK - 1)
  <2>1. /\ sMem.next >= 0 /\ sClock' = 0 /\ sMem' = Earlier(sMem) /\ sOpened' = MinusWeek(sOpened)
        /\ sDisk' = IF sDisk.phase = "lost" THEN NoState ELSE Earlier(sDisk)
    BY <1>3 DEF Elapse
  <2>2. sClock = WEEK - 1
    BY <1>0, <1>3
  <2>3. PICK m, d : m = sMem /\ d = sDisk
    OBVIOUS
  <2>4. /\ m \in SettlementStates /\ m.phase # "lost" /\ m.next >= 0 /\ Sound(m) /\ sMem' = Earlier(m)
        /\ d \in SettlementStates /\ (d.phase # "lost" => d.next >= 0 /\ Sound(d) /\ sDisk' = Earlier(d))
        /\ d.phase = "lost" => sDisk' = NoState
    BY <1>0, <2>1, <2>3 DEF OnDisk, SettlementStates, Cycles
  <2>5. Sound(Earlier(m))'
    BY <1>1, <2>1, <2>2, <2>4, EarlierIsSound
  <2>6. d.phase # "lost" => Sound(Earlier(d))'
    BY <1>1, <2>1, <2>2, <2>4, EarlierIsSound
  <2>7. SettlementTypes'
    <3>1. sOpened' \in Int /\ sClock' \in 0..(WEEK - 1)
      BY <1>0, <2>1 DEF MinusWeek
    <3>2. sMem' \in SettlementStates /\ sMem'.phase # "lost" /\ sDisk' \in SettlementStates
      BY <2>4, EarlierIs, NoStateIs
    <3> QED BY <1>0, <1>1, <3>1, <3>2 DEF SettlementTypes
  <2>8. InTurn'
    BY <1>0, <1>1, <2>3, <2>4, EarlierIs DEF InTurn
  <2>9. OnDisk'
    <3>1. /\ sMem'.phase = m.phase /\ sMem'.next = m.next - WEEK /\ m.next \in Int /\ d.next \in Int
          /\ d.phase = "lost" => sDisk'.phase = "lost"
          /\ d.phase # "lost" => sDisk'.phase = d.phase /\ sDisk'.next = d.next - WEEK
      BY <2>4, EarlierIs, NoStateIs DEF SettlementStates
    <3>2. /\ d.phase = "none" => m.phase = "none" /\ m.next <= d.next
          /\ d.phase \in {"immediate", "spread"} => m = d
      BY <1>0, <2>3 DEF OnDisk
    <3>3. d.phase \in {"immediate", "spread"} => sMem' = sDisk'
      BY <2>4, <3>2
    <3> QED BY <1>0, <3>1, <3>2, <3>3 DEF OnDisk
  <2>10. Sound(sMem)'
    BY <2>4, <2>5 DEF Sound, Elapsed
  <2>11. (sDisk.phase # "lost" => Sound(sDisk))'
    <3>1. CASE d.phase = "lost"
      BY <2>4, <3>1, NoStateIs
    <3>2. CASE d.phase # "lost"
      BY <2>4, <2>6, <3>2 DEF Sound, Elapsed
    <3> QED BY <3>1, <3>2
  <2> QED BY <2>7, <2>8, <2>9, <2>10, <2>11 DEF WindowsInv
<1> QED BY <1>2, <1>3

(* A restart finds the file, or begins anew; a shorter period keeps the    *)
(* windows of the longer one.                                              *)
LEMMA RestartKeepsWindows ==
  ASSUME SameAnchor, WindowsInv, NEW c \in Configs, Restart(c)
  PROVE  WindowsInv'
<1> DEFINE w == NextWindow(c, sClock)
<1>1. /\ sClock \in 0..(WEEK - 1) /\ sClock \in Int /\ sConfig \in Configs /\ sOpened \in Int
      /\ sSince \in 0..2 /\ sDisk \in SettlementStates /\ WEEK \in Nat \ {0}
      /\ (sDisk.phase # "lost" => Sound(sDisk))
  BY SettlementAssumption DEF WindowsInv, SettlementTypes
<1>2. /\ sAt' = "top" /\ sConfig' = c /\ UNCHANGED <<sClock, sDisk>>
      /\ c = sConfig => sSince' = sSince
      /\ c # sConfig => sSince' = 0
      /\ c.period <= sConfig.period /\ c.anchor = sConfig.anchor
      /\ sMem' = Loaded(c, sDisk, sClock)
      /\ sOpened' = IF sDisk.phase = "lost" THEN sClock ELSE sOpened
  BY DEF Restart
<1>3. /\ w \in Int /\ sClock < w /\ w <= sClock + c.period /\ IsAnchor(c, w)
      /\ \A v \in (sClock + 1)..(w - 1) : ~IsAnchor(c, v)
  BY <1>1, NextWindowIsFirst
<1> HIDE DEF w
<1>4. ASSUME NEW v \in Int, IsAnchor(sConfig, v) PROVE IsAnchor(c, v)
  <2>1. sConfig.period % c.period = 0
    <3>1. /\ c.period \in {DAY, WEEK} /\ sConfig.period \in {DAY, WEEK} /\ c.period <= sConfig.period
          /\ DAY <= WEEK /\ DAY \in Nat \ {0} /\ WEEK \in Nat \ {0} /\ WEEK % DAY = 0
      BY <1>1, <1>2, ConfigTypes, SettlementAssumption
    <3>2. WEEK % WEEK = 0 /\ DAY % DAY = 0
      BY <3>1
    <3> QED BY <3>1, <3>2
  <2>2. (v - c.anchor) % sConfig.period = 0 /\ v - c.anchor \in Int
    BY <1>2, <1>4, ConfigTypes DEF IsAnchor
  <2>3. c.period \in Nat \ {0} /\ sConfig.period \in Nat \ {0}
    BY <1>1, ConfigTypes
  <2>4. (v - c.anchor) % c.period = 0
    BY <2>1, <2>2, <2>3, MultipleOfMultiple
  <2> QED BY <2>4 DEF IsAnchor
<1>5. sDisk.next \in Int
  BY <1>1 DEF SettlementStates
<1>6. sDisk.phase # "lost" => Sound(sDisk)'
  <2> SUFFICES ASSUME sDisk.phase # "lost" PROVE Sound(sDisk)'
    OBVIOUS
  <2>1. IsAnchor(c, sDisk.next) /\ sDisk.next >= -WEEK /\ sOpened' = sOpened
    BY <1>1, <1>2, <1>4, <1>5 DEF Sound
  <2>2. sDisk.phase # "none" => sDisk.open = sDisk.next /\ sOpened = sDisk.next
    BY <1>1 DEF Sound
  <2>3. sDisk.phase = "none" /\ sSince' > 0 => c = sConfig /\ Elapsed(sOpened, sDisk.next)
    BY <1>1, <1>2 DEF Sound
  <2> QED BY <1>2, <2>1, <2>2, <2>3 DEF Sound, Elapsed
<1>7. sOpened' \in Int /\ sSince' \in 0..2 /\ InTurn'
  BY <1>1, <1>2 DEF InTurn
<1>8. CASE sDisk.phase = "lost"
  <2>1. sMem' = NoCycle(w) /\ sOpened' = sClock
    BY <1>2, <1>8 DEF Loaded, w
  <2>2. sMem' \in SettlementStates /\ sMem'.next = w /\ sMem'.phase = "none"
    BY <1>3, <2>1, NoCycleIs
  <2>3. SettlementTypes'
    BY <1>1, <1>2, <1>7, <2>2 DEF SettlementTypes
  <2>4. OnDisk'
    BY <1>2, <1>8 DEF OnDisk
  <2>5. Sound(sMem)'
    BY <1>1, <1>2, <1>3, <2>1, <2>2 DEF Sound, Elapsed
  <2> QED BY <1>2, <1>6, <1>7, <2>3, <2>4, <2>5 DEF WindowsInv
<1>9. CASE sDisk.phase = "none" /\ sDisk.next - sClock > c.period
  <2>1. sMem' = NoCycle(w) /\ sOpened' = sOpened
    BY <1>2, <1>9 DEF Loaded, w
  <2>2. sMem' \in SettlementStates /\ sMem'.next = w /\ sMem'.phase = "none"
    BY <1>3, <2>1, NoCycleIs
  <2>3. w <= sDisk.next /\ w >= -WEEK
    BY <1>1, <1>3, <1>5, <1>9, ConfigTypes
  <2>4. SettlementTypes'
    BY <1>1, <1>2, <1>7, <2>2 DEF SettlementTypes
  <2>5. OnDisk'
    BY <1>2, <1>9, <2>2, <2>3 DEF OnDisk
  <2>6. sSince' > 0 => \A v \in (sOpened + 1)..(w - 1) : IsAnchor(c, v) => v + c.duration <= sClock
    <3> SUFFICES ASSUME sSince' > 0, NEW v \in (sOpened + 1)..(w - 1), IsAnchor(c, v)
                 PROVE  v + c.duration <= sClock
      OBVIOUS
    <3>1. c = sConfig /\ Elapsed(sOpened, sDisk.next)
      BY <1>1, <1>2, <1>9 DEF Sound
    <3>2. v \in (sOpened + 1)..(sDisk.next - 1)
      BY <1>1, <1>3, <1>5, <2>3
    <3> QED BY <3>1, <3>2 DEF Elapsed
  <2>7. Sound(sMem)'
    BY <1>2, <1>3, <2>1, <2>2, <2>3, <2>6 DEF Sound, Elapsed
  <2> QED BY <1>2, <1>6, <1>7, <2>4, <2>5, <2>7 DEF WindowsInv
<1>10. CASE sDisk.phase # "lost" /\ ~(sDisk.phase = "none" /\ sDisk.next - sClock > c.period)
  <2>1. sMem' = sDisk /\ sOpened' = sOpened
    BY <1>2, <1>10 DEF Loaded
  <2>2. SettlementTypes'
    BY <1>1, <1>2, <1>7, <1>10, <2>1 DEF SettlementTypes
  <2>3. OnDisk'
    BY <1>2, <1>5, <2>1 DEF OnDisk
  <2>4. Sound(sMem)'
    BY <1>2, <1>6, <1>10, <2>1 DEF Sound, Elapsed
  <2> QED BY <1>2, <1>6, <1>7, <2>2, <2>3, <2>4 DEF WindowsInv
<1> QED BY <1>8, <1>9, <1>10

LEMMA WindowsInvNext ==
  ASSUME SameAnchor PROVE WindowsInv /\ [SettlementNext]_sVars => WindowsInv'
<1> SUFFICES ASSUME WindowsInv, [SettlementNext]_sVars PROVE WindowsInv'
  OBVIOUS
<1>1. CASE Exit
  <2>1. InTurn'
    BY <1>1 DEF Exit, InTurn
  <2> QED BY <1>1, <2>1, UnchangedWindows DEF Exit
<1>2. CASE LoseFile
  <2>1. sDisk' = NoState /\ UNCHANGED <<sClock, sConfig, sMem, sAt, sOpened, sSince>>
    BY <1>2 DEF LoseFile
  <2>2. SettlementTypes' /\ InTurn' /\ OnDisk' /\ sDisk'.phase = "lost"
    BY <2>1, NoStateIs DEF WindowsInv, SettlementTypes, InTurn, OnDisk
  <2>3. Sound(sMem)'
    BY <2>1 DEF WindowsInv, Sound, Elapsed
  <2> QED BY <2>2, <2>3 DEF WindowsInv
<1>3. CASE UNCHANGED sVars
  <2>1. InTurn'
    BY <1>3 DEF sVars, WindowsInv, InTurn
  <2> QED BY <1>3, <2>1, UnchangedWindows DEF sVars
<1>4. CASE SettlementLoop
  BY <1>4, LoopKeepsWindows
<1>5. CASE Elapse
  BY <1>5, ElapseKeepsWindows
<1>6. CASE \E c \in Configs : Restart(c)
  BY <1>6, RestartKeepsWindows
<1> QED BY <1>1, <1>2, <1>3, <1>4, <1>5, <1>6 DEF SettlementNext

(* No settlement window that could still be used is passed over, whatever  *)
(* the periods and durations, however late a cycle closes, the keeper      *)
(* crashes or the file is lost, as long as the settings only shorten the   *)
(* period or change the duration: a window that is moved is found only by  *)
(* a new file (settlement.ts:130, 218).                                    *)
THEOREM WindowsAreNotSkipped ==
  ASSUME SameAnchor PROVE SettlementSpec => []NoActiveWindowSkipped
<1>1. WindowsInv => NoActiveWindowSkipped
  <2> SUFFICES ASSUME WindowsInv, sSince = 2, NEW v \in (sOpened + 1)..sClock,
                      IsAnchor(sConfig, v), v < sMem.next
               PROVE  v + sConfig.duration <= sClock
    BY DEF NoActiveWindowSkipped
  <2>1. /\ sOpened \in Int /\ sClock \in Int /\ sMem.next \in Int /\ v \in Int /\ Sound(sMem)
    BY SettlementAssumption DEF WindowsInv, SettlementTypes, SettlementStates
  <2>2. sMem.phase = "none"
    BY <2>1 DEF Sound
  <2>3. v \in (sOpened + 1)..(sMem.next - 1)
    BY <2>1
  <2> QED BY <2>1, <2>2, <2>3 DEF Sound, Elapsed
<1>2. WindowsInv /\ [SettlementNext]_sVars => WindowsInv'
  BY WindowsInvNext
<1> QED BY <1>1, <1>2, WindowsInvInit, PTL DEF SettlementSpec

-----------------------------------------------------------------------------
(* The compounding rounds.                                                 *)

(* The positions of a filtered sequence: where the elements are, and which *)
(* of them is the k-th.                                                    *)
Places(s, S) == {i \in DOMAIN s : s[i] \in S}
Upto(P, i)   == {j \in P : j <= i}
Rank(P, i)   == Cardinality(Upto(P, i))
Place(P, k)  == CHOOSE i \in P : Rank(P, i) = k

LEMMA ThoseArePlaced ==
  ASSUME NEW s, NEW S
  PROVE  Those(s, S) = [k \in 1..Cardinality(Places(s, S)) |-> s[Place(Places(s, S), k)]]
BY DEF Those, Places, Upto, Rank, Place

LEMMA RanksGrow ==
  ASSUME NEW P, IsFiniteSet(P), P \subseteq Int
  PROVE  /\ \A i \in P : Rank(P, i) \in 1..Cardinality(P)
         /\ \A i, j \in P : i < j => Rank(P, i) < Rank(P, j)
<1>1. ASSUME NEW i \in P
      PROVE  Rank(P, i) \in 1..Cardinality(P) /\ IsFiniteSet(Upto(P, i))
  <2>1. /\ Upto(P, i) \in SUBSET P /\ i \in Upto(P, i)
    BY DEF Upto
  <2>2. /\ IsFiniteSet(Upto(P, i)) /\ Cardinality(Upto(P, i)) <= Cardinality(P)
    BY <2>1, FS_Subset
  <2>3. Cardinality(Upto(P, i)) \in Nat /\ Cardinality(P) \in Nat
    BY <2>2, FS_CardinalityType
  <2>4. Cardinality(Upto(P, i)) # 0
    BY <2>1, <2>2, FS_EmptySet
  <2>5. \A m, n \in Nat : m # 0 /\ m <= n => m \in 1..n
    OBVIOUS
  <2> QED
    BY <2>2, <2>3, <2>4, <2>5 DEF Rank
<1>2. ASSUME NEW i \in P, NEW j \in P, i < j
      PROVE  Rank(P, i) < Rank(P, j)
  <2>1. /\ Upto(P, i) \in SUBSET Upto(P, j) /\ Upto(P, i) # Upto(P, j)
    <3>1. i \in Int /\ j \in Int
      OBVIOUS
    <3>2. j \in Upto(P, j) /\ j \notin Upto(P, i)
      BY <1>2, <3>1 DEF Upto
    <3>3. ASSUME NEW k \in Upto(P, i) PROVE k \in Upto(P, j)
      <4>1. k \in P /\ k \in Int /\ k <= i
        BY DEF Upto
      <4>2. k <= j
        BY <1>2, <3>1, <4>1
      <4> QED
        BY <4>1, <4>2 DEF Upto
    <3> QED
      BY <3>2, <3>3
  <2>2. /\ Cardinality(Upto(P, i)) <= Cardinality(Upto(P, j))
        /\ Cardinality(Upto(P, i)) # Cardinality(Upto(P, j))
    BY <1>1, <2>1, FS_Subset
  <2>3. Rank(P, i) \in Nat /\ Rank(P, j) \in Nat
    BY <1>1
  <2> QED
    BY <2>2, <2>3 DEF Rank
<1> QED
  BY <1>1, <1>2

LEMMA RanksAreOnce ==
  ASSUME NEW P, IsFiniteSet(P), P \subseteq Int,
         NEW i \in P, NEW j \in P, Rank(P, i) = Rank(P, j)
  PROVE  i = j
<1>g. /\ \A p \in P : Rank(P, p) \in 1..Cardinality(P)
      /\ \A p, q \in P : p < q => Rank(P, p) < Rank(P, q)
  BY RanksGrow, Zenon
<1>1. i \in Int /\ j \in Int /\ Rank(P, i) \in Int
  BY <1>g
<1>2. ~ i < j
  BY <1>1, <1>g
<1>3. ~ j < i
  BY <1>1, <1>g
<1> QED
  BY <1>1, <1>2, <1>3

(* As many ranks as there are places, all different: every rank is taken.  *)
LEMMA RanksAreTaken ==
  ASSUME NEW P, IsFiniteSet(P), P \subseteq Int, NEW k \in 1..Cardinality(P)
  PROVE  Place(P, k) \in P /\ Rank(P, Place(P, k)) = k
<1> DEFINE n == Cardinality(P)
           f == [i \in P |-> Rank(P, i)]
<1>1. n \in Nat
  BY FS_CardinalityType
<1>2. f \in [P -> 1..n]
  BY RanksGrow
<1>3. f \in Injection(P, 1..n)
  <2> SUFFICES ASSUME NEW i \in P, NEW j \in P, f[i] = f[j] PROVE i = j
    BY <1>2 DEF Injection, IsInjective
  <2> QED
    BY RanksAreOnce
<1>4. IsFiniteSet(1..n) /\ Cardinality(1..n) = n
  BY <1>1, FS_Interval
<1>5. f \in Surjection(P, 1..n)
  BY <1>3, <1>4, FS_Injection
<1>6. \E i \in P : f[i] = k
  BY <1>5 DEF Surjection
<1>7. \E i \in P : Rank(P, i) = k
  BY <1>6
<1> QED
  BY <1>7 DEF Place

LEMMA PlaceOfRank ==
  ASSUME NEW P, IsFiniteSet(P), P \subseteq Int, NEW i \in P
  PROVE  Rank(P, i) \in 1..Cardinality(P) /\ Place(P, Rank(P, i)) = i
<1>1. Rank(P, i) \in 1..Cardinality(P)
  BY RanksGrow
<1>2. Place(P, Rank(P, i)) \in P /\ Rank(P, Place(P, Rank(P, i))) = Rank(P, i)
  BY <1>1, RanksAreTaken
<1> QED
  BY <1>1, <1>2, RanksAreOnce

LEMMA PlacesAreFinite ==
  ASSUME NEW U, NEW s \in Seq(U), NEW S
  PROVE  /\ IsFiniteSet(Places(s, S)) /\ Places(s, S) \subseteq 1..Len(s)
         /\ Places(s, S) \subseteq Int
         /\ Cardinality(Places(s, S)) \in Nat /\ Cardinality(Places(s, S)) <= Len(s)
<1>1. Places(s, S) \in SUBSET (1..Len(s)) /\ Len(s) \in Nat
  BY DEF Places
<1>2. IsFiniteSet(1..Len(s)) /\ Cardinality(1..Len(s)) = Len(s)
  <2>1. \A n \in Nat : IsFiniteSet(1..n) /\ Cardinality(1..n) = n
    BY FS_Interval
  <2> QED
    BY <1>1, <2>1
<1>3. IsFiniteSet(Places(s, S)) /\ Cardinality(Places(s, S)) <= Len(s)
  BY <1>1, <1>2, FS_Subset
<1> QED
  BY <1>1, <1>3, FS_CardinalityType

(* What a filtered sequence is.                                            *)
LEMMA ThoseAreASequence ==
  ASSUME NEW U, NEW s \in Seq(U), NEW S
  PROVE  Those(s, S) \in Seq(U \cap S) /\ Len(Those(s, S)) <= Len(s)
<1> DEFINE P == Places(s, S)
           n == Cardinality(P)
<1>1. /\ IsFiniteSet(P) /\ P \subseteq Int /\ P \subseteq 1..Len(s) /\ n \in Nat /\ n <= Len(s)
  BY PlacesAreFinite
<1>2. \A i \in P : s[i] \in U \cap S
  BY <1>1 DEF Places
<1>3. \A k \in 1..n : s[Place(P, k)] \in U \cap S
  BY <1>1, <1>2, RanksAreTaken
<1>4. Those(s, S) = [k \in 1..n |-> s[Place(P, k)]]
  BY ThoseArePlaced
<1> HIDE DEF P, n
<1> QED
  BY <1>1, <1>3, <1>4

LEMMA ThoseAreThose ==
  ASSUME NEW U, NEW s \in Seq(U), NEW S
  PROVE  ToSet(Those(s, S)) = ToSet(s) \cap S
<1> DEFINE P == Places(s, S)
           n == Cardinality(P)
<1>1. /\ IsFiniteSet(P) /\ P \subseteq Int /\ P \subseteq DOMAIN s
  BY PlacesAreFinite DEF Places
<1>2. Those(s, S) = [k \in 1..n |-> s[Place(P, k)]]
  BY ThoseArePlaced
<1>3. ASSUME NEW k \in 1..n PROVE s[Place(P, k)] \in ToSet(s) \cap S
  BY <1>1, RanksAreTaken DEF Places, ToSet
<1>4. ASSUME NEW i \in P PROVE \E k \in 1..n : s[Place(P, k)] = s[i]
  <2>1. Rank(P, i) \in 1..n /\ Place(P, Rank(P, i)) = i
    BY <1>1, PlaceOfRank
  <2> QED
    BY <2>1
<1>5. \A x \in ToSet(s) \cap S : \E i \in P : x = s[i]
  BY DEF Places, ToSet
<1>6. ToSet(Those(s, S)) = {s[Place(P, k)] : k \in 1..n}
  BY <1>2 DEF ToSet
<1> HIDE DEF P, n
<1> QED
  BY <1>3, <1>4, <1>5, <1>6

LEMMA ThoseAreOnce ==
  ASSUME NEW U, NEW s \in Seq(U), NEW S, IsInjective(s)
  PROVE  IsInjective(Those(s, S))
<1> DEFINE P == Places(s, S)
           n == Cardinality(P)
<1>1. /\ IsFiniteSet(P) /\ P \subseteq Int /\ P \subseteq DOMAIN s
  BY PlacesAreFinite DEF Places
<1>2. Those(s, S) = [k \in 1..n |-> s[Place(P, k)]]
  BY ThoseArePlaced
<1>3. ASSUME NEW k \in 1..n, NEW m \in 1..n, s[Place(P, k)] = s[Place(P, m)]
      PROVE  k = m
  <2>1. /\ Place(P, k) \in P /\ Rank(P, Place(P, k)) = k
        /\ Place(P, m) \in P /\ Rank(P, Place(P, m)) = m
    BY <1>1, RanksAreTaken
  <2>2. Place(P, k) = Place(P, m)
    BY <1>1, <1>3, <2>1 DEF IsInjective
  <2> QED
    BY <2>1, <2>2
<1> HIDE DEF P, n
<1> QED
  BY <1>2, <1>3 DEF IsInjective

LEMMA SeqOfMore ==
  ASSUME NEW U, NEW V, U \subseteq V, NEW s \in Seq(U)
  PROVE  s \in Seq(V)
OBVIOUS

LEMMA FirstOfIsPart ==
  ASSUME NEW U, NEW s \in Seq(U), NEW n \in Nat
  PROVE  FirstOf(s, n) \in Seq(U) /\ ToSet(FirstOf(s, n)) \subseteq ToSet(s)
<1> DEFINE m == IF Len(s) < n THEN Len(s) ELSE n
<1>1. m \in Nat /\ m <= Len(s)
  OBVIOUS
<1>2. FirstOf(s, n) = SubSeq(s, 1, m)
  BY DEF FirstOf
<1> HIDE DEF m
<1>3. FirstOf(s, n) = [i \in 1..m |-> s[i]]
  BY <1>1, <1>2
<1>4. \A i \in 1..m : i \in DOMAIN s /\ s[i] \in U
  BY <1>1
<1> QED
  BY <1>1, <1>3, <1>4 DEF ToSet

LEMMA ToSetOfUsers ==
  ASSUME NEW U, NEW s \in Seq(U)
  PROVE  ToSet(s) \subseteq U
BY DEF ToSet

LEMMA Joined ==
  ASSUME NEW U, NEW s \in Seq(U), NEW t \in Seq(U)
  PROVE  /\ s \o t \in Seq(U) /\ ToSet(s \o t) = ToSet(s) \cup ToSet(t)
         /\ (IsInjective(s) /\ IsInjective(t) /\ ToSet(s) \cap ToSet(t) = {} => IsInjective(s \o t))
<1> DEFINE w == s \o t
<1>1. /\ w \in Seq(U) /\ Len(w) = Len(s) + Len(t) /\ Len(s) \in Nat /\ Len(t) \in Nat
      /\ DOMAIN w = 1..Len(w) /\ DOMAIN s = 1..Len(s) /\ DOMAIN t = 1..Len(t)
  OBVIOUS
<1>2. /\ \A i \in 1..Len(s) : i \in 1..Len(w) /\ w[i] = s[i]
      /\ \A i \in 1..Len(t) : Len(s) + i \in 1..Len(w) /\ w[Len(s) + i] = t[i]
  OBVIOUS
<1>3. ASSUME NEW i \in 1..Len(w)
      PROVE  \/ i \in 1..Len(s) /\ w[i] = s[i]
             \/ i - Len(s) \in 1..Len(t) /\ w[i] = t[i - Len(s)]
  OBVIOUS
<1> HIDE DEF w
<1>4. ToSet(w) = ToSet(s) \cup ToSet(t)
  <2>1. \A x \in ToSet(w) : x \in ToSet(s) \cup ToSet(t)
    BY <1>1, <1>3 DEF ToSet
  <2>2. \A x \in ToSet(s) : x \in ToSet(w)
    BY <1>1, <1>2 DEF ToSet
  <2>3. \A x \in ToSet(t) : x \in ToSet(w)
    BY <1>1, <1>2 DEF ToSet
  <2> QED
    BY <2>1, <2>2, <2>3
<1>5. ASSUME IsInjective(s), IsInjective(t), ToSet(s) \cap ToSet(t) = {}
      PROVE  IsInjective(w)
  <2> SUFFICES ASSUME NEW i \in 1..Len(w), NEW j \in 1..Len(w), w[i] = w[j]
               PROVE  i = j
    BY <1>1 DEF IsInjective
  <2>1. CASE i \in 1..Len(s) /\ w[i] = s[i]
    <3>1. w[i] \in ToSet(s)
      BY <1>1, <2>1 DEF ToSet
    <3>2. j \in 1..Len(s) /\ w[j] = s[j]
      BY <1>1, <1>3, <1>5, <3>1 DEF ToSet
    <3> QED
      BY <1>1, <1>5, <2>1, <3>2 DEF IsInjective
  <2>2. CASE i - Len(s) \in 1..Len(t) /\ w[i] = t[i - Len(s)]
    <3>1. w[i] \in ToSet(t)
      BY <1>1, <2>2 DEF ToSet
    <3>2. j - Len(s) \in 1..Len(t) /\ w[j] = t[j - Len(s)]
      BY <1>1, <1>3, <1>5, <3>1 DEF ToSet
    <3>3. i - Len(s) = j - Len(s)
      BY <1>1, <1>5, <2>2, <3>2 DEF IsInjective
    <3> QED
      BY <1>1, <3>3
  <2> QED
    BY <1>3, <2>1, <2>2
<1> QED
  BY <1>1, <1>4, <1>5 DEF w

(* The users of a set, in order.                                           *)
LEMMA InOrder ==
  ASSUME NEW S
  PROVE  /\ Those([u \in Users |-> u], S) \in Seq(Users)
         /\ ToSet(Those([u \in Users |-> u], S)) = Users \cap S
         /\ IsInjective(Those([u \in Users |-> u], S))
<1> DEFINE id == [u \in Users |-> u]
<1>1. id \in Seq(Users) /\ ToSet(id) = Users /\ IsInjective(id)
  BY KeeperRewardsAssumption DEF Users, ToSet, IsInjective
<1> HIDE DEF id
<1>2. Those(id, S) \in Seq(Users \cap S)
  BY <1>1, ThoseAreASequence
<1>3. Those(id, S) \in Seq(Users)
  BY <1>2, SeqOfMore
<1> QED
  BY <1>1, <1>3, ThoseAreThose, ThoseAreOnce DEF id

(* Users that are queued again are in the queue, each of them once, and    *)
(* those who wait keep their places.                                       *)
LEMMA ReDeferQueues ==
  ASSUME NEW q \in Seq(Users), IsInjective(q), NEW S \in SUBSET Users
  PROVE  /\ ReDefer(q, S) \in Seq(Users) /\ IsInjective(ReDefer(q, S))
         /\ ToSet(ReDefer(q, S)) = ToSet(q) \cup S
<1> DEFINE t == Those([u \in Users |-> u], S \ ToSet(q))
<1>1. t \in Seq(Users) /\ ToSet(t) = Users \cap (S \ ToSet(q)) /\ IsInjective(t)
  BY InOrder
<1>2. ReDefer(q, S) = q \o t
  BY DEF ReDefer
<1> HIDE DEF t
<1>3. ToSet(q) \cap ToSet(t) = {}
  BY <1>1
<1>4. /\ q \o t \in Seq(Users) /\ ToSet(q \o t) = ToSet(q) \cup ToSet(t)
      /\ IsInjective(q \o t)
  BY <1>1, <1>3, Joined
<1> QED
  BY <1>1, <1>2, <1>4

LEMMA QueueKeepsPlaces ==
  ASSUME NEW q \in Seq(Users), NEW S
  PROVE  SubSeq(ReDefer(q, S), 1, Len(q)) = q
<1> DEFINE t == Those([u \in Users |-> u], S \ ToSet(q))
<1>1. t \in Seq(Users)
  BY InOrder
<1>2. ReDefer(q, S) = q \o t
  BY DEF ReDefer
<1> HIDE DEF t
<1> QED
  BY <1>1, <1>2

(* What the selection reads: the turns of the round, and whose they are.   *)
LEMMA LookingIsNat ==
  ASSUME list \in Seq(Users)
  PROVE  Looking \in Nat
BY KeeperRewardsAssumption DEF Looking

LEMMA TurnsAreUsers ==
  ASSUME list \in Seq(Users), list # <<>>, cursor \in Nat, NEW n \in Nat
  PROVE  Turn(n) \in Seq(Users)
<1>1. Len(list) \in Nat \ {0}
  OBVIOUS
<1>2. \A k \in 1..n : ((cursor + k - 1) % Len(list)) + 1 \in 1..Len(list)
  BY <1>1
<1>3. \A k \in 1..n : list[((cursor + k - 1) % Len(list)) + 1] \in Users
  BY <1>2
<1> QED
  BY <1>3 DEF Turn

LEMMA TurnsIsNat ==
  ASSUME list \in Seq(Users), NEW drained, NEW cool
  PROVE  Turns(drained, cool) \in Nat
<1> DEFINE going == {n \in 1..Looking : Len(drained) + Len(Fresh(n - 1, drained, cool)) < Looking}
<1>1. IsFiniteSet(1..Looking)
  BY LookingIsNat, FS_Interval
<1>2. going \in SUBSET (1..Looking)
  OBVIOUS
<1>3. IsFiniteSet(going)
  BY <1>1, <1>2, FS_Subset
<1>4. Turns(drained, cool) = Cardinality(going)
  BY DEF Turns
<1> HIDE DEF going
<1> QED
  BY <1>3, <1>4, FS_CardinalityType

LEMMA DrainedAreUsers ==
  ASSUME list \in Seq(Users), deferred \in Seq(Users), NEW cool
  PROVE  Drained(cool) \in Seq(Users)
<1> DEFINE free == {u \in ToSet(list) : cool[u] = 0}
<1>1. Those(deferred, free) \in Seq(Users \cap free)
  BY ThoseAreASequence
<1>2. Those(deferred, free) \in Seq(Users)
  BY <1>1, SeqOfMore
<1>3. Drained(cool) = FirstOf(Those(deferred, free), Looking)
  BY DEF Drained
<1> HIDE DEF free
<1> QED
  BY <1>2, <1>3, LookingIsNat, FirstOfIsPart

LEMMA FreshAreUsers ==
  ASSUME list \in Seq(Users), list # <<>>, cursor \in Nat, NEW n \in Nat, NEW drained, NEW cool
  PROVE  Fresh(n, drained, cool) \in Seq(Users)
<1> DEFINE free == {u \in ToSet(list) \ ToSet(drained) : cool[u] = 0}
<1>1. Those(Turn(n), free) \in Seq(Users \cap free)
  BY TurnsAreUsers, ThoseAreASequence
<1>2. Those(Turn(n), free) \in Seq(Users)
  BY <1>1, SeqOfMore
<1> QED
  BY <1>2 DEF Fresh

LEMMA ChosenAreUsers ==
  ASSUME NEW cands \in Seq(Users), NEW due
  PROVE  Chosen(cands, due) \subseteq Users
<1> DEFINE can == {u \in Users : Compoundable(u, due)}
           t   == Those(cands, can)
<1>1. t \in Seq(Users \cap can)
  BY ThoseAreASequence
<1>2. t \in Seq(Users)
  BY <1>1, SeqOfMore
<1>3. FirstOf(t, MAXUSERS) \in Seq(Users)
  <2> HIDE DEF t
  <2> QED BY <1>2, FirstOfIsPart, KeeperRewardsAssumption
<1>4. Chosen(cands, due) = ToSet(FirstOf(t, MAXUSERS))
  BY DEF Chosen
<1> HIDE DEF t
<1> QED
  BY <1>3, <1>4, ToSetOfUsers

LEMMA RemovalKeepsTheRound ==
  ASSUME list \in Seq(Users), IsInjective(list), NEW S, NEW turn \in Nat
  PROVE  LET after == RemoveUsers(S, turn) IN
         /\ after.list \in Seq(Users) /\ IsInjective(after.list)
         /\ after.cursor \in Nat /\ (after.list # <<>> => after.cursor < Len(after.list))
<1> DEFINE less   == Those(list, Users \ S)
           before == Cardinality({i \in 1..turn : list[i] \notin S})
<1>1. less \in Seq(Users \cap (Users \ S))
  BY ThoseAreASequence
<1>2. less \in Seq(Users) /\ IsInjective(less)
  BY <1>1, SeqOfMore, ThoseAreOnce
<1>3. before \in Nat
  <2>1. IsFiniteSet(1..turn)
    BY FS_Interval
  <2>2. {i \in 1..turn : list[i] \notin S} \in SUBSET (1..turn)
    OBVIOUS
  <2>3. IsFiniteSet({i \in 1..turn : list[i] \notin S})
    BY <2>1, <2>2, FS_Subset
  <2> QED
    BY <2>3, FS_CardinalityType
<1>4. RemoveUsers(S, turn) = [list |-> less, cursor |-> IF before < Len(less) THEN before ELSE 0]
  BY DEF RemoveUsers
<1> HIDE DEF less, before
<1>5. less # <<>> => 0 < Len(less)
  BY <1>2
<1> QED
  BY <1>2, <1>3, <1>4, <1>5

LEMMA RewardTypeOKInit == RewardInit => RewardTypeOK
<1> SUFFICES ASSUME RewardInit PROVE RewardTypeOK
  OBVIOUS
<1> USE KeeperRewardsAssumption
<1>1. /\ list \in Seq(Users) /\ IsInjective(list) /\ Len(list) = USERS
  BY DEF RewardInit, Users, IsInjective
<1>2. /\ deferred \in Seq(Users) /\ IsInjective(deferred)
  BY DEF RewardInit, IsInjective
<1>3. /\ wait \in [Users -> 0..CADENCE] /\ retry \in [Users -> 0..RETRY]
      /\ rewardFaults \in 0..MaxRewardFaults
  BY DEF RewardInit
<1>4. cursor \in Nat /\ (list # <<>> => cursor < Len(list))
  BY <1>1 DEF RewardInit
<1> QED
  BY <1>1, <1>2, <1>3, <1>4 DEF RewardInit, RewardTypeOK, NoBatch

(* What the selection does with what it has read.                          *)
Selects(cool, due, drained, turns, cands) ==
  LET chosen == Chosen(cands, due)
      bad    == BadLocks(cands, due)
      after  == RemoveUsers(off \cap ToSet(cands), (cursor + turns) % Len(list))
  IN /\ wait' = due /\ list' = after.list /\ cursor' = after.cursor
     /\ retry' = Failures(cool, bad, off \cap ToSet(cands))
     /\ deferred' = KeptDeferred(drained)
     /\ batch' = IF chosen = {} THEN NoBatch
                 ELSE [NoBatch EXCEPT !.at = "shrink", !.users = chosen,
                       !.drained = ToSet(drained) \cap chosen]

LEMMA SelectKeepsTypes ==
  ASSUME RewardTypeOK, Select
  PROVE  RewardTypeOK'
<1> USE KeeperRewardsAssumption
<1>t. /\ pool \in {"shareholders", "lp"} /\ off \subseteq Users /\ stuck \subseteq Users
      /\ wait \in [Users -> 0..CADENCE] /\ retry \in [Users -> 0..RETRY]
      /\ list \in Seq(Users) /\ IsInjective(list) /\ list # <<>> /\ cursor \in Nat
      /\ deferred \in Seq(Users) /\ IsInjective(deferred)
      /\ rewardFaults \in 0..MaxRewardFaults
      /\ UNCHANGED <<pool, off, stuck, rewardFaults>>
  BY DEF RewardTypeOK, Select, Untouched
<1> DEFINE cool == Lower(retry)
           due  == Lower(wait)
           drained == Drained(cool)
           turns == Turns(drained, cool)
           cands == drained \o Fresh(turns, drained, cool)
           chosen == Chosen(cands, due)
           bad == BadLocks(cands, due)
           after == RemoveUsers(off \cap ToSet(cands), (cursor + turns) % Len(list))
<1>p. Selects(cool, due, drained, turns, cands)
  <2>1. \E c \in {Lower(retry)}, d \in {Lower(wait)} : \E r \in {Drained(c)} :
        \E t \in {Turns(r, c)} : \E s \in {r \o Fresh(t, r, c)} : Selects(c, d, r, t, s)
    BY Zenon DEF Select, Selects
  <2> QED
    BY <2>1, Zenon
<1>s. /\ wait' = due /\ list' = after.list /\ cursor' = after.cursor
      /\ retry' = [u \in Users |-> IF u \in bad THEN RETRY
                                  ELSE IF u \in off \cap ToSet(cands) THEN 0 ELSE cool[u]]
      /\ deferred' = KeptDeferred(drained)
      /\ batch' = IF chosen = {} THEN NoBatch
                  ELSE [NoBatch EXCEPT !.at = "shrink", !.users = chosen,
                        !.drained = ToSet(drained) \cap chosen]
  BY <1>p, Zenon DEF Selects, Failures
<1>1. due \in [Users -> 0..CADENCE] /\ cool \in [Users -> 0..RETRY]
  <2>1. \A f, n : n \in Nat /\ f \in [Users -> 0..n] => Lower(f) \in [Users -> 0..n]
    BY DEF Lower
  <2> QED
    BY <1>t, <2>1
<1> HIDE DEF cool, due
<1>2. drained \in Seq(Users)
  BY <1>t, DrainedAreUsers
<1> HIDE DEF drained
<1>3. turns \in Nat
  BY <1>t, TurnsIsNat
<1> HIDE DEF turns
<1>4. Fresh(turns, drained, cool) \in Seq(Users)
  BY <1>t, <1>3, FreshAreUsers
<1>5. cands \in Seq(Users)
  BY <1>2, <1>4, Joined
<1> HIDE DEF cands
<1>6. chosen \in SUBSET Users
  BY <1>5, ChosenAreUsers
<1> HIDE DEF chosen, bad
<1>7. (cursor + turns) % Len(list) \in Nat
  <2>1. Len(list) \in Nat \ {0}
    BY <1>t
  <2> QED
    BY <1>t, <1>3, <2>1
<1>8. /\ after.list \in Seq(Users) /\ IsInjective(after.list)
      /\ after.cursor \in Nat /\ (after.list # <<>> => after.cursor < Len(after.list))
  BY <1>t, <1>7, RemovalKeepsTheRound
<1> HIDE DEF after
<1>9. deferred' \in Seq(Users) /\ IsInjective(deferred')
  <2>1. Those(deferred, ToSet(list) \ ToSet(drained)) \in Seq(Users \cap (ToSet(list) \ ToSet(drained)))
    BY <1>t, ThoseAreASequence
  <2>2. Those(deferred, ToSet(list) \ ToSet(drained)) \in Seq(Users)
    BY <2>1, SeqOfMore
  <2>3. IsInjective(Those(deferred, ToSet(list) \ ToSet(drained)))
    BY <1>t, ThoseAreOnce
  <2> QED
    BY <1>s, <2>2, <2>3 DEF KeptDeferred
<1>10. /\ batch' \in [at : {"idle", "shrink", "send", "single"}, users : SUBSET Users,
                      drained : SUBSET Users, left : SUBSET Users]
       /\ batch'.left = {}
  <2>1. CASE chosen = {}
    BY <1>s, <2>1 DEF NoBatch
  <2>2. CASE chosen # {}
    <3>1. batch' = [at |-> "shrink", users |-> chosen,
                    drained |-> ToSet(drained) \cap chosen, left |-> {}]
      BY <1>s, <2>2 DEF NoBatch
    <3> QED
      BY <1>6, <3>1
  <2> QED
    BY <2>1, <2>2
<1>11. retry' \in [Users -> 0..RETRY]
  BY <1>1, <1>s
<1>12. wait' \in [Users -> 0..CADENCE]
  BY <1>1, <1>s
<1>13. /\ list' \in Seq(Users) /\ IsInjective(list')
       /\ cursor' \in Nat /\ (list' # <<>> => cursor' < Len(list'))
  BY <1>8, <1>s
<1> QED
  BY <1>t, <1>9, <1>10, <1>11, <1>12, <1>13 DEF RewardTypeOK

(* The steps of a batch that is selected leave the round alone.            *)
LEMMA BatchKeepsTypes ==
  ASSUME RewardTypeOK, Shrink \/ SendBatch \/ SkipBatch \/ CompoundOne \/ LatchStop \/ BatchDies
  PROVE  RewardTypeOK'
<1> USE KeeperRewardsAssumption
<1> DEFINE B == [at : {"idle", "shrink", "send", "single"}, users : SUBSET Users,
                 drained : SUBSET Users, left : SUBSET Users]
           Round == /\ pool \in {"shareholders", "lp"} /\ off \subseteq Users /\ stuck \subseteq Users
                    /\ list \in Seq(Users) /\ IsInjective(list)
                    /\ cursor \in Nat /\ (list # <<>> => cursor < Len(list))
           Whole == /\ batch \in B /\ batch.left \subseteq batch.users
                    /\ (batch.at # "single" => batch.left = {})
<1>t. /\ Round /\ Whole
      /\ wait \in [Users -> 0..CADENCE] /\ retry \in [Users -> 0..RETRY]
      /\ deferred \in Seq(Users) /\ IsInjective(deferred) /\ rewardFaults \in 0..MaxRewardFaults
  BY DEF RewardTypeOK
<1>u. UNCHANGED <<pool, off, stuck, list, cursor>>
  BY DEF Shrink, SendBatch, SkipBatch, CompoundOne, LatchStop, BatchDies, Untouched
<1>r. Round'
  BY <1>t, <1>u
<1>b. /\ batch.users \in SUBSET Users /\ batch.drained \in SUBSET Users
      /\ batch.left \in SUBSET Users /\ batch.left \subseteq batch.users
      /\ (batch.at # "single" => batch.left = {})
      /\ batch = [at |-> batch.at, users |-> batch.users, drained |-> batch.drained,
                  left |-> batch.left]
  BY <1>t
<1>n. batch' = NoBatch => Whole'
  BY DEF NoBatch
<1>f. rewardFaults' = rewardFaults \/ RewardFault => rewardFaults' \in 0..MaxRewardFaults
  BY <1>t DEF RewardFault
<1>q. \A S \in SUBSET Users :
        ReDefer(deferred, S) \in Seq(Users) /\ IsInjective(ReDefer(deferred, S))
  BY <1>t, ReDeferQueues
<1>e. \A S : Executed(S) => wait' \in [Users -> 0..CADENCE]
  BY <1>t DEF Executed
<1> SUFFICES /\ wait' \in [Users -> 0..CADENCE] /\ retry' \in [Users -> 0..RETRY]
             /\ deferred' \in Seq(Users) /\ IsInjective(deferred')
             /\ Whole' /\ rewardFaults' \in 0..MaxRewardFaults
  BY <1>r DEF RewardTypeOK
<1>1. CASE Shrink
  <2>1. PICK fits \in SUBSET batch.users :
          /\ rewardFaults' = rewardFaults \/ RewardFault
          /\ deferred' = ReDefer(deferred, batch.drained \ fits)
          /\ batch' = IF fits = {} THEN NoBatch ELSE [batch EXCEPT !.at = "send", !.users = fits]
    BY <1>1 DEF Shrink, ShrunkOut
  <2>2. batch.at = "shrink" /\ UNCHANGED <<wait, retry>>
    BY <1>1 DEF Shrink
  <2>3. Whole'
    <3>1. CASE fits = {}
      BY <1>n, <2>1, <3>1
    <3>2. CASE fits # {}
      <4>1. batch' = [at |-> "send", users |-> fits, drained |-> batch.drained, left |-> {}]
        BY <1>b, <2>1, <2>2, <3>2
      <4>2. fits \in SUBSET Users
        BY <1>b
      <4>3. batch' \in B /\ batch'.left = {}
        BY <1>b, <4>1, <4>2
      <4> QED
        BY <4>3
    <3> QED
      BY <3>1, <3>2
  <2>4. deferred' \in Seq(Users) /\ IsInjective(deferred')
    BY <1>b, <1>q, <2>1
  <2> QED
    BY <1>t, <1>f, <2>1, <2>2, <2>3, <2>4
<1>2. CASE SendBatch
  <2>1. PICK done \in SUBSET batch.users :
          /\ rewardFaults' = rewardFaults \/ RewardFault
          /\ Executed(done)
          /\ batch' = IF done = batch.users \/ pool = "lp" THEN NoBatch
                      ELSE [batch EXCEPT !.at = "single", !.left = batch.users \ done]
    BY <1>2 DEF SendBatch
  <2>2. UNCHANGED <<deferred, retry>>
    BY <1>2 DEF SendBatch
  <2>3. Whole'
    <3>1. CASE done = batch.users \/ pool = "lp"
      BY <1>n, <2>1, <3>1
    <3>2. CASE ~(done = batch.users \/ pool = "lp")
      <4>1. batch' = [at |-> "single", users |-> batch.users, drained |-> batch.drained,
                      left |-> batch.users \ done]
        BY <1>b, <2>1, <3>2
      <4> QED
        BY <1>b, <4>1
    <3> QED
      BY <3>1, <3>2
  <2> QED
    BY <1>t, <1>e, <1>f, <2>1, <2>2, <2>3
<1>3. CASE SkipBatch
  <2>1. /\ RewardFault /\ batch' = NoBatch /\ UNCHANGED <<wait, retry>>
        /\ deferred' = deferred \/ deferred' = ReDefer(deferred, batch.users \cup batch.drained)
    BY <1>3 DEF SkipBatch
  <2>2. deferred' \in Seq(Users) /\ IsInjective(deferred')
    BY <1>b, <1>q, <1>t, <2>1
  <2> QED
    BY <1>t, <1>f, <1>n, <2>1, <2>2
<1>4. CASE CompoundOne
  <2>1. /\ UNCHANGED deferred
        /\ batch' = NoBatch \/ batch' = [batch EXCEPT !.left = @ \ {NextSingle}]
        /\ batch.at = "single"
    BY <1>4 DEF CompoundOne, AfterSingle
  <2>2. \/ wait' \in [Users -> 0..CADENCE] /\ UNCHANGED <<retry, rewardFaults>>
        \/ RewardFault /\ retry' = [retry EXCEPT ![NextSingle] = RETRY] /\ UNCHANGED wait
    BY <1>4, <1>e DEF CompoundOne
  <2>3. Whole'
    <3>1. CASE batch' = [batch EXCEPT !.left = @ \ {NextSingle}]
      <4>1. batch' = [at |-> "single", users |-> batch.users, drained |-> batch.drained,
                      left |-> batch.left \ {NextSingle}]
        BY <1>b, <2>1, <3>1
      <4> QED
        BY <1>b, <4>1
    <3> QED
      BY <1>n, <2>1, <3>1
  <2>4. retry' \in [Users -> 0..RETRY]
    <3>1. retry' = retry \/ retry' = [retry EXCEPT ![NextSingle] = RETRY]
      BY <2>2
    <3>2. RETRY \in 0..RETRY
      OBVIOUS
    <3> HIDE DEF NextSingle
    <3> QED
      BY <1>t, <3>1, <3>2
  <2> QED
    BY <1>t, <1>f, <2>1, <2>2, <2>3, <2>4
<1>5. CASE LatchStop
  <2>1. /\ RewardFault /\ batch' = NoBatch /\ UNCHANGED <<wait, retry>>
        /\ deferred' = ReDefer(deferred, batch.left)
    BY <1>5 DEF LatchStop
  <2>2. deferred' \in Seq(Users) /\ IsInjective(deferred')
    BY <1>b, <1>q, <2>1
  <2> QED
    BY <1>t, <1>f, <1>n, <2>1, <2>2
<1>6. CASE BatchDies
  <2>1. RewardFault /\ batch' = NoBatch /\ UNCHANGED <<wait, retry, deferred>>
    BY <1>6 DEF BatchDies
  <2> QED
    BY <1>t, <1>f, <1>n, <2>1
<1> QED
  BY <1>1, <1>2, <1>3, <1>4, <1>5, <1>6

LEMMA RewardTypeOKNext == RewardTypeOK /\ [RewardNext]_rewardVars => RewardTypeOK'
<1> SUFFICES ASSUME RewardTypeOK, [RewardNext]_rewardVars PROVE RewardTypeOK'
  OBVIOUS
<1>1. CASE SelectBatch \/ SelectBatchLp
  BY <1>1, SelectKeepsTypes DEF SelectBatch, SelectBatchLp
<1>2. CASE Shrink \/ SendBatch \/ SkipBatch \/ CompoundOne \/ LatchStop \/ BatchDies
  BY <1>2, BatchKeepsTypes
<1>3. CASE \E u \in Users : OptOut(u)
  BY <1>3 DEF OptOut, RewardTypeOK
<1>4. CASE UNCHANGED rewardVars
  BY <1>4 DEF rewardVars, RewardTypeOK
<1> QED
  BY <1>1, <1>2, <1>3, <1>4 DEF RewardNext, RewardStep

(* The state file stays sound: the round and the queue hold each user at   *)
(* most once, and the cursor is at a user, whatever is removed, deferred   *)
(* or cut off.                                                             *)
THEOREM RoundsAreSound == RewardSpec => []RewardTypeOK
<1>1. RewardInit => RewardTypeOK
  BY RewardTypeOKInit
<1>2. RewardTypeOK /\ [RewardNext]_rewardVars => RewardTypeOK'
  BY RewardTypeOKNext
<1> QED
  BY <1>1, <1>2, PTL DEF RewardSpec

(* What the keeper's own stop ends is queued again, behind those who wait. *)
LEMMA StopsQueue ==
  ASSUME RewardTypeOK, pool = "shareholders", Shrink \/ SkipBatch \/ LatchStop
  PROVE  /\ \A u \in IF batch.at = "single" THEN batch.left ELSE batch.drained :
              u \in batch'.users \/ u \in ToSet(deferred')
         /\ SubSeq(deferred', 1, Len(deferred)) = deferred
<1>t. /\ deferred \in Seq(Users) /\ IsInjective(deferred)
      /\ batch.users \in SUBSET Users /\ batch.drained \in SUBSET Users
      /\ batch.left \in SUBSET Users
  BY DEF RewardTypeOK
<1>q. \A S \in SUBSET Users :
        /\ S \subseteq ToSet(ReDefer(deferred, S))
        /\ SubSeq(ReDefer(deferred, S), 1, Len(deferred)) = deferred
  BY <1>t, ReDeferQueues, QueueKeepsPlaces
<1>1. CASE Shrink
  <2>1. PICK fits \in SUBSET batch.users :
          /\ deferred' = ReDefer(deferred, batch.drained \ fits)
          /\ batch' = IF fits = {} THEN NoBatch ELSE [batch EXCEPT !.at = "send", !.users = fits]
    BY <1>1 DEF Shrink, ShrunkOut
  <2>2. batch.at = "shrink" /\ batch'.users = fits
    BY <1>1, <2>1, <1>t DEF Shrink, NoBatch, RewardTypeOK
  <2>3. batch.drained \ fits \in SUBSET Users
    BY <1>t
  <2> QED
    BY <1>q, <2>1, <2>2, <2>3
<1>2. CASE SkipBatch
  <2>1. batch.at = "send" /\ deferred' = ReDefer(deferred, batch.users \cup batch.drained)
    BY <1>2 DEF SkipBatch
  <2>2. batch.users \cup batch.drained \in SUBSET Users
    BY <1>t
  <2> QED
    BY <1>q, <2>1, <2>2
<1>3. CASE LatchStop
  <2>1. batch.at = "single" /\ deferred' = ReDefer(deferred, batch.left)
    BY <1>3 DEF LatchStop
  <2> QED
    BY <1>q, <1>t, <2>1
<1> QED
  BY <1>1, <1>2, <1>3

(* A stop of the keeper costs no shareholder the place it has.             *)
THEOREM StopsCostNoPlace == RewardSpec => StoppedKeepTheirPlace
<1> DEFINE Kept ==
      (pool = "shareholders" /\ (Shrink \/ SkipBatch \/ LatchStop)) =>
        /\ \A u \in IF batch.at = "single" THEN batch.left ELSE batch.drained :
             u \in batch'.users \/ u \in ToSet(deferred')
        /\ SubSeq(deferred', 1, Len(deferred)) = deferred
<1>1. RewardTypeOK => Kept
  BY StopsQueue
<1>2. RewardTypeOK /\ [RewardNext]_rewardVars => [Kept]_rewardVars
  BY <1>1
<1> HIDE DEF Kept
<1>3. RewardSpec => [][Kept]_rewardVars
  BY <1>2, RoundsAreSound, PTL DEF RewardSpec
<1> QED
  BY <1>3 DEF Kept, StoppedKeepTheirPlace
=============================================================================
