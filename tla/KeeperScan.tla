----------------------------- MODULE KeeperScan -----------------------------
(***************************************************************************)
(* The worklists of the keeper's tasks.  Six tasks follow events of a      *)
(* contract into a state file: who opted in to auto-compounding, which     *)
(* locks exist, which offers and listings are open.  Each run resumes some *)
(* blocks before the last one scanned, replays the events in order, and    *)
(* saves the worklist with the block it has reached after every chunk.     *)
(*                                                                         *)
(* A run may end anywhere: an RPC error, a crash, the task's time-out,     *)
(* which leaves the run going on behind the next one.  The node asked for  *)
(* the latest block may lag behind the one asked before, and the last      *)
(* blocks may be replaced.  Block n of the chain is log[n]; a block holds  *)
(* at most one event.                                                      *)
(***************************************************************************)
EXTENDS Integers, Sequences, FiniteSets, SequencesExt

CONSTANTS
  Scanners,   \* the tasks of an instance, of AllScanners
  Ids,        \* users, locks, offers or listings
  Runs,       \* the runs that can be under way at once
  OVERLAP,    \* SCAN_OVERLAP_BLOCKS = CHAIN_REWIND_TOLERANCE
  CHUNK,      \* blocks of one eth_getLogs
  MaxBlocks, MaxReorgs, MaxScanFaults

AllScanners == {"shareholders", "lp", "automax", "expiring", "offers", "listings"}
LockScanners == {"automax", "expiring"}

ASSUME KeeperScanAssumption ==
  /\ Scanners \subseteq AllScanners
  /\ OVERLAP \in Nat \ {0} /\ CHUNK \in Nat \ {0}
  /\ MaxBlocks \in Nat /\ MaxReorgs \in Nat /\ MaxScanFaults \in Nat

VARIABLES
  scanner, \* whose worklist
  log,     \* the chain's events, one a block
  file,    \* the state file: [last, table]
  run,     \* what each run holds in memory
  undone,  \* history: entries whose last event a reorganisation took back
  reorgs, scanFaults

scanVars == <<scanner, log, file, run, undone, reorgs, scanFaults>>

(* An entry of the worklist, or none; a lock is "in" when it is autoMax.   *)
Status == {"out", "plain", "in"}
NoEntries == [i \in Ids |-> "out"]
InitState == [last |-> 0, table |-> NoEntries]
Resting == [at |-> "idle", table |-> NoEntries, last |-> 0, next |-> 0, latest |-> 0]

ScanInit ==
  /\ scanner \in Scanners
  /\ log = <<>> /\ file = InitState
  /\ run = [r \in Runs |-> Resting]
  /\ undone = {} /\ reorgs = 0 /\ scanFaults = 0

(* One event applied to the worklist.  A lock seen for the first time when *)
(* it is extended is taken for one that is not autoMax.                    *)
Apply(table, ev) ==
  [i \in Ids |->
     IF ev.kind = "quiet" \/ i # ev.id THEN table[i]
     ELSE IF ev.kind = "extend" THEN (IF table[i] = "out" THEN "plain" ELSE table[i])
     ELSE ev.kind]

(* The events of a chunk are put in the order of the chain first.          *)
Chunk(from, to) == SubSeq(log, from, IF to <= Len(log) THEN to ELSE Len(log))
UnorderedMutant(table, from, to) ==
  FoldLeft(Apply, table, SelectSeq(Chunk(from, to), LAMBDA e : e.kind # "out")
                         \o SelectSeq(Chunk(from, to), LAMBDA e : e.kind = "out"))
ApplyChunk(table, from, to) == FoldLeft(Apply, table, Chunk(from, to))

(* What the chain itself holds: the last event that says anything.         *)
OnChain(chain, i) ==
  LET says == {n \in 1..Len(chain) : chain[n].id = i /\ chain[n].kind \in Status} IN
  IF says = {} THEN "out" ELSE chain[CHOOSE n \in says : \A m \in says : m <= n].kind

-----------------------------------------------------------------------------
ScanFault == scanFaults < MaxScanFaults /\ scanFaults' = scanFaults + 1

(* getBlockNumber: the head, or an earlier block of a lagging node.        *)
ReadHead(h) == (h = Len(log) /\ UNCHANGED scanFaults) \/ (h \in 0..Len(log) - 1 /\ ScanFault)

NoOverlapMutant(last) == last + 1
ResumeFrom(last) == IF last > OVERLAP THEN last + 1 - OVERLAP ELSE 1

Working(state) == [at |-> "work", table |-> state.table, last |-> state.last,
                   next |-> 0, latest |-> 0]
Enter(r, state, h) ==
  run' = [run EXCEPT ![r] =
    IF ResumeFrom(state.last) > h THEN Working(state)
    ELSE [at |-> "scan", table |-> state.table, last |-> state.last,
          next |-> ResumeFrom(state.last), latest |-> h]]

(* The lists of users and of locks: a head far behind means another chain, *)
(* a head just behind is scanned again from the overlap.                   *)
BeginScan(r, h) ==
  /\ Enter(r, IF file.last > h + OVERLAP THEN InitState ELSE file, h)
  /\ UNCHANGED file

(* The lists of offers and of listings: the reset is saved at once, and a  *)
(* head just behind ends the scan.                                         *)
BeginCandidateScan(r, h) ==
  \/ /\ file.last > h + OVERLAP
     /\ Enter(r, InitState, h) /\ file' = InitState
  \/ /\ file.last \in h + 1..h + OVERLAP
     /\ run' = [run EXCEPT ![r] = Working(file)]
     /\ UNCHANGED file
  \/ file.last <= h /\ Enter(r, file, h) /\ UNCHANGED file

(* The events of the next chunk; list and block are saved together.        *)
ScanChunk(r) ==
  LET to    == IF run[r].next + CHUNK - 1 > run[r].latest THEN run[r].latest
               ELSE run[r].next + CHUNK - 1
      table == ApplyChunk(run[r].table, run[r].next, to)
  IN /\ run[r].at = "scan"
     /\ file' = [last |-> to, table |-> table]
     /\ run' = [run EXCEPT ![r] =
                  IF to = run[r].latest THEN Working(file')
                  ELSE [@ EXCEPT !.table = table, !.last = to, !.next = to + 1]]
     /\ UNCHANGED scanFaults

(* The daemon runs a task once at a time: a second run starts beside the   *)
(* first when the first has passed its time-out, and is not stopped by it. *)
Beside(r) == \E q \in Runs \ {r} : run[q].at # "idle"

Begin(r, h) ==
  IF scanner \in {"offers", "listings"} THEN BeginCandidateScan(r, h) ELSE BeginScan(r, h)
Scan(r) ==
  /\ \/ /\ run[r].at = "idle"
        /\ IF Beside(r) THEN ScanFault /\ Begin(r, Len(log))
           ELSE \E h \in 0..Len(log) : ReadHead(h) /\ Begin(r, h)
     \/ ScanChunk(r)
  /\ UNCHANGED <<scanner, log, undone, reorgs>>

ScanOptedInUsers(r) == scanner = "shareholders" /\ Scan(r)
ScanLpUsers(r)      == scanner = "lp" /\ Scan(r)
ScanAutomaxLocks(r) == scanner = "automax" /\ Scan(r)
ScanLocks(r)        == scanner = "expiring" /\ Scan(r)
ScanMarketOffers(r) == scanner = "offers" /\ Scan(r)
ScanListings(r)     == scanner = "listings" /\ Scan(r)

(* The task does its work and saves what it holds again, with the failures *)
(* and times it adds.  The auto-compound tasks take out the users a read   *)
(* of the contract, of the head or of a node that is behind the scanned    *)
(* block by no more than the overlap, finds opted out.                     *)
SaveWork(r) ==
  /\ run[r].at = "work"
  /\ \/ UNCHANGED <<file, scanFaults>>
     \/ /\ scanner \notin {"shareholders", "lp"} /\ UNCHANGED scanFaults
        /\ file' = [last |-> run[r].last, table |-> run[r].table]
     \/ /\ scanner \in {"shareholders", "lp"}
        /\ \E h \in 0..Len(log) :
             /\ h >= run[r].last - OVERLAP /\ ReadHead(h)
             /\ file' = [last |-> run[r].last, table |-> [i \in Ids |->
                  IF OnChain(SubSeq(log, 1, h), i) = "out" THEN "out" ELSE run[r].table[i]]]
  /\ run' = [run EXCEPT ![r] = Resting]
  /\ UNCHANGED <<scanner, log, undone, reorgs>>

(* An error or the end of the process.                                     *)
RunEnds(r) ==
  /\ run[r].at # "idle" /\ ScanFault
  /\ run' = [run EXCEPT ![r] = Resting]
  /\ UNCHANGED <<scanner, log, file, undone, reorgs>>

(* A block: an event the contract may emit now, or nothing of interest.    *)
MayHappen(i, kind) ==
  LET now == OnChain(log, i) IN
  IF scanner \in LockScanners
  THEN IF now = "out" THEN kind \in {"in", "plain"} /\ \A n \in 1..Len(log) : log[n].id # i
       ELSE kind # now
  ELSE IF scanner = "offers"
  THEN IF now = "out" THEN kind = "in" /\ \A n \in 1..Len(log) : log[n].id # i
       ELSE kind = "out"
  ELSE kind \in {"in", "out"} \ {now}

NewBlock ==
  /\ Len(log) < MaxBlocks
  /\ \E i \in Ids, kind \in Status \cup {"extend", "quiet"} :
       /\ IF kind = "quiet" THEN i = CHOOSE j \in Ids : TRUE ELSE MayHappen(i, kind)
       /\ log' = Append(log, [id |-> i, kind |-> kind])
  /\ UNCHANGED <<scanner, file, run, undone, reorgs, scanFaults>>

ScanReorg ==
  /\ reorgs < MaxReorgs /\ reorgs' = reorgs + 1
  /\ \E k \in 1..OVERLAP :
       /\ k <= Len(log) /\ log' = SubSeq(log, 1, Len(log) - k)
       /\ undone' = undone \cup
            {i \in Ids : OnChain(log', i) \notin {"out", OnChain(log, i)}}
  /\ UNCHANGED <<scanner, file, run, scanFaults>>

ScanStep(r) ==
  \/ ScanOptedInUsers(r) \/ ScanLpUsers(r) \/ ScanAutomaxLocks(r)
  \/ ScanLocks(r) \/ ScanMarketOffers(r) \/ ScanListings(r)
  \/ SaveWork(r)

ScanNext == NewBlock \/ ScanReorg \/ \E r \in Runs : ScanStep(r) \/ RunEnds(r)

(* The daemon starts the task again and again; the chain may stop.         *)
ScanFairness == \A r \in Runs : WF_scanVars(ScanStep(r))

ScanSpec == ScanInit /\ [][ScanNext]_scanVars /\ ScanFairness

-----------------------------------------------------------------------------
ScanTypeOK ==
  /\ scanner \in Scanners
  /\ log \in Seq([id : Ids, kind : Status \cup {"extend", "quiet"}])
  /\ file.last \in 0..MaxBlocks /\ file.table \in [Ids -> Status]
  /\ \A r \in Runs : run[r].at \in {"idle", "scan", "work"} /\ run[r].table \in [Ids -> Status]
  /\ undone \subseteq Ids /\ reorgs \in 0..MaxReorgs /\ scanFaults \in 0..MaxScanFaults

(* What is on the chain is in the file, as it is on the chain.             *)
Covered ==
  \A i \in Ids \ undone : OnChain(log, i) # "out" => file.table[i] = OnChain(log, i)

(* Once the chain is quiet the worklist comes to hold everything there is  *)
(* to serve, whatever runs died half way, overlapped, or were told of an   *)
(* older head, or scanned blocks that were replaced: the block of the file  *)
(* never runs ahead of its list.  Only an entry whose departure was itself  *)
(* taken back stays missing, since the overlap replays what is on the chain *)
(* and no longer what is not.                                               *)
NothingStaysMissed == <>[]((\A r \in Runs : run[r].at = "idle") => Covered)
=============================================================================
