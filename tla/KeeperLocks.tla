----------------------------- MODULE KeeperLocks -----------------------------
(***************************************************************************)
(* Two tasks about ve locks.  automax_bonus.ts claims the bonus of the     *)
(* AutoMax locks as often as the Furnace allows; checkpoint_before_expiry  *)
(* checkpoints the royalties of the owners whose locks are about to        *)
(* expire, while the lock still counts.                                    *)
(*                                                                         *)
(* The locks are those of the worklist of KeeperScan.  Time is counted in  *)
(* runs of the task.                                                       *)
(***************************************************************************)
EXTENDS Integers, FiniteSets, SequencesExt

CONSTANTS
  OWNERS,     \* owners are 1..OWNERS, in the order of their first lock
  OWNED,      \* AutoMax locks each owner may have: a set of numbers
  MAXLOCKS,   \* automaxBonusMaxLocks
  BATCH,      \* ONCHAIN_BATCH_CAP
  BONUSEVERY, \* ONCHAIN_BONUS_COOLDOWN_SECS, in runs
  OWNERCOOL,  \* automaxOwnerCooldownSecs, in runs
  MAXOWNERS,  \* checkpointBeforeExpiryMaxUsers
  WINDOW,     \* checkpointBeforeExpiryWindowSecs, in runs
  CHECKCOOL,  \* COOLDOWN_MS of a checkpointed owner, in runs
  MaxLockFaults

ASSUME KeeperLocksAssumption ==
  /\ OWNERS \in Nat \ {0} /\ OWNED \subseteq Nat \ {0}
  /\ {MAXLOCKS, BATCH, BONUSEVERY, MAXOWNERS, WINDOW} \subseteq Nat \ {0}
  /\ OWNERCOOL \in Nat /\ CHECKCOOL \in Nat /\ MaxLockFaults \in Nat

Owners == 1..OWNERS

VARIABLES
  duty,     \* "automax" or "checkpoint"
  owned,    \* how many AutoMax locks an owner has
  next,     \* on the chain: runs until a lock's bonus, or never claimed
  ownerCool,\* the file's lastClaimedAt, lastCheckpointedAt: runs left
  left,     \* runs until an owner's lock expires
  kept,     \* history: checkpointed within the window
  placed,   \* history: runs an owner was among the first MAXOWNERS in
  claim,    \* the run under way: [at, queue, paid]
  lockFaults

veTaskVars == <<duty, owned, next, ownerCool, left, kept, placed, claim, lockFaults>>

Never == -1
VeLocks == Owners \X (1..4)
Locks(o) == {l \in VeLocks : l[1] = o /\ l[2] <= owned[o]}
NoClaim == [at |-> "idle", queue |-> {}, paid |-> {}]

VeTasksInit ==
  /\ duty \in {"automax", "checkpoint"}
  /\ owned \in IF duty = "automax" THEN [Owners -> OWNED] ELSE [Owners -> {0}]
  /\ left \in IF duty = "checkpoint" THEN [Owners -> {WINDOW + 1, WINDOW + 2}]
              ELSE [Owners -> {0}]
  /\ next = [l \in VeLocks |-> Never] /\ ownerCool = [o \in Owners |-> 0]
  /\ kept = {} /\ placed = [o \in Owners |-> 0] /\ claim = NoClaim /\ lockFaults = 0

LockFault == lockFaults < MaxLockFaults /\ lockFaults' = lockFaults + 1
Sooner(n) == IF n > 0 THEN n - 1 ELSE n

-----------------------------------------------------------------------------
(* The bonus.                                                              *)

(* flattenOwnerGroupsForPrefilter: group by group, each that fits in what  *)
(* is left; the first group of all is cut if it does not, and is then all  *)
(* there is.                                                               *)
StallingMutant ==
  {l \in VeLocks : l \in Locks(l[1]) /\ Cardinality(UNION {Locks(q) : q \in 1..l[1]}) <= MAXLOCKS}
FlattenOwnerGroups ==
  FoldLeft(LAMBDA out, o : LET room == MAXLOCKS - Cardinality(out) IN
             IF owned[o] <= room THEN out \cup Locks(o)
             ELSE IF out = {} THEN {l \in Locks(o) : l[2] <= room} ELSE out,
           {}, [o \in Owners |-> o])

(* Eligible on chain; an owner in cooldown is left alone, except for locks *)
(* whose first claim only starts their clock.                              *)
NotTheFirstMutant(l, due, cool) == due[l] = 0 /\ cool[l[1]] = 0
Claimable(l, due, cool) == due[l] = Never \/ (due[l] = 0 /\ cool[l[1]] = 0)

SelectAutomax ==
  /\ duty = "automax" /\ claim.at = "idle"
  /\ \E due \in {[l \in VeLocks |-> Sooner(next[l])]},
        cool \in {[o \in Owners |-> Sooner(ownerCool[o])]} :
       LET queue == {l \in FlattenOwnerGroups : Claimable(l, due, cool)} IN
       /\ next' = due /\ ownerCool' = cool
       /\ claim' = IF queue = {} THEN NoClaim ELSE [NoClaim EXCEPT !.at = "send", !.queue = queue]
  /\ UNCHANGED <<duty, owned, left, kept, placed, lockFaults>>

(* Batch by batch, in order; the locks that had been claimed before put    *)
(* their owner on the list of those to leave alone.  A skip of the keeper  *)
(* ends the loop, any other failure only loses the batch.                  *)
Batch ==
  {l \in claim.queue :
     Cardinality({m \in claim.queue : m[1] < l[1] \/ (m[1] = l[1] /\ m[2] < l[2])}) < BATCH}
AfterBatch(queue, paid) ==
  claim' = [at |-> IF queue = {} THEN "save" ELSE "send", queue |-> queue, paid |-> paid]
ClaimBatch ==
  /\ claim.at = "send"
  /\ next' = [l \in VeLocks |-> IF l \in Batch THEN BONUSEVERY ELSE next[l]]
  /\ AfterBatch(claim.queue \ Batch,
                claim.paid \cup {l[1] : l \in {m \in Batch : next[m] # Never}})
  /\ UNCHANGED <<duty, owned, ownerCool, left, kept, placed, lockFaults>>
BatchFails ==
  /\ claim.at = "send" /\ LockFault
  /\ \E queue \in {{}, claim.queue \ Batch} : AfterBatch(queue, claim.paid)
  /\ UNCHANGED <<duty, owned, next, ownerCool, left, kept, placed>>
SaveOwners ==
  /\ claim.at = "save" /\ claim' = NoClaim
  /\ ownerCool' = [o \in Owners |-> IF o \in claim.paid THEN OWNERCOOL ELSE ownerCool[o]]
  /\ UNCHANGED <<duty, owned, next, left, kept, placed, lockFaults>>

-----------------------------------------------------------------------------
(* The checkpoint before expiry.                                           *)

Before(q, o, end) == end[q] < end[o] \/ (end[q] = end[o] /\ q < o)

(* selectOwnersToCheckpoint: the owners of the locks that expire soonest,  *)
(* up to the limit; of those, the ones that were not checkpointed in the   *)
(* last days.  Who was keeps the place until the lock expires.             *)
InWindow(end) == {o \in Owners : end[o] > 0 /\ end[o] <= WINDOW}
OneLessMutant(end, cool) ==
  {o \in InWindow(end) : Cardinality({q \in InWindow(end) : Before(q, o, end)}) < MAXOWNERS - 1
                         /\ cool[o] = 0}
OwnersToCheckpoint(end, cool) ==
  {o \in InWindow(end) : Cardinality({q \in InWindow(end) : Before(q, o, end)}) < MAXOWNERS
                         /\ cool[o] = 0}

(* History: fewer than MAXOWNERS locks of others end before the owner's.   *)
HasPlace(o, end) ==
  /\ end[o] \in 1..WINDOW
  /\ Cardinality({q \in Owners : end[q] > 0 /\ Before(q, o, end)}) < MAXOWNERS

SelectOwners ==
  /\ duty = "checkpoint" /\ claim.at = "idle"
  /\ \E end \in {[o \in Owners |-> Sooner(left[o])]},
        cool \in {[o \in Owners |-> Sooner(ownerCool[o])]} :
       LET queue == OwnersToCheckpoint(end, cool) IN
       /\ left' = end /\ ownerCool' = cool
       /\ placed' = [o \in Owners |-> IF HasPlace(o, end) THEN placed[o] + 1 ELSE placed[o]]
       /\ claim' = IF queue = {} THEN NoClaim ELSE [at |-> "check", queue |-> {}, paid |-> queue]
  /\ UNCHANGED <<duty, owned, next, kept, lockFaults>>

CheckpointBatch ==
  /\ claim.at = "check" /\ claim' = NoClaim
  /\ kept' = kept \cup claim.paid
  /\ ownerCool' = [o \in Owners |-> IF o \in claim.paid THEN CHECKCOOL ELSE ownerCool[o]]
  /\ UNCHANGED <<duty, owned, next, left, placed, lockFaults>>

(* A skip, a failed transaction, a time-out, or the end of the process.    *)
MarkedAnywayMutant ==
  /\ claim.at # "idle" /\ LockFault /\ claim' = NoClaim
  /\ ownerCool' = [o \in Owners |-> IF o \in claim.paid THEN CHECKCOOL ELSE ownerCool[o]]
  /\ UNCHANGED <<duty, owned, next, left, kept, placed>>
ClaimDies ==
  /\ claim.at # "idle" /\ LockFault /\ claim' = NoClaim
  /\ UNCHANGED <<duty, owned, next, ownerCool, left, kept, placed>>

LockStep == SelectAutomax \/ ClaimBatch \/ SaveOwners \/ SelectOwners \/ CheckpointBatch
VeTasksNext == LockStep \/ BatchFails \/ ClaimDies

(* The daemon starts the task again and again.                             *)
VeTasksFairness == WF_veTaskVars(LockStep)
VeTasksSpec == VeTasksInit /\ [][VeTasksNext]_veTaskVars /\ VeTasksFairness

-----------------------------------------------------------------------------
(* type invariant *)
VeTasksTypeOK ==
  /\ duty \in {"automax", "checkpoint"} /\ owned \in [Owners -> Nat]
  /\ next \in [VeLocks -> -1..BONUSEVERY]
  /\ ownerCool \in [Owners -> 0..OWNERCOOL + CHECKCOOL]
  /\ left \in [Owners -> 0..WINDOW + 2] /\ kept \subseteq Owners /\ placed \in [Owners -> 0..WINDOW]
  /\ claim.at \in {"idle", "send", "save", "check"} /\ claim.queue \subseteq VeLocks
  /\ claim.paid \subseteq Owners /\ lockFaults \in 0..MaxLockFaults

(* The owners whose locks find room together: each whose locks fit in what *)
(* those before leave of a run.                                            *)
Together(os) == Cardinality(UNION {Locks(o) : o \in os})
WithRoom ==
  CHOOSE os \in SUBSET Owners :
    \A o \in Owners : o \in os <=> Together({q \in os : q < o} \cup {o}) <= MAXLOCKS

(* The bonus of every lock is claimed again and again whose owner finds    *)
(* room; an owner who does not is passed over and stalls nobody behind.    *)
(* But if the very first has more locks than fit a run, only as many of    *)
(* those as fit are ever claimed, and nobody else's (against               *)
(* automax_bonus.ts:676: such a group must not stall later owners).        *)
Served(l) == IF owned[1] > MAXLOCKS THEN l[1] = 1 /\ l[2] <= MAXLOCKS ELSE l[1] \in WithRoom
BonusIsClaimed ==
  \A l \in VeLocks : (l \in Locks(l[1]) /\ Served(l) /\ next[l] <= 0) ~> next[l] > 0

(* An owner who had a place in more runs of the window than failed is      *)
(* checkpointed before the lock expires, and nobody who was not is passed  *)
(* over for a cooldown.  There is no more to it: whoever has a place keeps *)
(* it, so that with more owners than the limit the later ones are left out *)
(* (against checkpoint_before_expiry.ts:374: they must not starve when     *)
(* maxUsers is low).                                                       *)
CheckpointedBeforeExpiry ==
  duty = "checkpoint" => \A o \in Owners : left[o] = 0 /\ placed[o] > lockFaults => o \in kept
=============================================================================
