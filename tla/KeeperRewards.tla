---------------------------- MODULE KeeperRewards ----------------------------
(***************************************************************************)
(* Auto-compounding: compound_shareholders.ts and compound_lp.ts choose a  *)
(* batch of the opted-in users, cut it to what fits the gas, and send it.  *)
(*                                                                         *)
(* A cursor goes round the list of users.  A shareholder whose turn came   *)
(* to nothing because the keeper itself was stopped is put in a queue that *)
(* is drained before the round goes on.  The chosen state is saved before  *)
(* the estimate of the gas, so a run that dies later has used the turns.   *)
(* Time is counted in runs.                                                *)
(***************************************************************************)
EXTENDS Integers, Sequences, FiniteSets, SequencesExt

CONSTANTS
  USERS,      \* the users are 1..USERS
  LOOKAHEAD,  \* compoundLookaheadUsers
  MAXUSERS,   \* compoundMaxUsersShareholders, compoundMaxUsersLp
  CADENCE,    \* runs until a compounded user has enough again
  RETRY,      \* runs a failed user is passed over
  MaxRewardFaults

ASSUME KeeperRewardsAssumption ==
  /\ USERS \in Nat \ {0} /\ LOOKAHEAD \in Nat \ {0} /\ MAXUSERS \in Nat \ {0}
  /\ CADENCE \in Nat \ {0} /\ RETRY \in Nat \ {0} /\ MaxRewardFaults \in Nat

Users == 1..USERS

VARIABLES
  pool,     \* "shareholders" or "lp"
  off,      \* on the chain: users that are disabled or paused,
  stuck,    \*   users whose lock is empty, listed or expired,
  wait,     \*   runs until a user's reward and cadence allow it
  list, cursor, \* the state file: users in the order they came, and whose turn
  deferred, \*   pendingDeferredUsers
  retry,    \*   failures: runs until the next try
  batch,    \* the run under way: [at, users, drained, left]
  rewardFaults

rewardVars == <<pool, off, stuck, wait, list, cursor, deferred, retry, batch, rewardFaults>>

NoBatch == [at |-> "idle", users |-> {}, drained |-> {}, left |-> {}]

RewardInit ==
  /\ pool \in {"shareholders", "lp"}
  /\ off = {} /\ stuck \in SUBSET Users /\ wait = [u \in Users |-> 0]
  /\ list = [i \in Users |-> i] /\ cursor = 0 /\ deferred = <<>>
  /\ retry = [u \in Users |-> 0] /\ batch = NoBatch /\ rewardFaults = 0

RewardFault == rewardFaults < MaxRewardFaults /\ rewardFaults' = rewardFaults + 1

Lower(f) == [u \in Users |-> IF f[u] > 0 THEN f[u] - 1 ELSE 0]
FirstOf(s, n) == SubSeq(s, 1, IF Len(s) < n THEN Len(s) ELSE n)

(* The elements of a sequence that are in S, in their order.               *)
Those(s, S) ==
  LET at     == {i \in DOMAIN s : s[i] \in S}
      Nth(k) == CHOOSE i \in at : Cardinality({j \in at : j <= i}) = k
  IN [k \in 1..Cardinality(at) |-> s[Nth(k)]]

Looking == IF LOOKAHEAD < Len(list) THEN LOOKAHEAD ELSE Len(list)

(* The queue first: those it can take now, in order.                       *)
Drained(cool) ==
  FirstOf(Those(deferred, {u \in ToSet(list) : cool[u] = 0}), Looking)
KeptDeferred(drained) == Those(deferred, ToSet(list) \ ToSet(drained))

(* Then the round, from the cursor, until there are enough.                *)
Turn(n) == [k \in 1..n |-> list[((cursor + k - 1) % Len(list)) + 1]]
Fresh(n, drained, cool) ==
  Those(Turn(n), {u \in ToSet(list) \ ToSet(drained) : cool[u] = 0})
Turns(drained, cool) ==
  Cardinality({n \in 1..Looking : Len(drained) + Len(Fresh(n - 1, drained, cool)) < Looking})

(* Of the candidates that are still on, the first that have something to   *)
(* compound make the batch; a bad lock met before it is full is a failure. *)
EveryTurnMutant(u, due) == u \notin off \cup stuck
Compoundable(u, due) == u \notin off \cup stuck /\ due[u] = 0
Chosen(cands, due) ==
  ToSet(FirstOf(Those(cands, {u \in Users : Compoundable(u, due)}), MAXUSERS))
BadLocks(cands, due) ==
  {cands[i] : i \in {k \in 1..Len(cands) :
     /\ cands[k] \in stuck \ off /\ due[cands[k]] = 0
     /\ Cardinality({j \in 1..k : Compoundable(cands[j], due)}) < MAXUSERS}}

(* The users that are off leave the list; the cursor stays with its user,  *)
(* or goes to the next that stays, the first if there is none behind.      *)
RemoveUsers(S, turn) ==
  LET less   == Those(list, Users \ S)
      before == Cardinality({i \in 1..turn : list[i] \notin S})
  IN [list |-> less, cursor |-> IF before < Len(less) THEN before ELSE 0]

(* markFailure and clearFailure: a user whose lock is bad waits, one that   *)
(* is off is forgotten.                                                    *)
Failures(cool, bad, gone) ==
  [u \in Users |-> IF u \in bad THEN RETRY ELSE IF u \in gone THEN 0 ELSE cool[u]]

(* reDeferUsers: behind those that wait already.                           *)
ReDefer(queue, S) == queue \o Those([u \in Users |-> u], S \ ToSet(queue))

Untouched == UNCHANGED <<pool, off, stuck>>

-----------------------------------------------------------------------------
(* The worklist is read, a batch selected and the state saved.             *)
Select ==
  /\ batch.at = "idle" /\ list # <<>>
  /\ \E cool \in {Lower(retry)}, due \in {Lower(wait)} :
     \E drained \in {Drained(cool)} :
     \E turns \in {Turns(drained, cool)} :
     \E cands \in {drained \o Fresh(turns, drained, cool)} :
     LET chosen == Chosen(cands, due)
         bad    == BadLocks(cands, due)
         after  == RemoveUsers(off \cap ToSet(cands), (cursor + turns) % Len(list))
     IN /\ wait' = due /\ list' = after.list /\ cursor' = after.cursor
        /\ retry' = Failures(cool, bad, off \cap ToSet(cands))
        /\ deferred' = KeptDeferred(drained)
        /\ batch' = IF chosen = {} THEN NoBatch
                    ELSE [NoBatch EXCEPT !.at = "shrink", !.users = chosen,
                          !.drained = ToSet(drained) \cap chosen]
  /\ Untouched /\ UNCHANGED rewardFaults

SelectBatch   == pool = "shareholders" /\ Select
SelectBatchLp == pool = "lp" /\ Select

(* shrinkToGasLimit halves the batch until it fits; it is ordered by what  *)
(* the users have, so any of them may be the ones cut off.                 *)
Halves(n) == {n \div d : d \in {1, 2, 4, 8}}
ShrunkOut(kept) == batch.drained \ kept
ShrinkForgets ==  \* mutant: those cut off are not queued again
  /\ batch.at = "shrink"
  /\ \E kept \in SUBSET batch.users :
       /\ Cardinality(kept) \in Halves(Cardinality(batch.users))
       /\ (kept = batch.users /\ UNCHANGED rewardFaults) \/ (kept # batch.users /\ RewardFault)
       /\ batch' = IF kept = {} THEN NoBatch
                   ELSE [batch EXCEPT !.at = "send", !.users = kept]
  /\ Untouched /\ UNCHANGED <<wait, list, cursor, deferred, retry>>
Shrink ==
  /\ batch.at = "shrink"
  /\ \E kept \in SUBSET batch.users :
       /\ Cardinality(kept) \in Halves(Cardinality(batch.users))
       /\ (kept = batch.users /\ UNCHANGED rewardFaults) \/ (kept # batch.users /\ RewardFault)
       /\ deferred' = ReDefer(deferred, ShrunkOut(kept))
       /\ batch' = IF kept = {} THEN NoBatch
                   ELSE [batch EXCEPT !.at = "send", !.users = kept]
  /\ Untouched /\ UNCHANGED <<wait, list, cursor, retry>>

(* The batch is executed, for all or some of its users; the receipt tells  *)
(* which.                                                                  *)
Executed(S) == wait' = [u \in Users |-> IF u \in S \ off THEN CADENCE ELSE wait[u]]
SendBatch ==
  /\ batch.at = "send"
  /\ \E done \in SUBSET batch.users :
       /\ (done = batch.users /\ UNCHANGED rewardFaults) \/ (done # batch.users /\ RewardFault)
       /\ Executed(done)
       /\ batch' = IF done = batch.users \/ pool = "lp" THEN NoBatch
                   ELSE [batch EXCEPT !.at = "single", !.left = batch.users \ done]
  /\ Untouched /\ UNCHANGED <<list, cursor, deferred, retry>>

(* sendContractTx skips: the keeper is stopped, for every user of the      *)
(* batch.  The shareholders' task queues them all.                         *)
SkipBatch ==
  /\ batch.at = "send" /\ RewardFault /\ batch' = NoBatch
  /\ deferred' = IF pool = "lp" THEN deferred
                 ELSE ReDefer(deferred, batch.users \cup batch.drained)
  /\ Untouched /\ UNCHANGED <<wait, list, cursor, retry>>

(* A shareholder the batch passed over is tried alone.                     *)
NextSingle == CHOOSE u \in batch.left : \A v \in batch.left : u <= v
AfterSingle ==
  batch' = IF batch.left = {NextSingle} THEN NoBatch
           ELSE [batch EXCEPT !.left = @ \ {NextSingle}]
CompoundOne ==
  /\ batch.at = "single" /\ AfterSingle
  /\ \/ Executed({NextSingle}) /\ UNCHANGED <<retry, rewardFaults>>
     \/ RewardFault /\ retry' = [retry EXCEPT ![NextSingle] = RETRY] /\ UNCHANGED wait
  /\ Untouched /\ UNCHANGED <<list, cursor, deferred>>

(* A stop met here holds for the rest, which are queued with this one.     *)
LatchStop ==
  /\ batch.at = "single" /\ RewardFault /\ batch' = NoBatch
  /\ deferred' = ReDefer(deferred, batch.left)
  /\ Untouched /\ UNCHANGED <<wait, list, cursor, retry>>

(* An error of the send, a time-out or the end of the process.             *)
BatchDies ==
  /\ batch.at # "idle" /\ RewardFault /\ batch' = NoBatch
  /\ Untouched /\ UNCHANGED <<wait, list, cursor, deferred, retry>>

(* A user opts out while the keeper works.                                 *)
OptOut(u) ==
  /\ off = {} /\ off' = {u}
  /\ UNCHANGED <<pool, stuck, wait, list, cursor, deferred, retry, batch, rewardFaults>>

RewardStep ==
  \/ SelectBatch \/ SelectBatchLp \/ Shrink \/ SendBatch \/ SkipBatch
  \/ CompoundOne \/ LatchStop

RewardNext == RewardStep \/ BatchDies \/ \E u \in Users : OptOut(u)

(* The daemon starts the task again and again; its calls have time-outs.   *)
RewardFairness == WF_rewardVars(RewardStep)

RewardSpec == RewardInit /\ [][RewardNext]_rewardVars /\ RewardFairness

-----------------------------------------------------------------------------
(* type invariant *)
RewardTypeOK ==
  /\ pool \in {"shareholders", "lp"} /\ off \subseteq Users /\ stuck \subseteq Users
  /\ wait \in [Users -> 0..CADENCE] /\ retry \in [Users -> 0..RETRY]
  /\ list \in Seq(Users) /\ IsInjective(list)
  /\ cursor \in Nat /\ (list # <<>> => cursor < Len(list))
  /\ deferred \in Seq(Users) /\ IsInjective(deferred)
  /\ batch \in [at : {"idle", "shrink", "send", "single"}, users : SUBSET Users,
                drained : SUBSET Users, left : SUBSET Users]
  /\ batch.left \subseteq batch.users /\ (batch.at # "single" => batch.left = {})
  /\ rewardFaults \in 0..MaxRewardFaults

(* Every user with a sound lock who stays opted in is compounded again and *)
(* again: neither the cursor that moves past the users a full batch leaves *)
(* out, nor bad locks, dead runs or removals leave one out for good.       *)
EveryoneIsCompounded == \A u \in Users : (wait[u] = 0 /\ u \notin stuck) ~> (wait[u] > 0 \/ u \in off)

(* A shareholder taken from the queue into a batch gets what the queue is  *)
(* for: when the keeper's own stop ends the run, the user is in the queue  *)
(* again, ahead of the round, and so are those a stop finds not yet tried  *)
(* alone; and no user who waits there is overtaken                         *)
(* (compound_shareholders.ts:141).                                         *)
StoppedKeepTheirPlace ==
  [][(pool = "shareholders" /\ (Shrink \/ SkipBatch \/ LatchStop)) =>
       /\ \A u \in IF batch.at = "single" THEN batch.left ELSE batch.drained :
            u \in batch'.users \/ u \in ToSet(deferred')
       /\ SubSeq(deferred', 1, Len(deferred)) = deferred]_rewardVars
=============================================================================
