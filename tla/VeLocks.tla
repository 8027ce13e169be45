------------------------------- MODULE VeLocks -------------------------------
(***************************************************************************)
(* The lock table of VeClaimNFT: who holds which vote-escrow lock, over    *)
(* how much CLAIM, until when.  A lock's weight decays linearly to nothing *)
(* at lockEnd, unless it is AutoMax: then it is perpetually of full weight *)
(* and its lockEnd, which is only ever refreshed, is not read; it is kept  *)
(* here as 0.  An expired lock stays in the table, without weight, until   *)
(* its owner unlocks it.                                                   *)
(*                                                                         *)
(* One operation per mutator, each with its guards.  A listed lock refuses *)
(* all of them: that is a step not taken.  The ve state is up to date      *)
(* (otherwise the mutators revert with CheckpointStale).  Token ids are    *)
(* never compared with those of burned locks, so they are reused here.     *)
(***************************************************************************)
EXTENDS Naturals, FiniteSets, FiniteSetsExt

CONSTANTS
  Users, Tokens, NoLock,
  SHAREHOLDER_WEIGHT_SCALE,            \* SLOPE_SCALE in VeClaimNFT; the same 1e18
  MIN_LOCK_DURATION, MAX_LOCK_DURATION,
  LockAmounts, TopUps,                 \* amounts of CLAIM locked and added
  MaxLockAmount                        \* bound on the amount of one lock

ASSUME VeLocksAssumption ==
  /\ IsFiniteSet(Users) /\ IsFiniteSet(Tokens)
  /\ SHAREHOLDER_WEIGHT_SCALE \in Nat \ {0}
  /\ MIN_LOCK_DURATION \in Nat \ {0}
  /\ MAX_LOCK_DURATION \in Nat /\ MIN_LOCK_DURATION <= MAX_LOCK_DURATION
  /\ LockAmounts \subseteq Nat \ {0} /\ TopUps \subseteq Nat \ {0}
  /\ MaxLockAmount \in Nat
  /\ NoLock \notin [owner : Users, amount : Nat \ {0}, lockEnd : Nat, autoMax : BOOLEAN]

VARIABLES
  now,      \* block.timestamp
  locks     \* token id -> its lock and owner, or NoLock

Lock == [owner : Users, amount : Nat \ {0}, lockEnd : Nat, autoMax : BOOLEAN]
LocksTypeOK == now \in Nat /\ locks \in [Tokens -> Lock \cup {NoLock}]

Held(u)     == {t \in Tokens : locks[t] # NoLock /\ locks[t].owner = u}
IsDecaying(l) == l # NoLock /\ ~ l.autoMax
Mutable(t)  == locks[t] # NoLock /\ (locks[t].autoMax \/ now < locks[t].lockEnd)
Expired(t)  == IsDecaying(locks[t]) /\ locks[t].lockEnd <= now

slopeScaled(amount) == (amount * SHAREHOLDER_WEIGHT_SCALE) \div MAX_LOCK_DURATION

WeightAt(l, ts) ==
  CASE l.autoMax                          -> l.amount * SHAREHOLDER_WEIGHT_SCALE
    [] ~ l.autoMax /\ ts < l.lockEnd      -> slopeScaled(l.amount) * (l.lockEnd - ts)
    [] ~ l.autoMax /\ l.lockEnd <= ts     -> 0

Total(f, S)     == MapThenSumSet(LAMBDA x : f[x], S)
UserWeight(u)   == Total([t \in Held(u) |-> WeightAt(locks[t], now)], Held(u))
LiveWeight      == Total([u \in Users |-> UserWeight(u)], Users)

-----------------------------------------------------------------------------
CreateLock(u, t, amount, duration, autoMax) ==
  /\ locks[t] = NoLock
  /\ duration \in MIN_LOCK_DURATION .. MAX_LOCK_DURATION
  /\ autoMax => duration = MAX_LOCK_DURATION
  /\ locks' = [locks EXCEPT ![t] =
                 [owner |-> u, amount |-> amount, autoMax |-> autoMax,
                  lockEnd |-> IF autoMax THEN 0 ELSE now + duration]]

AddToLock(t, amount) ==
  /\ Mutable(t)
  /\ locks[t].amount + amount <= MaxLockAmount
  /\ locks' = [locks EXCEPT ![t].amount = @ + amount]

ExtendLock(t, newEnd) ==
  /\ Mutable(t) /\ ~ locks[t].autoMax
  /\ newEnd > locks[t].lockEnd
  /\ newEnd <= now + MAX_LOCK_DURATION
  /\ locks' = [locks EXCEPT ![t].lockEnd = newEnd]

SetAutoMax(t, enabled) ==
  /\ Mutable(t) /\ locks[t].autoMax # enabled
  /\ locks' = [locks EXCEPT ![t].autoMax = enabled,
                            ![t].lockEnd = IF enabled THEN 0 ELSE now + MAX_LOCK_DURATION]

(* The longer of the two ends survives; AutoMax on either side wins. *)
MergeLocks(from, into) ==
  /\ from # into /\ Mutable(from) /\ Mutable(into)
  /\ locks[from].owner = locks[into].owner
  /\ locks[from].amount + locks[into].amount <= MaxLockAmount
  /\ LET autoMax == locks[from].autoMax \/ locks[into].autoMax
     IN  locks' = [locks EXCEPT
           ![from] = NoLock,
           ![into] = [owner   |-> locks[into].owner,
                      amount  |-> locks[from].amount + locks[into].amount,
                      autoMax |-> autoMax,
                      lockEnd |-> CASE autoMax -> 0
                                    [] ~ autoMax /\ locks[into].lockEnd >= locks[from].lockEnd
                                         -> locks[into].lockEnd
                                    [] ~ autoMax /\ locks[into].lockEnd < locks[from].lockEnd
                                         -> locks[from].lockEnd]]

Unlock(t) ==
  /\ Expired(t)
  /\ locks' = [locks EXCEPT ![t] = NoLock]

(* MarketRouter hands the lock to the Furnace, which burns it in the same
   transaction. *)
SellLock(t) ==
  /\ Mutable(t)
  /\ locks' = [locks EXCEPT ![t] = NoLock]
=============================================================================
