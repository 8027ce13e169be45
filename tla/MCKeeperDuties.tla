--------------------------- MODULE MCKeeperDuties ---------------------------
(***************************************************************************)
(* Instances of the keeper's duties for TLC: the lock that keeps it alone, *)
(* the compounding rounds, the poke, the bonuses and checkpoints of locks, *)
(* and the market sweeps.  A behaviour is one of them, for they share no   *)
(* state; the others rest in their first state.                            *)
(***************************************************************************)
EXTENDS KeeperLock, KeeperRewards, KeeperPoke, KeeperLocks, KeeperMarket

VARIABLE duties

dutyVars == <<duties, lockVars, rewardVars, pokeVars, veTaskVars, marketVars>>

DutiesInit ==
  /\ duties \in {"lock", "rewards", "poke", "locks", "market"}
  /\ LockInit /\ (duties # "lock" => hostLocked)
  /\ RewardInit /\ (duties # "rewards" => pool = "lp" /\ stuck = Users)
  /\ PokeInit
  /\ VeTasksInit
  /\ (duties # "locks" => duty = "checkpoint" /\ \A o \in Owners : left[o] = WINDOW + 1)
  /\ MarketInit /\ (duties # "market" => market = "offers" /\ \A i \in Items : ready[i] = "no")

DutiesNext ==
  /\ \/ /\ duties = "lock" /\ LockNext
        /\ UNCHANGED <<rewardVars, pokeVars, veTaskVars, marketVars>>
     \/ /\ duties = "rewards" /\ RewardNext
        /\ UNCHANGED <<lockVars, pokeVars, veTaskVars, marketVars>>
     \/ /\ duties = "poke" /\ PokeNext
        /\ UNCHANGED <<lockVars, rewardVars, veTaskVars, marketVars>>
     \/ /\ duties = "locks" /\ VeTasksNext
        /\ UNCHANGED <<lockVars, rewardVars, pokeVars, marketVars>>
     \/ /\ duties = "market" /\ MarketNext
        /\ UNCHANGED <<lockVars, rewardVars, pokeVars, veTaskVars>>
  /\ UNCHANGED duties

(* Each has the fairness of its own specification.                         *)
DutiesFairness ==
  /\ \A p \in Keepers : /\ WF_lockVars(duties = "lock" /\ Runs(p))
                        /\ WF_lockVars(duties = "lock" /\ Resume(p))
  /\ WF_lockVars(duties = "lock" /\ Tick)
  /\ WF_rewardVars(duties = "rewards" /\ RewardStep)
  /\ WF_pokeVars(duties = "poke" /\ PokeStep)
  /\ WF_veTaskVars(duties = "locks" /\ LockStep)
  /\ SF_marketVars(duties = "market" /\ BeginMarketSweep)
  /\ SF_marketVars(duties = "market" /\ BeginListingSweep)
  /\ SF_marketVars(duties = "market" /\ BeginExpireOffers)
  /\ WF_marketVars(duties = "market" /\ (CancelExpiredListings \/ CancelExpiredOffers))
  /\ WF_marketVars(duties = "market" /\ SweepStep)

DutiesSpec == DutiesInit /\ [][DutiesNext]_dutyVars /\ DutiesFairness

(* Every user is compounded again and again, the share of every reign is   *)
(* flushed, the bonus of every lock whose owner finds room is claimed, and *)
(* so is whatever has expired, or can be executed and is within reach.     *)
NobodyIsLeftOut ==
  EveryoneIsCompounded /\ EveryReignIsFlushed /\ BonusIsClaimed /\ MarketIsCleared
=============================================================================
