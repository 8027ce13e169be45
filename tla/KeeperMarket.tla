---------------------------- MODULE KeeperMarket ----------------------------
(***************************************************************************)
(* The keeper's market tasks: autoFurnace (sweep_market.ts) executes the   *)
(* bonus-target offers, expireOffers (expire_offers.ts) cancels the        *)
(* expired ones, and sweepListings (sweep_listings.ts) sells listed locks  *)
(* to the Furnace and cancels the expired listings.                        *)
(*                                                                         *)
(* The ids come from the worklist of KeeperScan, in ascending order; an id *)
(* that fails is left alone for a while, longer each time.  One step is    *)
(* what a task does between two calls of the chain.                        *)
(***************************************************************************)
EXTENDS Integers, FiniteSets

CONSTANTS
  ITEMS,      \* how many offers, or listings, there are
  MAXITEMS,   \* maxOffers, maxListings, maxExpireOffers
  INITIAL, MAXBACKOFF, \* the shortest and the longest backoff, in ticks
  SWEEPEVERY,   \* ticks between two runs of a task
  MaxMoves,   \* bound on what owners and prices do
  MaxMarketFaults

ASSUME KeeperMarketAssumption ==
  /\ ITEMS \in Nat /\ MAXITEMS \in Nat \ {0} /\ SWEEPEVERY \in Nat \ {0}
  /\ INITIAL \in Nat \ {0} /\ MAXBACKOFF \in Nat /\ INITIAL <= MAXBACKOFF
  /\ MaxMoves \in Nat /\ MaxMarketFaults \in Nat

Items == 1..ITEMS

VARIABLES
  market,   \* "offers" or "listings"
  item,     \* on the chain: "open", "expired" or "gone"
  ready,    \* "yes": its execution would succeed now; "quoted": the quote of
            \*   a listing is high enough, but the sale reverts
  failures, \* the file's record of an id: count and what is left of its
  cool,     \*   cooldown
  sweep,    \* the run under way: [at, queue, expired]
  moves, marketFaults

marketVars == <<market, item, ready, failures, cool, sweep, moves, marketFaults>>

(* Nobody asks for the quote of an offer before its preflight.             *)
Prospects == IF market = "listings" THEN {"yes", "quoted", "no"} ELSE {"yes", "no"}
Asleep == [at |-> "idle", queue |-> {}, expired |-> {}]

MarketInit ==
  /\ market \in {"offers", "listings"}
  /\ item = [i \in Items |-> "open"] /\ ready \in [Items -> Prospects]
  /\ failures = [i \in Items |-> 0] /\ cool = [i \in Items |-> 0]
  /\ sweep = Asleep /\ moves = 0 /\ marketFaults = 0

MarketFault == marketFaults < MaxMarketFaults /\ marketFaults' = marketFaults + 1

(* The first ids of a set: what the loops up to maxOffers take.            *)
FirstItems(S) == {i \in S : Cardinality({j \in S : j < i}) < MAXITEMS}

(* computeExponentialBackoffDelayMs; the count stops at the largest delay. *)
Backoff(n) == IF INITIAL * 2 ^ (n - 1) < MAXBACKOFF THEN INITIAL * 2 ^ (n - 1) ELSE MAXBACKOFF
FailureCount(n) == IF n > 0 /\ Backoff(n) = MAXBACKOFF THEN n ELSE n + 1

(* The record of a failure is saved at once; a success removes it.         *)
FlatBackoffMutant(i) ==
  /\ failures' = [failures EXCEPT ![i] = FailureCount(@)]
  /\ cool' = [cool EXCEPT ![i] = INITIAL]
RecordFailure(i) ==
  /\ failures' = [failures EXCEPT ![i] = FailureCount(@)]
  /\ cool' = [cool EXCEPT ![i] = Backoff(FailureCount(failures[i]))]
KeepFailures == UNCHANGED <<failures, cool>>

(* A run starts when the others' time has passed.                          *)
CoolNow == [i \in Items |-> IF cool[i] > SWEEPEVERY THEN cool[i] - SWEEPEVERY ELSE 0]
Listed  == {i \in Items : item[i] # "gone"}
InCooldown(c) == {i \in Listed : c[i] > 0}

(* filterEligibleAutoFurnaceOffers: active, funded and not expired; it     *)
(* does not ask whether the execution would succeed.                       *)
EligibleOffers(S) == FirstItems({i \in S : item[i] = "open"})

(* filterEligibleListings: the quote must be what the seller asks for.     *)
EligibleListings(S) == FirstItems({i \in S : item[i] = "open" /\ ready[i] # "no"})
ExpiredListings(S)  == FirstItems({i \in S : item[i] = "expired"})

(* filterExpiredOffers.                                                    *)
ExpiredOffersMutant(S) == {i \in FirstItems(S) : item[i] = "expired"}
ExpiredOffers(S) == FirstItems({i \in S : item[i] = "expired"})

-----------------------------------------------------------------------------
Quiet == UNCHANGED <<market, item, ready, moves>>

(* A sweep of the offers: those in cooldown are passed over before the     *)
(* first maxOffers are taken.                                              *)
BeginMarketSweep ==
  /\ market = "offers" /\ sweep.at = "idle"
  /\ cool' = CoolNow /\ UNCHANGED <<failures, marketFaults>> /\ Quiet
  /\ LET eligible == EligibleOffers(Listed \ InCooldown(CoolNow)) IN
     sweep' = IF eligible = {} THEN Asleep
              ELSE [Asleep EXCEPT !.at = "next", !.queue = eligible]

(* A sweep of the listings.  An expired listing is cancelled even when it  *)
(* is in cooldown.                                                         *)
BeginListingSweep ==
  /\ market = "listings" /\ sweep.at = "idle"
  /\ cool' = CoolNow /\ UNCHANGED <<failures, marketFaults>> /\ Quiet
  /\ LET awake    == Listed \ InCooldown(CoolNow)
         expired  == ExpiredListings(awake) \cup {i \in InCooldown(CoolNow) : item[i] = "expired"}
         eligible == EligibleListings(awake)
     IN sweep' = IF expired # {} THEN [at |-> "cancel", queue |-> eligible, expired |-> expired]
                 ELSE IF eligible # {} THEN [Asleep EXCEPT !.at = "next", !.queue = eligible]
                 ELSE Asleep

(* The expired offers; expire_offers.json never holds a failure.           *)
BeginExpireOffers ==
  /\ market = "offers" /\ sweep.at = "idle"
  /\ KeepFailures /\ UNCHANGED marketFaults /\ Quiet
  /\ LET expired == ExpiredOffers(Listed) IN
     sweep' = IF expired = {} THEN Asleep
              ELSE [Asleep EXCEPT !.at = "cancel", !.expired = expired]

Onward(queue) == IF queue = {} THEN Asleep ELSE [Asleep EXCEPT !.at = "next", !.queue = queue]

Gone(S) == item' = [i \in Items |-> IF i \in S /\ item[i] = "expired" THEN "gone" ELSE item[i]]
Forgotten(S) ==
  /\ failures' = [i \in Items |-> IF i \in S THEN 0 ELSE failures[i]]
  /\ cool' = [i \in Items |-> IF i \in S THEN 0 ELSE cool[i]]

(* One transaction cancels the batch: the router passes over an entry that *)
(* is no longer there.  A skip ends the sweep, an error only the batch.    *)
CancelExpiredListings ==
  /\ market = "listings" /\ sweep.at = "cancel"
  /\ \/ /\ Gone(sweep.expired) /\ Forgotten(sweep.expired)
        /\ sweep' = Onward(sweep.queue) /\ UNCHANGED marketFaults
     \/ MarketFault /\ sweep' \in {Asleep, Onward(sweep.queue)} /\ KeepFailures /\ UNCHANGED item
  /\ UNCHANGED <<market, ready, moves>>

CancelExpiredOffers ==
  /\ market = "offers" /\ sweep.at = "cancel" /\ sweep' = Asleep /\ KeepFailures
  /\ \/ Gone(sweep.expired) /\ UNCHANGED marketFaults
     \/ MarketFault /\ UNCHANGED item
  /\ UNCHANGED <<market, ready, moves>>

(* The id the loop is at, and the rest of the queue.                       *)
Current == CHOOSE i \in sweep.queue : \A j \in sweep.queue : i <= j
Rest    == Onward(sweep.queue \ {Current})
Executes(i) == item[i] = "open" /\ ready[i] = "yes"
Reverts(i)  == ~Executes(i)

(* The preflight of the id: a revert is recorded as a failure, any other   *)
(* error ends the task.                                                    *)
Preflight ==
  /\ sweep.at = "next"
  /\ \/ /\ Executes(Current) /\ sweep' = [sweep EXCEPT !.at = "recheck"]
        /\ KeepFailures /\ UNCHANGED marketFaults
     \/ Reverts(Current) /\ RecordFailure(Current) /\ sweep' = Rest /\ UNCHANGED marketFaults
     \/ MarketFault /\ sweep' = Asleep /\ KeepFailures
  /\ Quiet

(* Once more before the transaction: a revert now is not recorded, and an  *)
(* error of the node is taken for a success.                               *)
RecheckItem ==
  /\ sweep.at = "recheck" /\ KeepFailures /\ Quiet
  /\ \/ Executes(Current) /\ sweep' = [sweep EXCEPT !.at = "send"] /\ UNCHANGED marketFaults
     \/ Reverts(Current) /\ sweep' = Rest /\ UNCHANGED marketFaults
     \/ Reverts(Current) /\ MarketFault /\ sweep' = [sweep EXCEPT !.at = "send"]

(* sendContractTx: executed; or a skip, of this id or of all of them; or a *)
(* failure, which is recorded, and the loop goes on.                       *)
SettleItem ==
  /\ sweep.at = "send" /\ Executes(Current)
  /\ item' = [item EXCEPT ![Current] = "gone"] /\ Forgotten({Current})
  /\ sweep' = Rest /\ UNCHANGED <<market, ready, moves, marketFaults>>

SettleSkipped ==
  /\ sweep.at = "send" /\ MarketFault /\ sweep' \in {Rest, Asleep}
  /\ KeepFailures /\ Quiet

SettleFails ==
  /\ sweep.at = "send"
  /\ (Reverts(Current) /\ UNCHANGED marketFaults) \/ MarketFault
  /\ RecordFailure(Current) /\ sweep' = Rest /\ Quiet

SweepStep == Preflight \/ RecheckItem \/ SettleItem \/ SettleSkipped \/ SettleFails

-----------------------------------------------------------------------------
(* Owners, buyers, prices, and the end of a run anywhere.                  *)
Move(i) ==
  /\ moves < MaxMoves /\ moves' = moves + 1 /\ item[i] # "gone"
  /\ \/ \E p \in Prospects \ {ready[i]} : ready' = [ready EXCEPT ![i] = p] /\ UNCHANGED item
     \/ item[i] = "open" /\ item' = [item EXCEPT ![i] = "expired"] /\ UNCHANGED ready
     \/ item' = [item EXCEPT ![i] = "gone"] /\ UNCHANGED ready
  /\ UNCHANGED <<market, failures, cool, sweep, marketFaults>>

RunDies == sweep.at # "idle" /\ MarketFault /\ sweep' = Asleep /\ KeepFailures /\ Quiet

MarketNext ==
  \/ BeginMarketSweep \/ BeginListingSweep \/ BeginExpireOffers
  \/ CancelExpiredListings \/ CancelExpiredOffers \/ SweepStep
  \/ (\E i \in Items : Move(i)) \/ RunDies

(* Every task that is due has its turn in the daemon's loop, and a run goes *)
(* on: its calls have time-outs.                                           *)
MarketFairness ==
  /\ SF_marketVars(BeginMarketSweep) /\ SF_marketVars(BeginListingSweep)
  /\ SF_marketVars(BeginExpireOffers)
  /\ WF_marketVars(CancelExpiredListings \/ CancelExpiredOffers)
  /\ WF_marketVars(SweepStep)

MarketSpec == MarketInit /\ [][MarketNext]_marketVars /\ MarketFairness

-----------------------------------------------------------------------------
(* type invariant *)
MarketTypeOK ==
  /\ market \in {"offers", "listings"} /\ item \in [Items -> {"open", "expired", "gone"}]
  /\ ready \in [Items -> Prospects] /\ failures \in [Items -> 0..MAXBACKOFF]
  /\ cool \in [Items -> 0..MAXBACKOFF]
  /\ sweep.at \in {"idle", "cancel", "next", "recheck", "send"}
  /\ sweep.queue \subseteq Items /\ sweep.expired \subseteq Items
  /\ Cardinality(sweep.queue) <= MAXITEMS
  /\ moves \in 0..MaxMoves /\ marketFaults \in 0..MaxMarketFaults

(* An offer or listing that can be executed is executed in the end, though *)
(* those before it revert each time they are tried: the backoff of each    *)
(* grows until it takes one turn in many (sweep_market.ts:316).  It does   *)
(* not grow beyond MAXBACKOFF, so that enough of them, with as many turns  *)
(* as there are until the first is tried again, still stand before the     *)
(* others.  An expired one is cancelled, whatever stands before it and     *)
(* whether or not it is in cooldown.                                       *)
Reach == MAXITEMS * ((MAXBACKOFF + SWEEPEVERY - 1) \div SWEEPEVERY)
MarketIsCleared ==
  []<>(\A i \in Items : item[i] # "expired" /\ (i <= Reach => ~Executes(i)))
=============================================================================
