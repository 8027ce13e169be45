---------------------------- MODULE MarketRouter ----------------------------
(***************************************************************************)
(* The lock market: listings and bonus-target escrows of MarketRouter.sol  *)
(* over the locks of VeClaimNFT.sol, with the router that the ve contract  *)
(* obeys replaced and put back.  Each transaction is one action.  Blocks   *)
(* are instants: Tick begins the next one.  What a block emitted is kept   *)
(* until then, for those who index it.                                     *)
(***************************************************************************)
EXTENDS Integers, Sequences, FiniteSets, SequencesExt

CONSTANTS
  Users, Locks, Offers,
  Owner,        \* the router's owner, who may settle as keepers may
  Amounts,      \* principals of new locks and top-ups
  Durations,    \* lock durations asked for
  Ttls,         \* times to live of listings and escrows
  Budgets,      \* CLAIM escrowed by an offer
  Bonus,        \* CLAIM the Furnace adds to an executed offer
  MINLOCK, MAXLOCK, MAXTTL, GRACE, EMERGENCYAGE,
  MaxTime, MaxAmount, MaxCalls, MaxRewires

ASSUME MarketAssumption ==
  /\ Owner \in Users
  /\ Amounts \cup Durations \cup Ttls \cup Budgets \subseteq Nat \ {0}
  /\ {Bonus, GRACE, EMERGENCYAGE, MaxTime, MaxAmount, MaxCalls, MaxRewires} \subseteq Nat
  /\ MINLOCK \in Nat \ {0} /\ MAXLOCK \in Nat /\ MINLOCK <= MAXLOCK /\ MAXTTL \in Nat \ {0}

VARIABLES
  now,            \* block.timestamp; also block.number
  lock,           \* ve: [owner, amount, end, auto, listed]
  minted,         \* ve: locks that were ever minted
  router,         \* ve.mineMarket: "this" router or an "other"
  paused,         \* tradingPaused
  keepers,        \* isSettlementKeeper
  minBudget,      \* minBonusTargetEscrowBudget
  listing,        \* listings: [seller, minOut, listedAt, expires, active]
  cool,           \* lastListingActionBlock
  userListings,   \* _userListings, and each lock's index plus one
  listingIndex,
  offer,          \* offers: [buyer, funds, createdAt, expires, dest, auto, duration, active]
  userOffers,     \* _userBonusTargetEscrows, and each offer's index plus one
  offerIndex,
  escrow,         \* CLAIM the router holds
  emitted,        \* events of the current block
  calls, rewires

veVars == <<lock, minted>>
listingVars == <<listing, cool, userListings, listingIndex>>
offerVars == <<offer, userOffers, offerIndex, escrow>>
settingVars == <<paused, keepers, minBudget>>
marketVars == <<now, veVars, router, settingVars, listingVars, offerVars, emitted, calls, rewires>>

NoOne == "none"
FURNACE == "furnace"
ASSUME PartiesAssumption == NoOne \notin Users \cup Locks /\ IsFiniteSet(Offers)
NoLock == [owner |-> NoOne, amount |-> 0, end |-> 0, auto |-> FALSE, listed |-> FALSE]
NoListing == [seller |-> NoOne, minOut |-> 0, listedAt |-> 0, expires |-> 0, active |-> FALSE]
NoOffer == [buyer |-> NoOne, funds |-> 0, createdAt |-> 0, expires |-> 0, dest |-> NoOne,
            auto |-> FALSE, duration |-> 0, active |-> FALSE]

MarketInit ==
  /\ now = 1 /\ lock = [t \in Locks |-> NoLock] /\ minted = {}
  /\ router = "this" /\ paused = FALSE /\ keepers = {} /\ minBudget = 1
  /\ listing = [t \in Locks |-> NoListing] /\ cool = [t \in Locks |-> 0]
  /\ userListings = [u \in Users |-> <<>>] /\ listingIndex = [t \in Locks |-> 0]
  /\ offer = [o \in Offers |-> NoOffer]
  /\ userOffers = [u \in Users |-> <<>>] /\ offerIndex = [o \in Offers |-> 0]
  /\ escrow = 0 /\ emitted = <<>> /\ calls = 0 /\ rewires = 0

(* Every transaction, with what it emits; there are at most MaxCalls.      *)
Emit(events) == calls < MaxCalls /\ calls' = calls + 1 /\ emitted' = emitted \o events

-----------------------------------------------------------------------------
(* Locks.                                                                  *)
EndOf(t) == IF lock[t].auto THEN now + MAXLOCK ELSE lock[t].end  \* getLockInfo
Mutable(t) == ~lock[t].listed /\ (lock[t].auto \/ now < lock[t].end)

Created(t, u, a, e, auto) == [k |-> "LockCreated", t |-> t, u |-> u, a |-> a, e |-> e, auto |-> auto]
Topped(t, u, a)      == [k |-> "LockAmountIncreased", t |-> t, u |-> u, a |-> a]
Burned(t, u)         == [k |-> "Transfer", t |-> t, from |-> u, to |-> NoOne]
Unlocked(t, u, a)    == [k |-> "LockUnlocked", t |-> t, u |-> u, a |-> a]
Delisted(t, u)       == [k |-> "LockDelisted", t |-> t, u |-> u]

NewLock(t, u, a, d, auto) ==
  lock' = [lock EXCEPT ![t] = [owner |-> u, amount |-> a,
             end |-> now + (IF auto THEN MAXLOCK ELSE d), auto |-> auto, listed |-> FALSE]]
MoreIn(t, a) ==
  lock' = [lock EXCEPT ![t].amount = @ + a, ![t].end = IF lock[t].auto THEN now + MAXLOCK ELSE @]

CreateLock(u, t, a, d, auto) ==
  /\ t \notin minted /\ d \in MINLOCK..MAXLOCK /\ (auto => d = MAXLOCK)
  /\ NewLock(t, u, a, d, auto) /\ minted' = minted \cup {t}
  /\ Emit(<<Created(t, u, a, now + d, auto)>>)
  /\ UNCHANGED <<now, router, settingVars, listingVars, offerVars, rewires>>

AddToLock(u, t, a) ==
  /\ lock[t].owner = u /\ Mutable(t) /\ lock[t].amount + a <= MaxAmount
  /\ MoreIn(t, a) /\ Emit(<<Topped(t, u, a)>>)
  /\ UNCHANGED <<now, minted, router, settingVars, listingVars, offerVars, rewires>>

ExtendLock(u, t, e) ==
  /\ lock[t].owner = u /\ Mutable(t)
  /\ IF lock[t].auto THEN e = now + MAXLOCK ELSE e \in lock[t].end + 1..now + MAXLOCK
  /\ lock' = [lock EXCEPT ![t].end = e]
  /\ Emit(<<[k |-> "LockExtended", t |-> t, u |-> u, e |-> e]>>)
  /\ UNCHANGED <<now, minted, router, settingVars, listingVars, offerVars, rewires>>

SetAutoMax(u, t, on) ==
  /\ lock[t].owner = u /\ Mutable(t) /\ (lock[t].auto \/ on)
  /\ lock' = [lock EXCEPT ![t].auto = on, ![t].end = now + MAXLOCK]
  /\ Emit(<<[k |-> "AutoMaxSet", t |-> t, u |-> u, on |-> on]>>)
  /\ UNCHANGED <<now, minted, router, settingVars, listingVars, offerVars, rewires>>

MergeLocks(u, f, t) ==
  /\ f # t /\ {lock[f].owner, lock[t].owner} = {u} /\ Mutable(f) /\ Mutable(t)
  /\ LET auto == lock[f].auto \/ lock[t].auto
         later == IF lock[f].end > lock[t].end THEN lock[f].end ELSE lock[t].end
     IN lock' = [lock EXCEPT ![f] = NoLock, ![t].amount = @ + lock[f].amount, ![t].auto = auto,
                             ![t].end = IF auto THEN now + MAXLOCK ELSE later]
  /\ Emit(<<Burned(f, u), [k |-> "LockMerged", f |-> f, t |-> t, u |-> u, a |-> lock[f].amount]>>)
  /\ UNCHANGED <<now, minted, router, settingVars, listingVars, offerVars, rewires>>

Unlock(u, t) ==
  /\ lock[t].owner = u /\ ~lock[t].listed /\ ~lock[t].auto /\ now >= lock[t].end
  /\ lock' = [lock EXCEPT ![t] = NoLock]
  /\ Emit(<<Burned(t, u), Unlocked(t, u, lock[t].amount)>>)
  /\ UNCHANGED <<now, minted, router, settingVars, listingVars, offerVars, rewires>>

-----------------------------------------------------------------------------
(* The arrays of a user, with the index that makes removal cheap: the last *)
(* entry moves into the hole.                                              *)
Grown(arrays, index, u, x) ==
  IF index[x] # 0 THEN [arrays |-> arrays, index |-> index]
  ELSE [arrays |-> [arrays EXCEPT ![u] = Append(@, x)],
        index |-> [index EXCEPT ![x] = Len(arrays[u]) + 1]]

ShrunkMutant(arrays, index, u, x) ==  \* mutant: the moved entry keeps its old index
  IF index[x] = 0 THEN [arrays |-> arrays, index |-> index]
  ELSE [arrays |-> [arrays EXCEPT ![u] = Front([@ EXCEPT ![index[x]] = Last(arrays[u])])],
        index |-> [index EXCEPT ![x] = 0]]
Shrunk(arrays, index, u, x) ==
  IF index[x] = 0 THEN [arrays |-> arrays, index |-> index]
  ELSE LET end == Last(arrays[u]) IN
       [arrays |-> [arrays EXCEPT ![u] = Front([@ EXCEPT ![index[x]] = end])],
        index |-> [index EXCEPT ![end] = index[x], ![x] = 0]]

(* _clearListing; the ve contract takes the flag off for its router only.  *)
ClearListing(t, u) ==
  /\ listing' = [listing EXCEPT ![t] = NoListing]
  /\ cool' = [cool EXCEPT ![t] = now]
  /\ \E s \in {Shrunk(userListings, listingIndex, u, t)} :
       userListings' = s.arrays /\ listingIndex' = s.index

Cooled(t) == now > cool[t]                \* _enforceListingCooldown
MaySetListed == router = "this"           \* _requireCanonicalMineMarketCaller
Canonical == router = "this"              \* _requireCanonicalFurnace

MayList(u, t, e) ==
  /\ ~paused /\ e > now /\ Cooled(t) /\ lock[t].owner = u
  /\ EndOf(t) > now /\ e <= EndOf(t) /\ ~lock[t].listed /\ MaySetListed
ListLock(u, t, p, e) ==
  /\ MayList(u, t, e)
  /\ listing' = [listing EXCEPT ![t] =
       [seller |-> u, minOut |-> p, listedAt |-> now, expires |-> e, active |-> TRUE]]
  /\ cool' = [cool EXCEPT ![t] = now]
  /\ \E g \in {Grown(userListings, listingIndex, u, t)} :
       userListings' = g.arrays /\ listingIndex' = g.index
  /\ lock' = [lock EXCEPT ![t].listed = TRUE]
  /\ Emit(<<[k |-> "LockListed", t |-> t, u |-> u, p |-> p, at |-> now, e |-> e]>>)
  /\ UNCHANGED <<now, minted, router, settingVars, offerVars, rewires>>

(* The seller takes the listing back, at any time; or the owner of a lock  *)
(* that the ve contract has as listed and this router does not.            *)
NoRescueMutant(u, t) == FALSE
Rescue(u, t) == ~listing[t].active /\ lock[t].owner = u /\ lock[t].listed
MayDelist(u, t) ==
  /\ Cooled(t) /\ MaySetListed
  /\ (listing[t].active /\ listing[t].seller = u /\ lock[t].owner # NoOne) \/ Rescue(u, t)
DelistLock(u, t) ==
  /\ MayDelist(u, t)
  /\ IF listing[t].active THEN ClearListing(t, u)
     ELSE cool' = [cool EXCEPT ![t] = now] /\ UNCHANGED <<listing, userListings, listingIndex>>
  /\ lock' = [lock EXCEPT ![t].listed = FALSE]
  /\ Emit(<<Delisted(t, u)>>)
  /\ UNCHANGED <<now, minted, router, settingVars, offerVars, rewires>>

Expired(t) == listing[t].active /\ now >= listing[t].expires
MayCancelExpired(t) == Cooled(t) /\ Expired(t) /\ MaySetListed /\ lock[t].owner # NoOne
TakeOff(t) ==
  /\ ClearListing(t, listing[t].seller) /\ lock' = [lock EXCEPT ![t].listed = FALSE]
  /\ Emit(<<Delisted(t, listing[t].seller)>>)
  /\ UNCHANGED <<now, minted, router, settingVars, offerVars, rewires>>
CancelExpiredListing(t) == MayCancelExpired(t) /\ TakeOff(t)

(* The batch takes every expired listing it is given, whatever its         *)
(* cooldown; a burned lock makes the whole batch revert.                   *)
CancelExpiredListingBatch(t) == Expired(t) /\ MaySetListed /\ lock[t].owner # NoOne /\ TakeOff(t)

CleanupStaleListing(t) ==
  /\ Cooled(t) /\ listing[t].active /\ ~lock[t].listed
  /\ ClearListing(t, listing[t].seller)
  /\ Emit(<<Delisted(t, listing[t].seller)>>)
  /\ UNCHANGED <<now, veVars, router, settingVars, offerVars, rewires>>

EmergencyDelist(u, t) ==
  /\ Cooled(t) /\ listing[t].active /\ listing[t].seller = u
  /\ now >= listing[t].listedAt + EMERGENCYAGE /\ MaySetListed /\ lock[t].owner # NoOne
  /\ TakeOff(t)

(* A sale: the lock goes to the Furnace, which burns it and pays.          *)
SoldEvents(t, u) ==
  <<[k |-> "Transfer", t |-> t, from |-> u, to |-> FURNACE], [k |-> "LockSoldToFurnace", t |-> t],
    Burned(t, FURNACE), Unlocked(t, FURNACE, lock[t].amount)>>
Gone(t) == lock' = [lock EXCEPT ![t] = NoLock]

MaySell(u, t) ==
  /\ ~paused /\ lock[t].owner = u /\ Canonical /\ lock[t].amount # 0 /\ EndOf(t) > now /\ Cooled(t)
  /\ listing[t].active => listing[t].seller = u
SellLockToFurnace(u, t) ==
  /\ MaySell(u, t)
  /\ IF listing[t].active THEN ClearListing(t, u)
     ELSE cool' = [cool EXCEPT ![t] = now] /\ UNCHANGED <<listing, userListings, listingIndex>>
  /\ Gone(t)
  /\ Emit((IF listing[t].active THEN <<Delisted(t, u)>> ELSE <<>>) \o SoldEvents(t, u)
          \o <<[k |-> "MarketSellToFurnace", t |-> t, u |-> u]>>)
  /\ UNCHANGED <<now, minted, router, settingVars, offerVars, rewires>>

Priority(c, since) == c \in keepers \cup {Owner} \/ now >= since + GRACE
MaySettle(c, t) ==
  /\ ~paused /\ listing[t].active /\ Cooled(t) /\ now < listing[t].expires
  /\ lock[t].owner = listing[t].seller /\ Priority(c, listing[t].listedAt)
  /\ lock[t].amount # 0 /\ lock[t].listed /\ EndOf(t) > now /\ Canonical
SellListedLockToFurnace(c, t) ==
  /\ MaySettle(c, t)
  /\ \E u \in {listing[t].seller} :
       /\ ClearListing(t, u)
       /\ Emit(<<Delisted(t, u)>> \o SoldEvents(t, u) \o <<[k |-> "ListingSettled", t |-> t, u |-> u]>>)
  /\ Gone(t)
  /\ UNCHANGED <<now, minted, router, settingVars, offerVars, rewires>>

-----------------------------------------------------------------------------
(* Bonus-target escrows.                                                   *)
Eligible(u, t, until, auto) ==
  /\ t \in Locks /\ lock[t].owner = u /\ EndOf(t) > now /\ ~lock[t].listed
  /\ (lock[t].auto \/ EndOf(t) - now >= MINLOCK) /\ lock[t].auto = auto /\ EndOf(t) >= until

MayCreateOffer(u, b, d, auto, ttl, dest) ==
  /\ ~paused /\ b >= minBudget /\ Canonical /\ ttl <= MAXTTL
  /\ LET span == IF auto THEN MAXLOCK ELSE d IN
     span \in MINLOCK..MAXLOCK /\ (dest # NoOne => Eligible(u, dest, now + span, auto))
CreateBonusTargetEscrow(u, o, b, d, auto, ttl, dest) ==
  /\ offer[o] = NoOffer /\ MayCreateOffer(u, b, d, auto, ttl, dest)
  /\ offer' = [offer EXCEPT ![o] =
       [buyer |-> u, funds |-> b, createdAt |-> now, expires |-> now + ttl, dest |-> dest,
        auto |-> auto, duration |-> IF auto THEN MAXLOCK ELSE d, active |-> TRUE]]
  /\ escrow' = escrow + b
  /\ \E g \in {Grown(userOffers, offerIndex, u, o)} :
       userOffers' = g.arrays /\ offerIndex' = g.index
  /\ Emit(<<[k |-> "EscrowCreated", o |-> o, u |-> u, b |-> b, at |-> now, e |-> now + ttl, dest |-> dest],
            [k |-> "EscrowConfigured", o |-> o, u |-> u]>>)
  /\ UNCHANGED <<now, veVars, router, settingVars, listingVars, rewires>>

(* The offer is closed and its funds leave.                                *)
CloseAgainMutant(o) ==                    \* mutant: the record keeps its funds and stays active
  /\ escrow' = escrow - offer[o].funds
  /\ \E s \in {Shrunk(userOffers, offerIndex, offer[o].buyer, o)} :
       userOffers' = s.arrays /\ offerIndex' = s.index
  /\ UNCHANGED offer
CloseOffer(o) ==
  /\ offer' = [offer EXCEPT ![o].active = FALSE, ![o].funds = 0]
  /\ escrow' = escrow - offer[o].funds
  /\ \E s \in {Shrunk(userOffers, offerIndex, offer[o].buyer, o)} :
       userOffers' = s.arrays /\ offerIndex' = s.index

MayCancelOffer(u, o) == offer[o].active /\ (offer[o].buyer = u \/ ~Canonical)
CancelBonusTargetEscrow(u, o) ==
  /\ MayCancelOffer(u, o) /\ CloseOffer(o)
  /\ Emit(<<[k |-> "EscrowCancelled", o |-> o, u |-> offer[o].buyer]>>)
  /\ UNCHANGED <<now, veVars, router, settingVars, listingVars, rewires>>

MayCancelExpiredOffer(o) == offer[o].active /\ now >= offer[o].expires
CancelExpiredBonusTargetEscrow(o) ==
  /\ MayCancelExpiredOffer(o) /\ CloseOffer(o)
  /\ Emit(<<[k |-> "EscrowExpired", o |-> o, u |-> offer[o].buyer]>>)
  /\ UNCHANGED <<now, veVars, router, settingVars, listingVars, rewires>>

MayExtendOffer(u, o, e) ==
  /\ ~paused /\ offer[o].active /\ offer[o].buyer = u /\ Canonical /\ now < offer[o].expires
  /\ e > offer[o].expires /\ e <= offer[o].createdAt + MAXTTL
ExtendBonusTargetEscrowExpiry(u, o, e) ==
  /\ MayExtendOffer(u, o, e) /\ offer' = [offer EXCEPT ![o].expires = e]
  /\ Emit(<<[k |-> "EscrowExtended", o |-> o, u |-> u, e |-> e]>>)
  /\ UNCHANGED <<now, veVars, router, settingVars, listingVars, userOffers, offerIndex, escrow, rewires>>

(* An offer whose target the quote meets is entered into the Furnace: into *)
(* the lock it names if that is still eligible, else into a new one.       *)
MayExecute(c, o) ==
  ~paused /\ offer[o].active /\ now < offer[o].expires /\ Priority(c, offer[o].createdAt) /\ Canonical
Destination(o) ==
  IF Eligible(offer[o].buyer, offer[o].dest, now + MINLOCK, offer[o].auto) THEN offer[o].dest ELSE NoOne
Executed(o, route) == [k |-> "EscrowExecuted", o |-> o, u |-> offer[o].buyer, route |-> route]
ExecuteAutoFurnace(c, o) ==
  /\ MayExecute(c, o) /\ CloseOffer(o)
  /\ LET u == offer[o].buyer
         in == offer[o].funds + Bonus
         dest == Destination(o)
     IN IF dest # NoOne
        THEN /\ lock[dest].amount + in <= MaxAmount
             /\ MoreIn(dest, in) /\ UNCHANGED minted
             /\ Emit(<<Topped(dest, u, in), Executed(o, dest)>>)
        ELSE \E t \in Locks \ minted :
               /\ NewLock(t, u, in, offer[o].duration, offer[o].auto) /\ minted' = minted \cup {t}
               /\ Emit(<<Created(t, u, in, now + offer[o].duration, offer[o].auto), Executed(o, NoOne)>>)
  /\ UNCHANGED <<now, router, settingVars, listingVars, rewires>>

-----------------------------------------------------------------------------
(* The guardian, the owners of router and ve contract, the other router    *)
(* and time.                                                               *)
PauseTrading(on) ==
  /\ paused' = on /\ Emit(IF on = paused THEN <<>> ELSE <<[k |-> "TradingPausedChanged", on |-> on]>>)
  /\ UNCHANGED <<now, veVars, router, keepers, minBudget, listingVars, offerVars, rewires>>

SetSettlementKeeper(u, on) ==
  /\ keepers' = (IF on THEN keepers \cup {u} ELSE keepers \ {u})
  /\ Emit(<<[k |-> "SettlementKeeperSet", u |-> u, on |-> on]>>)
  /\ UNCHANGED <<now, veVars, router, paused, minBudget, listingVars, offerVars, rewires>>

SetBonusTargetEscrowParams(b) ==
  /\ b >= minBudget /\ minBudget' = b
  /\ Emit(<<[k |-> "ParamsChanged", b |-> b]>>)
  /\ UNCHANGED <<now, veVars, router, paused, keepers, listingVars, offerVars, rewires>>

SetMineMarket ==
  /\ rewires < MaxRewires /\ rewires' = rewires + 1
  /\ router' = (IF router = "this" THEN "other" ELSE "this")
  /\ Emit(<<>>)
  /\ UNCHANGED <<now, veVars, settingVars, listingVars, offerVars>>

(* The other router lists locks too, and delists those it did not list.    *)
OtherLists(t) ==
  /\ router = "other" /\ lock[t].owner # NoOne /\ ~lock[t].listed /\ EndOf(t) > now
  /\ lock' = [lock EXCEPT ![t].listed = TRUE] /\ Emit(<<>>)
  /\ UNCHANGED <<now, minted, router, settingVars, listingVars, offerVars, rewires>>
OtherDelists(t) ==
  /\ router = "other" /\ lock[t].listed
  /\ lock' = [lock EXCEPT ![t].listed = FALSE] /\ Emit(<<>>)
  /\ UNCHANGED <<now, minted, router, settingVars, listingVars, offerVars, rewires>>

Tick ==
  /\ now < MaxTime /\ now' = now + 1 /\ emitted' = <<>>
  /\ UNCHANGED <<veVars, router, settingVars, listingVars, offerVars, calls, rewires>>

LockCall(u) ==
  \E t \in Locks :
    \/ \E a \in Amounts, d \in Durations, auto \in BOOLEAN : CreateLock(u, t, a, d, auto)
    \/ \E a \in Amounts : AddToLock(u, t, a)
    \/ \E e \in now + 1..now + MAXLOCK : ExtendLock(u, t, e)
    \/ \E on \in BOOLEAN : SetAutoMax(u, t, on)
    \/ \E f \in Locks : MergeLocks(u, f, t)
    \/ Unlock(u, t)

ListingCall(u) ==
  \E t \in Locks :
    \/ \E p \in Amounts, ttl \in Ttls : ListLock(u, t, p, now + ttl)
    \/ DelistLock(u, t) \/ EmergencyDelist(u, t)
    \/ SellLockToFurnace(u, t) \/ SellListedLockToFurnace(u, t)

OfferCall(u) ==
  \E o \in Offers :
    \/ \E b \in Budgets, d \in Durations, auto \in BOOLEAN, ttl \in Ttls, dest \in Locks \cup {NoOne} :
         CreateBonusTargetEscrow(u, o, b, d, auto, ttl, dest)
    \/ CancelBonusTargetEscrow(u, o) \/ ExecuteAutoFurnace(u, o)
    \/ \E e \in now + 1..now + MAXTTL : ExtendBonusTargetEscrowExpiry(u, o, e)

AnyCall ==
  \/ \E t \in Locks : \/ CancelExpiredListing(t) \/ CancelExpiredListingBatch(t)
                      \/ CleanupStaleListing(t) \/ OtherLists(t) \/ OtherDelists(t)
  \/ \E o \in Offers : CancelExpiredBonusTargetEscrow(o)
  \/ \E on \in BOOLEAN : PauseTrading(on) \/ \E u \in Users : SetSettlementKeeper(u, on)
  \/ \E b \in Budgets : SetBonusTargetEscrowParams(b)
  \/ SetMineMarket

MarketNext == Tick \/ AnyCall \/ \E u \in Users : LockCall(u) \/ ListingCall(u) \/ OfferCall(u)
MarketSpec == MarketInit /\ [][MarketNext]_marketVars

-----------------------------------------------------------------------------
(* type invariant *)
MarketTypeOK ==
  /\ now \in 1..MaxTime /\ router \in {"this", "other"} /\ minted \subseteq Locks
  /\ paused \in BOOLEAN /\ keepers \subseteq Users /\ minBudget \in Budgets \cup {1}
  /\ \A t \in Locks : lock[t].owner \in Users \cup {NoOne} /\ lock[t].amount \in 0..2 * MaxAmount
  /\ \A t \in Locks : listing[t].seller \in Users \cup {NoOne} /\ cool[t] \in 0..MaxTime
  /\ \A o \in Offers : offer[o].buyer \in Users \cup {NoOne} /\ offer[o].funds \in Budgets \cup {0}
  /\ escrow \in Int /\ calls \in 0..MaxCalls /\ rewires \in 0..MaxRewires

(* The CLAIM in escrow is what the active offers have, whichever of their  *)
(* ends they come to and in whichever order.                               *)
Total(f, S) == MapThenSumSet(LAMBDA x : f[x], S)
Funds == [o \in Offers |-> offer[o].funds]
OffersAreBacked ==
  /\ escrow = Total(Funds, Offers)
  /\ \A o \in Offers : (offer[o].funds # 0) <=> offer[o].active

(* Each user's array holds exactly the active entries of that user, once,  *)
(* and the index of each says where: swap-and-pop never loses or repeats   *)
(* one.                                                                    *)
Indexed(arrays, index, holder) ==
  /\ \A u \in Users : /\ ToSet(arrays[u]) = {x \in DOMAIN holder : holder[x] = u}
                     /\ IsInjective(arrays[u])
  /\ \A x \in DOMAIN holder :
       holder[x] # NoOne => index[x] \in DOMAIN arrays[holder[x]] /\ arrays[holder[x]][index[x]] = x
ArraysAreIndexed ==
  /\ Indexed(userListings, listingIndex,
             [t \in Locks |-> IF listing[t].active THEN listing[t].seller ELSE NoOne])
  /\ Indexed(userOffers, offerIndex,
             [o \in Offers |-> IF offer[o].active THEN offer[o].buyer ELSE NoOne])

BooksAreKept == OffersAreBacked /\ ArraysAreIndexed

(* A lock that is frozen by its listing can be taken back by its owner one *)
(* block later, paused or not, whatever routers came and went; and only a  *)
(* change of router lets the ve contract and the router disagree on what   *)
(* is listed.                                                              *)
ListedLocksComeBack ==
  \A t \in Locks :
    /\ lock[t].listed /\ router = "this" /\ Cooled(t) => MayDelist(lock[t].owner, t)
    /\ rewires = 0 => (lock[t].listed <=> listing[t].active)
=============================================================================
