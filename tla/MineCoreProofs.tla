--------------------------- MODULE MineCoreProofs ---------------------------
(***************************************************************************)
(* Proofs about MineCore for any accounts, sessions, failures, bounds and  *)
(* protocol constants.  The inductive invariant falls into blocks that     *)
(* talk about different variables and are proved one after the other:      *)
(*   ReignInv   reigns, pauses and the accrual cursor                      *)
(*   WindowInv  the rolling takeover window                                *)
(*   EthInv     the ETH buckets                                            *)
(*   ClaimInv   the CLAIM buckets                                          *)
(* The lock route MineCore extends comes first, with an invariant of its   *)
(* own: a pin is always a lock the route itself minted for that recipient, *)
(* and without a selection no settlement mints a second lock while the     *)
(* pinned one can still take the CLAIM.                                    *)
(***************************************************************************)
EXTENDS MineCore, FiniteSetTheorems, TLAPS

-----------------------------------------------------------------------------
(* The lock route.                                                         *)
RouteInv == LockTypeOK /\ PinsAreRouteLocks

LEMMA LockInitEstablishes == LockInit => RouteInv
  BY LockAssumption DEF LockInit, RouteInv, LockTypeOK, PinsAreRouteLocks, LockIds, NoLock,
         Lock, Terms

(* A mint leaves every older lock alone. *)
LEMMA MintSafe ==
  ASSUME LockTypeOK, NEW a \in Accounts, NEW term \in Terms,
         NEW byRoute \in BOOLEAN, Mint(a, term, byRoute)
  PROVE  /\ locks' \in [LockIds -> Lock] /\ nextTokenId' \in 1 .. MaxLocks + 1
         /\ \A t \in LockIds : t < nextTokenId => locks'[t] = locks[t]
         /\ locks'[nextTokenId].owner = a /\ locks'[nextTokenId].routed = byRoute
         /\ nextTokenId' = nextTokenId + 1 /\ nextTokenId \in LockIds
  BY LockAssumption DEF LockTypeOK, Mint, LockIds, Lock

LEMMA RouteStep ==
  ASSUME RouteInv, NEW a \in Accounts,
         RouteClaimToLock(a) \/ RouteClaimFails(a)
  PROVE  RouteInv'
<1> USE DEF RouteInv, LockTypeOK, PinsAreRouteLocks, NoLock, LockIds
<1>1. PinAfterResolve(a) \in {NoLock, kingAutoLockConfig[a].pinnedTokenId}
  BY DEF PinAfterResolve
<1>2. CASE RouteClaimFails(a)
  BY <1>1, <1>2 DEF RouteClaimFails, SetPin
<1>3. CASE RouteClaimToLock(a) /\ Destination(a) # NoLock
  BY <1>3 DEF RouteClaimToLock, lockVars
<1>4. CASE RouteClaimToLock(a) /\ Destination(a) = NoLock
  <2>1. Mint(a, "autoMax", TRUE)
    BY <1>4 DEF RouteClaimToLock
  <2>2. /\ locks' \in [LockIds -> Lock] /\ nextTokenId' \in 1 .. MaxLocks + 1
        /\ \A t \in LockIds : t < nextTokenId => locks'[t] = locks[t]
        /\ locks'[nextTokenId].owner = a /\ locks'[nextTokenId].routed = TRUE
        /\ nextTokenId' = nextTokenId + 1 /\ nextTokenId \in LockIds
    BY <2>1, MintSafe DEF Terms
  <2>3. kingAutoLockConfig' = [kingAutoLockConfig EXCEPT ![a].pinnedTokenId =
          IF PinAfterResolve(a) = NoLock THEN nextTokenId ELSE PinAfterResolve(a)]
    BY <1>4 DEF RouteClaimToLock, SetPin
  <2>4. LockTypeOK'
    <3> DEFINE pin == IF PinAfterResolve(a) = NoLock THEN nextTokenId ELSE PinAfterResolve(a)
    <3>1. pin \in LockIds \cup {NoLock}
      BY <1>1, <2>2
    <3>2. kingAutoLockConfig' = [kingAutoLockConfig EXCEPT ![a].pinnedTokenId = pin]
      BY <2>3
    <3> HIDE DEF pin
    <3> QED BY <2>2, <3>1, <3>2
  <2>5. PinsAreRouteLocks'
    <3> SUFFICES ASSUME NEW b \in Accounts, kingAutoLockConfig'[b].pinnedTokenId # NoLock
                 PROVE  LET t == kingAutoLockConfig'[b].pinnedTokenId
                        IN  /\ t < nextTokenId' /\ locks'[t].routed
                            /\ locks'[t].owner \in {b, NoOne}
      OBVIOUS
    <3>1. CASE kingAutoLockConfig'[b].pinnedTokenId = kingAutoLockConfig[b].pinnedTokenId
      BY <2>2, <3>1
    <3>2. CASE kingAutoLockConfig'[b].pinnedTokenId # kingAutoLockConfig[b].pinnedTokenId
      <4>1. b = a /\ kingAutoLockConfig'[b].pinnedTokenId = nextTokenId
        BY <1>1, <2>3, <3>2
      <4> QED BY <4>1, <2>2
    <3> QED BY <3>1, <3>2
  <2> QED BY <2>4, <2>5
<1> QED BY <1>2, <1>3, <1>4

(* What the owners of locks do never turns a pinned lock into someone else's. *)
LEMMA SetLockSafe ==
  ASSUME RouteInv, NEW t \in LockIds, NEW lock \in Lock,
         lock.routed = locks[t].routed, lock.owner \in {locks[t].owner, NoOne},
         SetLock(t, lock)
  PROVE  RouteInv'
  BY DEF RouteInv, LockTypeOK, PinsAreRouteLocks, SetLock, Lock

LEMMA ConfigStep ==
  ASSUME RouteInv, NEW caller \in Accounts, NEW user \in Accounts,
         DisableKingAutoLock(caller, user) \/
           (\E t \in LockIds \cup {NoLock} : SelectKingLock(caller, user, t))
  PROVE  RouteInv'
  BY DEF RouteInv, LockTypeOK, PinsAreRouteLocks, DisableKingAutoLock, SelectKingLock, NoLock

LEMMA UserCreatesStep ==
  ASSUME RouteInv, NEW a \in Accounts, NEW term \in Terms, UserCreatesLock(a, term)
  PROVE  RouteInv'
<1>1. /\ locks' \in [LockIds -> Lock] /\ nextTokenId' \in 1 .. MaxLocks + 1
      /\ \A t \in LockIds : t < nextTokenId => locks'[t] = locks[t]
      /\ nextTokenId' = nextTokenId + 1 /\ nextTokenId \in LockIds
      /\ UNCHANGED kingAutoLockConfig
  BY MintSafe DEF UserCreatesLock, RouteInv
<1> QED BY <1>1 DEF RouteInv, LockTypeOK, PinsAreRouteLocks, NoLock, LockIds

LEMMA LockOwnersStep ==
  ASSUME RouteInv, NEW t \in LockIds,
         AgeLock(t) \/ ExtendLock(t) \/ ToggleAutoMax(t) \/ ToggleListed(t) \/ BurnLock(t)
  PROVE  RouteInv'
<1>0. locks[t] \in Lock
  BY DEF RouteInv, LockTypeOK
<1>1. CASE AgeLock(t)
  BY <1>0, <1>1, SetLockSafe DEF AgeLock, Lock, Terms
<1>2. CASE ExtendLock(t)
  BY <1>0, <1>2, SetLockSafe DEF ExtendLock, Lock, Terms
<1>3. CASE ToggleAutoMax(t)
  BY <1>0, <1>3, SetLockSafe DEF ToggleAutoMax, Lock, Terms
<1>4. CASE ToggleListed(t)
  BY <1>0, <1>4, SetLockSafe DEF ToggleListed, Lock, Terms
<1>5. CASE BurnLock(t)
  BY <1>0, <1>5, SetLockSafe DEF BurnLock, Lock, Terms
<1> QED BY <1>1, <1>2, <1>3, <1>4, <1>5

LEMMA LockStepsSafe == ASSUME RouteInv, LockSteps PROVE RouteInv'
  BY ConfigStep, UserCreatesStep, LockOwnersStep DEF LockSteps

LEMMA RouteInvInductive == RouteInv /\ [LockNext]_lockVars => RouteInv'
<1> SUFFICES ASSUME RouteInv, [LockNext]_lockVars PROVE RouteInv'
  OBVIOUS
<1>1. CASE UNCHANGED lockVars
  BY <1>1 DEF lockVars, RouteInv, LockTypeOK, PinsAreRouteLocks
<1>2. CASE LockNext
  BY <1>2, RouteStep, LockStepsSafe DEF LockNext
<1> QED BY <1>1, <1>2

(***************************************************************************)
(* The route keeps its types, and no settlement ever adopts a lock the     *)
(* user chose, bought or merged as the default destination: a pin is a     *)
(* lock minted by MineCore's route for that very recipient.                *)
(***************************************************************************)
THEOREM RouteSafety == LockSpec => [](LockTypeOK /\ PinsAreRouteLocks)
<1>1. RouteInv => LockTypeOK /\ PinsAreRouteLocks
  BY DEF RouteInv
<1> QED BY <1>1, LockInitEstablishes, RouteInvInductive, PTL DEF LockSpec

(* Only a settlement that found no destination mints a routed lock. *)
LEMMA RouteMintedBy ==
  ASSUME RouteInv, LockNext, NEW t \in LockIds, RouteMinted(t)
  PROVE  \E a \in Accounts : /\ locks'[t].owner = a /\ Destination(a) = NoLock
                              /\ RouteClaimToLock(a)
<1> USE DEF RouteMinted
<1>1. ASSUME NEW a \in Accounts, RouteClaimToLock(a)
      PROVE  locks'[t].owner = a /\ Destination(a) = NoLock
  <2>1. CASE Destination(a) # NoLock
    BY <1>1, <2>1 DEF RouteClaimToLock, lockVars
  <2>2. CASE Destination(a) = NoLock
    <3>1. Mint(a, "autoMax", TRUE)
      BY <1>1, <2>2 DEF RouteClaimToLock
    <3> QED BY <2>2, <3>1, MintSafe DEF RouteInv, Terms
  <2> QED BY <2>1, <2>2
<1>2. ASSUME NEW a \in Accounts, RouteClaimFails(a) PROVE FALSE
  BY <1>2 DEF RouteClaimFails
<1>3. ASSUME NEW caller \in Accounts, NEW user \in Accounts,
             DisableKingAutoLock(caller, user) \/
               (\E u \in LockIds \cup {NoLock} : SelectKingLock(caller, user, u))
      PROVE  FALSE
  BY <1>3 DEF DisableKingAutoLock, SelectKingLock
<1>4. ASSUME NEW a \in Accounts, NEW term \in Terms, UserCreatesLock(a, term) PROVE FALSE
  BY <1>4, MintSafe DEF UserCreatesLock, RouteInv
<1>5. ASSUME NEW u \in LockIds,
             AgeLock(u) \/ ExtendLock(u) \/ ToggleAutoMax(u) \/ ToggleListed(u) \/ BurnLock(u)
      PROVE  FALSE
  <2>1. \E lock : locks' = [locks EXCEPT ![u] = lock]
    BY <1>5 DEF AgeLock, ExtendLock, ToggleAutoMax, ToggleListed, BurnLock, SetLock
  <2>2. locks[u].owner # NoOne
    BY <1>5 DEF AgeLock, ExtendLock, ToggleAutoMax, ToggleListed, BurnLock
  <2> QED BY <2>1, <2>2 DEF RouteInv, LockTypeOK
<1> QED BY <1>1, <1>2, <1>3, <1>4, <1>5 DEF LockNext, LockSteps

(***************************************************************************)
(* "An active King never accumulates new veNFTs", for any number of locks: *)
(* as long as nothing is selected, a settlement mints only when the pinned *)
(* lock cannot take the CLAIM, and pins what it minted.                    *)
(***************************************************************************)
THEOREM DefaultRouteReuse == LockSpec => DefaultRouteReusesItsLock
<1>1. RouteInv /\ [LockNext]_lockVars =>
        [\A t \in LockIds : RouteMinted(t) =>
           LET a == locks'[t].owner
           IN  kingAutoLockConfig[a].targetTokenId = NoLock =>
                 /\ ~Resolves(kingAutoLockConfig[a].pinnedTokenId, a)
                 /\ kingAutoLockConfig'[a].pinnedTokenId = t]_lockVars
  <2> SUFFICES ASSUME RouteInv, LockNext, NEW t \in LockIds, RouteMinted(t),
                      kingAutoLockConfig[locks'[t].owner].targetTokenId = NoLock
               PROVE  /\ ~Resolves(kingAutoLockConfig[locks'[t].owner].pinnedTokenId,
                                   locks'[t].owner)
                      /\ kingAutoLockConfig'[locks'[t].owner].pinnedTokenId = t
    OBVIOUS
  <2>1. PICK a \in Accounts : /\ locks'[t].owner = a /\ Destination(a) = NoLock
                              /\ RouteClaimToLock(a)
    BY RouteMintedBy
  <2>2. kingAutoLockConfig[a].targetTokenId = NoLock
    BY <2>1
  <2>3. Resolves(kingAutoLockConfig[a].pinnedTokenId, a) =>
          Destination(a) = kingAutoLockConfig[a].pinnedTokenId
    BY <2>2 DEF Destination
  <2>4. ~Resolves(kingAutoLockConfig[a].pinnedTokenId, a)
    BY <2>1, <2>3 DEF Resolves, LockIds, NoLock
  <2>5. PinAfterResolve(a) = NoLock
    BY <2>1, <2>2 DEF PinAfterResolve
  <2>6. kingAutoLockConfig'[a].pinnedTokenId = nextTokenId
    BY <2>1, <2>5 DEF RouteClaimToLock, SetPin, RouteInv, LockTypeOK
  <2>7. t = nextTokenId
    BY DEF RouteMinted
  <2> QED BY <2>1, <2>4, <2>6, <2>7
<1> QED BY <1>1, LockInitEstablishes, RouteInvInductive, PTL
         DEF LockSpec, DefaultRouteReusesItsLock

-----------------------------------------------------------------------------
(* Arithmetic. *)

LEMMA TimesNat == ASSUME NEW a \in Nat, NEW b \in Nat PROVE a * b \in Nat
  OBVIOUS

LEMMA DivNat == ASSUME NEW a \in Nat, NEW c \in Nat \ {0} PROVE a \div c \in Nat
  OBVIOUS

LEMMA MulDivNat ==
  ASSUME NEW a \in Nat, NEW b \in Nat, NEW c \in Nat \ {0}
  PROVE  mulDiv(a, b, c) \in Nat
  BY TimesNat, DivNat DEF mulDiv

(* A fraction of an amount is at most the amount. *)
LEMMA MulDivAtMost ==
  ASSUME NEW a \in Nat, NEW b \in Nat, NEW c \in Nat \ {0}, b <= c
  PROVE  (a * b) \div c <= a
<1> DEFINE q == (a * b) \div c
<1>1. q \in Nat
  BY TimesNat, DivNat
<1>2. c * q <= a * b
  OBVIOUS
<1>3. a * b <= a * c
  OBVIOUS
<1>4. c * q <= c * a
  BY <1>1, <1>2, <1>3
<1>5. ASSUME q > a PROVE FALSE
  <2>1. q >= a + 1
    BY <1>1, <1>5
  <2>2. c * q >= c * (a + 1)
    BY <1>1, <2>1
  <2>3. c * (a + 1) = c * a + c
    OBVIOUS
  <2> QED BY <1>1, <1>4, <2>2, <2>3
<1> QED BY <1>1, <1>5

LEMMA PriceNat ==
  ASSUME NEW king, NEW start \in Nat, NEW ref \in Nat, NEW ts \in Nat
  PROVE  takeoverPrice(king, start, ref, ts) \in Nat
  BY MathAssumption DEF takeoverPrice, AtLeast, mulDiv

LEMMA RateNat ==
  ASSUME NEW e \in Int, NEW l \in Nat, NEW f \in Nat
  PROVE  rateAt(e, l, f) \in Nat
  BY MathAssumption DEF rateAt, AtLeast, mulDiv

LEMMA KingEmittedNat ==
  ASSUME NEW t0 \in Nat, NEW t1 \in Nat PROVE kingEmitted(t0, t1) \in Nat
<1> DEFINE L == KING_EMISSION_LAUNCH_RATE
           F == KING_EMISSION_FLOOR
           from == AtLeast(t0, EMISSION_START)
           floorTs == EMISSION_START + EMISSION_DECAY_PERIOD
           rate(t) == rateAt(t - EMISSION_START, L, F)
<1>1. L \in Nat /\ F \in Nat /\ from \in Nat /\ floorTs \in Nat
  BY MathAssumption DEF AtLeast
<1>2. \A t \in Nat : rate(t) \in Nat
  <2> SUFFICES ASSUME NEW t \in Nat PROVE rateAt(t - EMISSION_START, L, F) \in Nat
    OBVIOUS
  <2>1. t - EMISSION_START \in Int
    BY MathAssumption
  <2> QED BY <1>1, <2>1, RateNat
<1>3. from <= t1 \/ t1 <= t0 \/ t1 <= EMISSION_START
  BY <1>1, MathAssumption DEF AtLeast
<1>4. CASE t1 <= t0 \/ t1 <= EMISSION_START
  BY <1>4 DEF kingEmitted, emitted
<1>5. CASE ~(t1 <= t0 \/ t1 <= EMISSION_START) /\ from >= floorTs
  <2>1. kingEmitted(t0, t1) = F * (t1 - from)
    BY <1>5 DEF kingEmitted, emitted
  <2>2. t1 - from \in Nat
    BY <1>1, <1>3, <1>5
  <2> QED BY <1>1, <2>1, <2>2, TimesNat
<1>6. CASE ~(t1 <= t0 \/ t1 <= EMISSION_START) /\ ~(from >= floorTs) /\ t1 <= floorTs
  <2>1. kingEmitted(t0, t1) = mulDiv(rate(from) + rate(t1), t1 - from, 2)
    BY <1>6 DEF kingEmitted, emitted
  <2>2. t1 - from \in Nat
    BY <1>1, <1>3, <1>6
  <2>3. rate(from) + rate(t1) \in Nat
    BY <1>1, <1>2
  <2> QED BY <2>1, <2>2, <2>3, MulDivNat
<1>7. CASE ~(t1 <= t0 \/ t1 <= EMISSION_START) /\ ~(from >= floorTs) /\ ~(t1 <= floorTs)
  <2>1. kingEmitted(t0, t1) = mulDiv(rate(from) + F, floorTs - from, 2) + F * (t1 - floorTs)
    BY <1>7 DEF kingEmitted, emitted
  <2>2. floorTs - from \in Nat /\ t1 - floorTs \in Nat
    BY <1>1, <1>7
  <2>3. mulDiv(rate(from) + F, floorTs - from, 2) \in Nat
    <3>1. rate(from) + F \in Nat
      BY <1>1, <1>2
    <3> QED BY <2>2, <3>1, MulDivNat
  <2>4. F * (t1 - floorTs) \in Nat
    BY <1>1, <2>2, TimesNat
  <2> QED BY <2>1, <2>3, <2>4
<1> QED BY <1>4, <1>5, <1>6, <1>7

-----------------------------------------------------------------------------
(* Reigns, pauses and the accrual cursor.  A pause is on record exactly     *)
(* while a throne with a King is closed; that is what makes the cursor      *)
(* arithmetic of setTakeoversPaused right.                                  *)
ReignInv ==
  /\ CoreTypeOK
  /\ now >= EMISSION_START
  /\ currentKing # NoOne =>
       /\ takeoversPaused <=> pausedSince # 0
       /\ reignEthRecipient \in Accounts /\ reignClaimRecipient \in Accounts
  /\ currentKing = NoOne =>
       /\ pausedSince = 0 /\ openTime = 0
       /\ reignEthRecipient = NoOne /\ reignClaimRecipient = NoOne
  /\ pausedSince <= now
  /\ AccrualCountsOpenTime
  /\ ThroneOpensAfterGenesis
  /\ genesisKingClaimCollected => now >= EMISSION_START + GENESIS_ACCRUAL_DURATION

LEMMA ReignInit == Init => ReignInv
<1> SUFFICES ASSUME Init PROVE ReignInv
  OBVIOUS
<1> USE DEF Init
<1>1. CoreTypeOK
  <2>1. reignKings \in Seq(Accounts)
    OBVIOUS
  <2>2. guardian \in Guardians
    BY CoreAssumption
  <2> QED BY <2>1, <2>2, MathAssumption DEF CoreTypeOK
<1>2. AccrualCountsOpenTime /\ ThroneOpensAfterGenesis
  BY DEF AccrualCountsOpenTime, ThroneOpensAfterGenesis
<1> QED BY <1>1, <1>2, MathAssumption DEF ReignInv

(* Takeover and TakeoverFor are the same transaction with different roles. *)
LEMMA TakeoverForm ==
  ASSUME ReignInv,
         (\E sender \in Accounts, x \in Overpayments : Takeover(sender, x)) \/
         (\E sender, newKing \in Accounts, x \in Overpayments : TakeoverFor(sender, newKing, x))
  PROVE  \E newKing, e, c, payer \in Accounts, price, credited \in Nat :
           ExecuteTakeover(credited, price, newKing, e, c, payer)
<1>1. getTakeoverPrice \in Nat
  BY PriceNat DEF ReignInv, CoreTypeOK, getTakeoverPrice
<1>2. \A x \in Overpayments : getTakeoverPrice + x \in Nat
  BY <1>1, CoreAssumption
<1>3. ASSUME NEW sender \in Accounts, NEW x \in Overpayments, Takeover(sender, x)
      PROVE  ExecuteTakeover(getTakeoverPrice + x, getTakeoverPrice, sender, sender, sender,
                             sender)
  BY <1>3 DEF Takeover
<1>4. ASSUME NEW sender \in Accounts, NEW newKing \in Accounts, NEW x \in Overpayments,
             TakeoverFor(sender, newKing, x)
      PROVE  \E c \in Accounts :
               ExecuteTakeover(getTakeoverPrice + x, getTakeoverPrice, newKing, sender, c,
                               sender)
  BY <1>4 DEF TakeoverFor
<1> QED BY <1>1, <1>2, <1>3, <1>4

LEMMA ReignFrame ==
  ASSUME ReignInv, UNCHANGED <<now, pauseVars, reignVars, routeVars>>
  PROVE  ReignInv'
  BY DEF ReignInv, CoreTypeOK, AccrualCountsOpenTime, AccruedUntil, ThroneOpensAfterGenesis,
         pauseVars, reignVars, routeVars

LEMMA ReignTakeover ==
  ASSUME ReignInv,
         NEW newKing \in Accounts, NEW e \in Accounts, NEW c \in Accounts,
         NEW payer \in Accounts, NEW price \in Nat, NEW credited \in Nat,
         ExecuteTakeover(credited, price, newKing, e, c, payer)
  PROVE  ReignInv'
<1> USE DEF ReignInv, CoreTypeOK
<1>1. /\ UNCHANGED <<now, pauseVars>> /\ ~takeoversPaused
      /\ StartReign(newKing, e, c, price)
  BY DEF ExecuteTakeover
<1>2. reignKings' \in Seq(Accounts)
  BY <1>1 DEF StartReign
<1>3. CoreTypeOK'
  BY <1>1, <1>2 DEF StartReign, pauseVars
<1>4. pausedSince = 0 /\ pausedSince' = 0
  BY <1>1 DEF pauseVars
<1>5. AccrualCountsOpenTime'
  BY <1>1, <1>4 DEF StartReign, AccrualCountsOpenTime, AccruedUntil
<1>6. ThroneOpensAfterGenesis'
  BY <1>1 DEF ThroneOpensAfterGenesis, pauseVars
<1> QED BY <1>1, <1>3, <1>4, <1>5, <1>6, LockAssumption DEF StartReign, pauseVars

LEMMA ReignPauses ==
  ASSUME ReignInv, PauseTakeovers \/ UnpauseTakeovers
  PROVE  ReignInv'
<1> USE DEF ReignInv, CoreTypeOK, AccrualCountsOpenTime, AccruedUntil, ThroneOpensAfterGenesis,
            reignVars, routeVars
<1>1. CASE PauseTakeovers
  BY <1>1, MathAssumption, CoreAssumption DEF PauseTakeovers
<1>2. CASE UnpauseTakeovers
  <2>1. /\ currentKing' = currentKing /\ now' = now /\ pausedSince' = 0
        /\ openTime' = openTime /\ genesisKingClaimCollected
        /\ UNCHANGED genesisKingClaimCollected /\ takeoversPaused' = FALSE /\ takeoversPaused
    BY <1>2 DEF UnpauseTakeovers
  <2>2. CoreTypeOK'
    <3>1. now - pausedSince \in Nat
      OBVIOUS
    <3>2. currentReignLastAccrualTime' \in Nat
      BY <1>2, <3>1 DEF UnpauseTakeovers
    <3>3. UNCHANGED <<guardian, currentKing, currentReignStartTime, referencePrice, reignKings,
                      openTime, reignEthRecipient, reignClaimRecipient>>
      BY <1>2 DEF UnpauseTakeovers
    <3> QED BY <2>1, <3>2, <3>3
  <2>3. AccrualCountsOpenTime'
    <3>1. CASE currentKing = NoOne
      BY <2>1, <3>1
    <3>2. CASE currentKing # NoOne
      <4>1. pausedSince # 0 /\ pausedSince - currentReignLastAccrualTime = openTime
        BY <2>1, <3>2
      <4>2. currentReignLastAccrualTime' = currentReignLastAccrualTime + (now - pausedSince)
        BY <1>2, <4>1 DEF UnpauseTakeovers
      <4> QED BY <2>1, <4>1, <4>2
    <3> QED BY <3>1, <3>2
  <2>4. ThroneOpensAfterGenesis'
    BY <2>1
  <2> QED BY <1>2, <2>1, <2>2, <2>3, <2>4 DEF UnpauseTakeovers
<1> QED BY <1>1, <1>2

LEMMA ReignTick == ASSUME ReignInv, Tick PROVE ReignInv'
<1> USE DEF ReignInv, CoreTypeOK, AccrualCountsOpenTime, AccruedUntil, ThroneOpensAfterGenesis
<1>1. /\ now' = now + 1
      /\ openTime' = IF currentKing # NoOne /\ ~takeoversPaused THEN openTime + 1 ELSE openTime
      /\ UNCHANGED <<currentKing, currentReignStartTime, currentReignLastAccrualTime,
                     referencePrice, reignKings, guardian, takeoversPaused, pausedSince,
                     genesisKingClaimCollected, reignEthRecipient, reignClaimRecipient>>
  BY DEF Tick, pauseVars, routeVars
<1>2. CoreTypeOK'
  BY <1>1
<1>3. AccrualCountsOpenTime'
  <2>1. CASE currentKing # NoOne /\ takeoversPaused
    <3>1. pausedSince # 0 /\ openTime' = openTime
      BY <1>1, <2>1
    <3> QED BY <1>1, <2>1, <3>1
  <2>2. CASE currentKing # NoOne /\ ~takeoversPaused
    <3>1. pausedSince = 0 /\ openTime' = openTime + 1
      BY <1>1, <2>2
    <3> QED BY <1>1, <2>2, <3>1
  <2>3. CASE currentKing = NoOne
    BY <1>1, <2>3
  <2> QED BY <2>1, <2>2, <2>3
<1>4. ThroneOpensAfterGenesis'
  BY <1>1, MathAssumption, CoreAssumption
<1> QED BY <1>1, <1>2, <1>3, <1>4, MathAssumption, CoreAssumption

LEMMA ReignRoles ==
  ASSUME ReignInv,
         \/ \E g \in Guardians : SetGuardian(g)
         \/ CollectGenesisKingClaim
         \/ \E caller \in Accounts, e, c \in Recipients : SetCurrentReignRecipients(caller, e, c)
  PROVE  ReignInv'
<1> USE CoreAssumption
    DEF ReignInv, CoreTypeOK, AccrualCountsOpenTime, AccruedUntil, ThroneOpensAfterGenesis,
        reignVars, pauseVars, routeVars
<1>1. CASE \E g \in Guardians : SetGuardian(g)
  BY <1>1 DEF SetGuardian
<1>2. CASE CollectGenesisKingClaim
  BY <1>2 DEF CollectGenesisKingClaim
<1>3. CASE \E caller \in Accounts, e, c \in Recipients : SetCurrentReignRecipients(caller, e, c)
  BY <1>3 DEF SetCurrentReignRecipients
<1> QED BY <1>1, <1>2, <1>3

(* The remaining actions only move money and locks. *)
LEMMA MoneyOnly ==
  ASSUME \/ \E user \in Accounts : WithdrawKingBalance(user)
         \/ \E user \in Accounts : WithdrawRefundBalance(user)
         \/ \E user, to \in Accounts : WithdrawPendingClaim(user, to)
         \/ RetryPushShareholderEth
         \/ \E x \in ForcedEth : ForceEth(x)
         \/ \E x \in DonatedClaim : DonateClaim(x)
         \/ RescueEth
         \/ RescueClaim
         \/ LocksMove
  PROVE  UNCHANGED <<now, pauseVars, reignVars, routeVars, windowVars>>
  BY DEF WithdrawKingBalance, WithdrawRefundBalance, WithdrawPendingClaim,
         RetryPushShareholderEth, ForceEth, DonateClaim, RescueEth, RescueClaim, LocksMove

LEMMA ReignStep == ASSUME ReignInv, [Next]_vars PROVE ReignInv'
<1>1. CASE UNCHANGED vars
  BY <1>1, ReignFrame DEF vars
<1>2. CASE Next
  BY <1>2, TakeoverForm, ReignTakeover, ReignPauses, ReignTick, ReignRoles, MoneyOnly,
     ReignFrame DEF Next
<1> QED BY <1>1, <1>2

-----------------------------------------------------------------------------
(* The rolling window. *)
WindowInv == WindowTypeOK /\ RingHoldsRecentReigns /\ CountsMatchRing

LEMMA SlotsFinite ==
  \A a : IsFiniteSet(SlotsOf(a)) /\ Cardinality(SlotsOf(a)) \in Nat
<1>1. IsFiniteSet(Slots)
  BY FS_Interval, CoreAssumption DEF Slots
<1> QED BY <1>1, FS_Subset, FS_CardinalityType DEF SlotsOf

LEMMA WindowInit == ASSUME Init PROVE WindowInv
<1> USE DEF Init
<1>1. WindowTypeOK
  BY CoreAssumption DEF WindowTypeOK, Slots, Zero
<1>2. RingHoldsRecentReigns
  BY CoreAssumption DEF RingHoldsRecentReigns, Age, currentReignId, Slots
<1>3. CountsMatchRing
  <2> SUFFICES ASSUME NEW a \in Accounts PROVE takeoverWindowTakeovers[a] = Cardinality(SlotsOf(a))
    BY DEF CountsMatchRing
  <2>1. SlotsOf(a) = {}
    BY LockAssumption DEF SlotsOf
  <2> QED BY <2>1, FS_EmptySet DEF Zero
<1> QED BY <1>1, <1>2, <1>3 DEF WindowInv

LEMMA CursorMoves ==
  ASSUME NEW c \in Slots
  PROVE  /\ (c + 1) % TAKEOVER_WINDOW_LEN \in Slots
         /\ c + 1 < TAKEOVER_WINDOW_LEN => (c + 1) % TAKEOVER_WINDOW_LEN = c + 1
         /\ c + 1 = TAKEOVER_WINDOW_LEN => (c + 1) % TAKEOVER_WINDOW_LEN = 0
  BY CoreAssumption DEF Slots

(* The slot just written is the youngest; every other slot ages by one. *)
LEMMA SlotsAge ==
  ASSUME WindowTypeOK,
         takeoverWindowCursor' = (takeoverWindowCursor + 1) % TAKEOVER_WINDOW_LEN,
         NEW s \in Slots
  PROVE  /\ Age(s) \in Nat
         /\ s = takeoverWindowCursor => Age(s)' = 0
         /\ s # takeoverWindowCursor => Age(s)' = Age(s) + 1
  BY CoreAssumption, CursorMoves DEF WindowTypeOK, Age, Slots

(* A slot and the list of reigns age together. *)
LEMMA DistanceKept ==
  ASSUME NEW n \in Nat, NEW g \in Nat, NEW n2, NEW g2,
         n2 = n + 1, g2 = g + 1, g < n
  PROVE  n2 - g2 = n - g /\ g2 < n2
  OBVIOUS

LEMMA RingAfterTakeover ==
  ASSUME WindowInv, NEW newKing \in Accounts, RecordTakeover(newKing),
         reignKings \in Seq(Accounts), reignKings' = Append(reignKings, newKing)
  PROVE  RingHoldsRecentReigns'
<1> SUFFICES ASSUME NEW s \in Slots
             PROVE  takeoverWindow'[s] = IF Age(s)' < currentReignId'
                                         THEN reignKings'[currentReignId' - Age(s)'] ELSE NoOne
  BY DEF RingHoldsRecentReigns, Slots
<1>1. /\ takeoverWindow' = [takeoverWindow EXCEPT ![takeoverWindowCursor] = newKing]
      /\ takeoverWindowCursor' = (takeoverWindowCursor + 1) % TAKEOVER_WINDOW_LEN
  BY DEF RecordTakeover
<1>2. /\ currentReignId \in Nat /\ currentReignId' = currentReignId + 1
      /\ reignKings'[currentReignId + 1] = newKing
      /\ \A i \in 1 .. currentReignId : reignKings'[i] = reignKings[i]
  BY DEF currentReignId
<1>3. WindowTypeOK /\ takeoverWindow[s] = IF Age(s) < currentReignId
                                          THEN reignKings[currentReignId - Age(s)] ELSE NoOne
  BY DEF WindowInv, RingHoldsRecentReigns
<1>4. CASE s = takeoverWindowCursor
  <2>1. Age(s)' = 0
    BY <1>1, <1>3, <1>4, SlotsAge
  <2>2. takeoverWindow'[s] = newKing
    BY <1>1, <1>3, <1>4 DEF WindowTypeOK
  <2>3. currentReignId' - Age(s)' = currentReignId + 1 /\ Age(s)' < currentReignId'
    BY <1>2, <2>1
  <2> QED BY <1>2, <2>2, <2>3
<1>5. CASE s # takeoverWindowCursor
  <2>1. Age(s) \in Nat /\ Age(s)' = Age(s) + 1
    BY <1>1, <1>3, <1>5, SlotsAge
  <2>2. takeoverWindow'[s] = takeoverWindow[s]
    BY <1>1, <1>3, <1>5 DEF WindowTypeOK
  <2>3. CASE Age(s) < currentReignId
    <3>0. currentReignId \in Nat /\ currentReignId' = currentReignId + 1
      BY <1>2
    <3>1. currentReignId' - Age(s)' = currentReignId - Age(s) /\ Age(s)' < currentReignId'
      BY <2>1, <2>3, <3>0, DistanceKept
    <3>2. currentReignId - Age(s) \in 1 .. currentReignId
      BY <1>2, <2>1, <2>3
    <3>3. reignKings'[currentReignId - Age(s)] = reignKings[currentReignId - Age(s)]
      BY <1>2, <3>2
    <3> QED BY <1>3, <2>2, <2>3, <3>1, <3>3
  <2>4. CASE ~(Age(s) < currentReignId)
    BY <1>2, <1>3, <2>1, <2>2, <2>4
  <2> QED BY <2>3, <2>4
<1> QED BY <1>4, <1>5

LEMMA CountsAfterTakeover ==
  ASSUME WindowInv, NEW newKing \in Accounts, RecordTakeover(newKing)
  PROVE  CountsMatchRing'
<1> DEFINE c == takeoverWindowCursor
<1> SUFFICES ASSUME NEW a \in Accounts
             PROVE  takeoverWindowTakeovers'[a] = Cardinality(SlotsOf(a)')
  BY DEF CountsMatchRing
<1>1. /\ takeoverWindow' = [takeoverWindow EXCEPT ![c] = newKing]
      /\ c \in Slots /\ takeoverWindow \in [Slots -> Accounts \cup {NoOne}]
      /\ takeoverWindowTakeovers[a] = Cardinality(SlotsOf(a))
  BY DEF RecordTakeover, WindowInv, WindowTypeOK, CountsMatchRing
<1>2. IsFiniteSet(SlotsOf(a)) /\ Cardinality(SlotsOf(a)) \in Nat
  BY SlotsFinite
<1>3. (c \in SlotsOf(a)) <=> (takeoverWindow[c] = a)
  BY <1>1 DEF SlotsOf
<1>4. takeoverWindow[c] = a => takeoverWindowTakeovers[a] > 0
  <2>1. c \in SlotsOf(a) => Cardinality(SlotsOf(a)) # 0
    BY <1>2, FS_EmptySet
  <2> QED BY <1>1, <1>2, <1>3, <2>1
<1>5. takeoverWindowTakeovers'[a] =
        (IF takeoverWindow[c] = a THEN takeoverWindowTakeovers[a] - 1
         ELSE takeoverWindowTakeovers[a]) + (IF a = newKing THEN 1 ELSE 0)
  BY <1>1, <1>2, <1>4 DEF RecordTakeover, Plus
<1>6. CASE a = newKing
  <2>1. SlotsOf(a)' = SlotsOf(a) \cup {c}
    BY <1>1, <1>6 DEF SlotsOf
  <2>2. Cardinality(SlotsOf(a) \cup {c}) =
          IF c \in SlotsOf(a) THEN Cardinality(SlotsOf(a)) ELSE Cardinality(SlotsOf(a)) + 1
    BY <1>2, FS_AddElement
  <2> QED BY <1>1, <1>2, <1>3, <1>5, <1>6, <2>1, <2>2
<1>7. CASE a # newKing
  <2>1. SlotsOf(a)' = SlotsOf(a) \ {c}
    BY <1>1, <1>7 DEF SlotsOf
  <2>2. Cardinality(SlotsOf(a) \ {c}) =
          IF c \in SlotsOf(a) THEN Cardinality(SlotsOf(a)) - 1 ELSE Cardinality(SlotsOf(a))
    BY <1>2, FS_RemoveElement
  <2> QED BY <1>1, <1>2, <1>3, <1>5, <1>7, <2>1, <2>2
<1> QED BY <1>6, <1>7

LEMMA WindowTypesAfterTakeover ==
  ASSUME WindowTypeOK, NEW newKing \in Accounts, RecordTakeover(newKing)
  PROVE  WindowTypeOK'
<1>1. takeoverWindowCursor' \in Slots
  BY CursorMoves DEF WindowTypeOK, RecordTakeover
<1>2. takeoverWindow' \in [Slots -> Accounts \cup {NoOne}]
  BY DEF WindowTypeOK, RecordTakeover
<1>3. takeoverWindowTakeovers' \in [Accounts -> Nat]
  BY DEF WindowTypeOK, RecordTakeover, Plus
<1> QED BY <1>1, <1>2, <1>3 DEF WindowTypeOK, Slots

LEMMA WindowTakeover ==
  ASSUME ReignInv, WindowInv,
         NEW newKing \in Accounts, NEW e, NEW c, NEW payer, NEW price, NEW credited,
         ExecuteTakeover(credited, price, newKing, e, c, payer)
  PROVE  WindowInv'
<1>1. RecordTakeover(newKing) /\ reignKings' = Append(reignKings, newKing)
  BY DEF ExecuteTakeover, StartReign
<1>2. reignKings \in Seq(Accounts)
  BY DEF ReignInv, CoreTypeOK
<1> QED BY <1>1, <1>2, RingAfterTakeover, CountsAfterTakeover, WindowTypesAfterTakeover
        DEF WindowInv

LEMMA WindowFrame == ASSUME WindowInv, UNCHANGED <<windowVars, reignKings>> PROVE WindowInv'
  BY DEF WindowInv, WindowTypeOK, RingHoldsRecentReigns, CountsMatchRing, windowVars, Age,
         SlotsOf, currentReignId, Slots

LEMMA WindowStep == ASSUME ReignInv, WindowInv, [Next]_vars PROVE WindowInv'
<1>1. CASE UNCHANGED vars
  BY <1>1, WindowFrame DEF vars, reignVars
<1>2. CASE PauseTakeovers \/ UnpauseTakeovers \/ Tick \/ CollectGenesisKingClaim
           \/ (\E g \in Guardians : SetGuardian(g))
           \/ (\E caller \in Accounts, e, c \in Recipients :
                 SetCurrentReignRecipients(caller, e, c))
  <2>1. UNCHANGED <<windowVars, reignKings>>
    BY <1>2 DEF PauseTakeovers, UnpauseTakeovers, Tick, CollectGenesisKingClaim, SetGuardian,
                SetCurrentReignRecipients, reignVars
  <2> QED BY <2>1, WindowFrame
<1>3. CASE UNCHANGED <<now, pauseVars, reignVars, routeVars, windowVars>>
  BY <1>3, WindowFrame DEF reignVars
<1>4. CASE Next
  BY <1>2, <1>3, <1>4, TakeoverForm, WindowTakeover, MoneyOnly DEF Next
<1> QED BY <1>1, <1>4

-----------------------------------------------------------------------------
(* ETH.  The totals are sums over all accounts; here they need only be      *)
(* integers, because the accounting equation is linear in them.             *)
EthInv ==
  /\ kingEthBalance \in [Accounts -> Nat] /\ refundEthBalance \in [Accounts -> Nat]
  /\ ethPaid \in [Accounts -> Nat]
  /\ shareholderEthPending \in Nat /\ royaltiesEth \in Nat
  /\ totalKingEthOwed \in Int /\ totalRefundEthOwed \in Int
  /\ ethBalance \in Int /\ ethSurplus \in Int /\ ethReceived \in Int
  /\ EthBacked

LEMMA PlusNat ==
  ASSUME NEW f \in [Accounts -> Nat], NEW a, NEW x \in Nat
  PROVE  Plus(f, a, x) \in [Accounts -> Nat]
  BY DEF Plus

LEMMA EthInit == ASSUME Init PROVE EthInv
  BY DEF Init, EthInv, EthBacked, trackedEth, Zero

LEMMA KingShareAtMost ==
  ASSUME NEW price \in Nat
  PROVE  KingShare(price) \in Nat /\ KingShare(price) <= price
<1>1. (price * KING_ETH_SHARE_PCT) \div KING_ETH_SHARE_DENOM <= price
  BY MulDivAtMost, CoreAssumption
<1>2. (price * KING_ETH_SHARE_PCT) \div KING_ETH_SHARE_DENOM \in Nat
  BY TimesNat, DivNat, CoreAssumption
<1> QED BY <1>1, <1>2 DEF KingShare

(* Of the share, the royalties and the refund, each is sent or parked whole. *)
LEMMA SettleEthEffect ==
  ASSUME NEW payer \in Accounts, NEW price \in Nat, NEW credited \in Nat, credited >= price,
         SettleEth(price, credited, payer)
  PROVE  \E sentShare, sentRoyalty, sentRefund, owedShare, owedRoyalty, owedRefund \in Nat :
           /\ sentShare + owedShare = KingShare(price)
           /\ sentRoyalty + owedRoyalty = price - KingShare(price)
           /\ sentRefund + owedRefund = credited - price
           /\ kingEthBalance' = Plus(kingEthBalance, reignEthRecipient, owedShare)
           /\ totalKingEthOwed' = totalKingEthOwed + owedShare
           /\ shareholderEthPending' = shareholderEthPending + owedRoyalty
           /\ refundEthBalance' = Plus(refundEthBalance, payer, owedRefund)
           /\ totalRefundEthOwed' = totalRefundEthOwed + owedRefund
           /\ ethBalance' = ethBalance + credited - (sentShare + sentRoyalty + sentRefund)
           /\ ethPaid' = Plus(Plus(ethPaid, reignEthRecipient, sentShare), payer, sentRefund)
           /\ royaltiesEth' = royaltiesEth + sentRoyalty
           /\ ethReceived' = ethReceived + credited
           /\ UNCHANGED ethSurplus
<1> DEFINE share == KingShare(price)
           royalty == price - share
           refund == credited - price
<1>1. share \in Nat /\ royalty \in Nat /\ refund \in Nat
  BY KingShareAtMost
<1>2. PICK pushed \in Answers("kingPush"), taken \in Answers("royalties"),
           refunded \in Answers("refund") :
        SettleEth(price, credited, payer)!(pushed, taken, refunded)
  BY DEF SettleEth
<1>3. UNCHANGED ethSurplus
  BY <1>2
<1> DEFINE s1 == IF pushed THEN share ELSE 0
           s2 == IF taken THEN royalty ELSE 0
           s3 == IF refunded THEN refund ELSE 0
<1>4. /\ s1 \in Nat /\ s2 \in Nat /\ s3 \in Nat
      /\ share - s1 \in Nat /\ royalty - s2 \in Nat /\ refund - s3 \in Nat
  <2> HIDE DEF share
  <2> QED BY <1>1
<1> USE <1>4
<1> WITNESS s1 \in Nat, s2 \in Nat, s3 \in Nat,
            share - s1 \in Nat, royalty - s2 \in Nat, refund - s3 \in Nat
<1>5. /\ s1 + (share - s1) = share /\ s2 + (royalty - s2) = royalty
      /\ s3 + (refund - s3) = refund
  <2> HIDE DEF share, s1, s2, s3
  <2> QED BY <1>1, <1>4
<1> QED BY <1>2, <1>3, <1>5

LEMMA EthTakeover ==
  ASSUME EthInv, NEW payer \in Accounts, NEW price \in Nat, NEW credited \in Nat,
         credited >= price, SettleEth(price, credited, payer)
  PROVE  EthInv'
<1> DEFINE share == KingShare(price)
<1>1. share \in Nat /\ share <= price
  BY KingShareAtMost
<1>2. PICK sentShare, sentRoyalty, sentRefund, owedShare, owedRoyalty, owedRefund \in Nat :
        /\ sentShare + owedShare = share
        /\ sentRoyalty + owedRoyalty = price - share
        /\ sentRefund + owedRefund = credited - price
        /\ kingEthBalance' = Plus(kingEthBalance, reignEthRecipient, owedShare)
        /\ totalKingEthOwed' = totalKingEthOwed + owedShare
        /\ shareholderEthPending' = shareholderEthPending + owedRoyalty
        /\ refundEthBalance' = Plus(refundEthBalance, payer, owedRefund)
        /\ totalRefundEthOwed' = totalRefundEthOwed + owedRefund
        /\ ethBalance' = ethBalance + credited - (sentShare + sentRoyalty + sentRefund)
        /\ ethPaid' = Plus(Plus(ethPaid, reignEthRecipient, sentShare), payer, sentRefund)
        /\ royaltiesEth' = royaltiesEth + sentRoyalty
        /\ ethReceived' = ethReceived + credited
        /\ UNCHANGED ethSurplus
  BY SettleEthEffect
<1> HIDE DEF share
<1>3. /\ kingEthBalance' \in [Accounts -> Nat] /\ refundEthBalance' \in [Accounts -> Nat]
      /\ ethPaid' \in [Accounts -> Nat]
  BY <1>2, PlusNat DEF EthInv
<1>4. EthBacked'
  BY <1>1, <1>2 DEF EthInv, EthBacked, trackedEth
<1> QED BY <1>1, <1>2, <1>3, <1>4 DEF EthInv

LEMMA EthWithdrawals ==
  ASSUME EthInv, NEW user \in Accounts,
         WithdrawKingBalance(user) \/ WithdrawRefundBalance(user)
  PROVE  EthInv'
<1> USE DEF EthInv, EthBacked, trackedEth
<1>1. kingEthBalance[user] \in Nat /\ refundEthBalance[user] \in Nat
  OBVIOUS
<1>2. CASE WithdrawKingBalance(user)
  BY <1>1, <1>2, PlusNat DEF WithdrawKingBalance
<1>3. CASE WithdrawRefundBalance(user)
  BY <1>1, <1>3, PlusNat DEF WithdrawRefundBalance
<1> QED BY <1>2, <1>3

LEMMA EthRetry == ASSUME EthInv, RetryPushShareholderEth PROVE EthInv'
<1>1. PICK sent \in {0, shareholderEthPending} :
        /\ shareholderEthPending' = shareholderEthPending - sent
        /\ ethBalance' = ethBalance - sent
        /\ royaltiesEth' = royaltiesEth + sent
  BY DEF RetryPushShareholderEth
<1>2. UNCHANGED <<kingEthBalance, totalKingEthOwed, refundEthBalance, totalRefundEthOwed,
                  ethReceived, ethPaid, ethSurplus>>
  BY DEF RetryPushShareholderEth
<1> QED BY <1>1, <1>2 DEF EthInv, EthBacked, trackedEth

LEMMA EthUntracked ==
  ASSUME EthInv, RescueEth \/ (\E x \in ForcedEth : ForceEth(x))
  PROVE  EthInv'
<1> USE CoreAssumption DEF EthInv, EthBacked, trackedEth
<1>1. CASE RescueEth
  BY <1>1 DEF RescueEth
<1>2. CASE \E x \in ForcedEth : ForceEth(x)
  BY <1>2 DEF ForceEth
<1> QED BY <1>1, <1>2

LEMMA EthFrame == ASSUME EthInv, UNCHANGED ethVars PROVE EthInv'
  BY DEF EthInv, EthBacked, trackedEth, ethVars

LEMMA EthStep == ASSUME ReignInv, EthInv, [Next]_vars PROVE EthInv'
<1>1. CASE UNCHANGED vars
  BY <1>1, EthFrame DEF vars
<1>2. CASE \E newKing, e, c, payer \in Accounts, price, credited \in Nat :
             ExecuteTakeover(credited, price, newKing, e, c, payer)
  BY <1>2, EthTakeover DEF ExecuteTakeover
<1>3. CASE PauseTakeovers \/ UnpauseTakeovers \/ Tick \/ CollectGenesisKingClaim
           \/ (\E g \in Guardians : SetGuardian(g))
           \/ (\E caller \in Accounts, e, c \in Recipients :
                 SetCurrentReignRecipients(caller, e, c))
           \/ (\E user, to \in Accounts : WithdrawPendingClaim(user, to))
           \/ (\E x \in DonatedClaim : DonateClaim(x)) \/ RescueClaim \/ LocksMove
  <2>1. UNCHANGED ethVars
    BY <1>3 DEF PauseTakeovers, UnpauseTakeovers, Tick, CollectGenesisKingClaim, SetGuardian,
                SetCurrentReignRecipients, WithdrawPendingClaim, DonateClaim, RescueClaim,
                LocksMove
  <2> QED BY <2>1, EthFrame
<1>4. CASE Next
  BY <1>2, <1>3, <1>4, TakeoverForm, EthWithdrawals, EthRetry, EthUntracked DEF Next
<1> QED BY <1>1, <1>4

-----------------------------------------------------------------------------
(* CLAIM. *)
ClaimInv ==
  /\ pendingKingClaim \in [Accounts -> Nat] /\ claimPaid \in [Accounts -> Nat]
  /\ totalPendingKingClaim \in Int
  /\ claimBalance \in Int /\ claimSurplus \in Int
  /\ ClaimBacked

LEMMA ClaimInit == ASSUME Init PROVE ClaimInv
  BY DEF Init, ClaimInv, ClaimBacked, Zero

LEMMA LiquidShare ==
  ASSUME WindowTypeOK, NEW king \in Accounts, NEW amount \in Nat
  PROVE  /\ mulDiv(amount, kingLiquidShareBps(king), 10000) \in Nat
         /\ mulDiv(amount, kingLiquidShareBps(king), 10000) <= amount
<1>1. (takeoverWindowTakeovers[king] * 10000) \div TAKEOVER_WINDOW_LEN \in Nat
  BY TimesNat, DivNat, CoreAssumption DEF WindowTypeOK
<1>2. KING_LIQUID_SHARE_MAX_BPS \in 0 .. 10000
  BY CoreAssumption
<1>3. PICK bps \in Nat : kingLiquidShareBps(king) = IF bps > KING_LIQUID_SHARE_MAX_BPS
                                                   THEN KING_LIQUID_SHARE_MAX_BPS ELSE bps
  BY <1>1 DEF kingLiquidShareBps
<1>4. kingLiquidShareBps(king) \in Nat /\ kingLiquidShareBps(king) <= 10000
  BY <1>2, <1>3
<1>5. (amount * kingLiquidShareBps(king)) \div 10000 <= amount
  BY <1>4, MulDivAtMost
<1>6. mulDiv(amount, kingLiquidShareBps(king), 10000) \in Nat
  <2>1. amount * kingLiquidShareBps(king) \in Nat
    BY <1>4, TimesNat
  <2> QED BY <2>1, DivNat DEF mulDiv
<1> QED BY <1>5, <1>6 DEF mulDiv

(* Paid at once, routed into a lock, or credited: the whole amount, to the
   recipient, and the credit is backed by CLAIM minted to MineCore. *)
LEMMA SettleEffect ==
  ASSUME WindowTypeOK, ClaimInv, currentKing \in Accounts, NEW r \in Accounts,
         NEW amount \in Nat, SettlePrevKingClaim(r, amount)
  PROVE  \E paid, credit \in Nat :
           /\ paid + credit = amount
           /\ claimPaid' = Plus(claimPaid, r, paid)
           /\ pendingKingClaim' = Plus(pendingKingClaim, r, credit)
           /\ totalPendingKingClaim' = totalPendingKingClaim + credit
           /\ claimBalance' = claimBalance + credit
<1> DEFINE liquid == mulDiv(amount, kingLiquidShareBps(currentKing), 10000)
           locked == amount - liquid
<1>1. liquid \in Nat /\ locked \in Nat
  BY LiquidShare
<1>2. Plus(pendingKingClaim, r, 0) = pendingKingClaim
  BY DEF ClaimInv, Plus
<1>3. CASE claimPaid' = Plus(claimPaid, r, liquid + locked)
           /\ UNCHANGED <<pendingKingClaim, totalPendingKingClaim, claimBalance>>
  <2> HIDE DEF liquid
  <2> USE <1>1
  <2> WITNESS liquid + locked \in Nat, 0 \in Nat
  <2> QED BY <1>1, <1>2, <1>3 DEF ClaimInv
<1>4. CASE claimPaid' = Plus(claimPaid, r, liquid) /\ claimBalance' = claimBalance + locked
           /\ CreditPendingKingClaim(r, locked)
  <2> HIDE DEF liquid
  <2> USE <1>1
  <2> WITNESS liquid \in Nat, locked \in Nat
  <2> QED BY <1>1, <1>4 DEF CreditPendingKingClaim
<1>5. CASE locked = 0 /\ claimPaid' = Plus(claimPaid, r, liquid)
           /\ UNCHANGED <<pendingKingClaim, totalPendingKingClaim, claimBalance>>
  <2> HIDE DEF liquid
  <2> USE <1>1
  <2> WITNESS liquid \in Nat, 0 \in Nat
  <2> QED BY <1>1, <1>2, <1>5 DEF ClaimInv
<1> QED BY <1>3, <1>4, <1>5 DEF SettlePrevKingClaim

LEMMA ClaimTakeover ==
  ASSUME ReignInv, WindowInv, ClaimInv, SettleClaim
  PROVE  ClaimInv'
<1>1. CASE currentKing = NoOne
  BY <1>1 DEF SettleClaim, ClaimInv, ClaimBacked
<1>2. CASE currentKing # NoOne
  <2>1. /\ currentKing \in Accounts /\ reignClaimRecipient \in Accounts
        /\ kingEmitted(currentReignLastAccrualTime, now) \in Nat
    BY <1>2, KingEmittedNat DEF ReignInv, CoreTypeOK
  <2>2. PICK paid, credit \in Nat :
          /\ claimPaid' = Plus(claimPaid, reignClaimRecipient, paid)
          /\ pendingKingClaim' = Plus(pendingKingClaim, reignClaimRecipient, credit)
          /\ totalPendingKingClaim' = totalPendingKingClaim + credit
          /\ claimBalance' = claimBalance + credit
    BY <1>2, <2>1, SettleEffect DEF SettleClaim, WindowInv
  <2>3. claimSurplus' = claimSurplus
    BY DEF SettleClaim
  <2> QED BY <2>2, <2>3, PlusNat DEF ClaimInv, ClaimBacked
<1> QED BY <1>1, <1>2

LEMMA ClaimMoves ==
  ASSUME ClaimInv,
         \/ \E user, to \in Accounts : WithdrawPendingClaim(user, to)
         \/ RescueClaim
         \/ \E x \in DonatedClaim : DonateClaim(x)
  PROVE  ClaimInv'
<1> USE CoreAssumption DEF ClaimInv, ClaimBacked
<1>1. CASE \E user, to \in Accounts : WithdrawPendingClaim(user, to)
  <2>1. PICK user \in Accounts, to \in Accounts : WithdrawPendingClaim(user, to)
    BY <1>1
  <2>2. pendingKingClaim[user] \in Nat
    OBVIOUS
  <2> QED BY <2>1, <2>2, PlusNat DEF WithdrawPendingClaim
<1>2. CASE RescueClaim
  BY <1>2 DEF RescueClaim
<1>3. CASE \E x \in DonatedClaim : DonateClaim(x)
  BY <1>3 DEF DonateClaim
<1> QED BY <1>1, <1>2, <1>3

LEMMA ClaimFrame == ASSUME ClaimInv, UNCHANGED claimVars PROVE ClaimInv'
  BY DEF ClaimInv, ClaimBacked, claimVars

LEMMA ClaimStep == ASSUME ReignInv, WindowInv, ClaimInv, [Next]_vars PROVE ClaimInv'
<1>1. CASE UNCHANGED vars
  BY <1>1, ClaimFrame DEF vars
<1>2. CASE \E newKing, e, c, payer \in Accounts, price, credited \in Nat :
             ExecuteTakeover(credited, price, newKing, e, c, payer)
  BY <1>2, ClaimTakeover DEF ExecuteTakeover
<1>3. CASE PauseTakeovers \/ UnpauseTakeovers \/ Tick \/ CollectGenesisKingClaim
           \/ (\E g \in Guardians : SetGuardian(g))
           \/ (\E caller \in Accounts, e, c \in Recipients :
                 SetCurrentReignRecipients(caller, e, c))
           \/ (\E user \in Accounts : WithdrawKingBalance(user))
           \/ (\E user \in Accounts : WithdrawRefundBalance(user))
           \/ RetryPushShareholderEth
           \/ (\E x \in ForcedEth : ForceEth(x)) \/ RescueEth \/ LocksMove
  <2>1. UNCHANGED claimVars
    BY <1>3 DEF PauseTakeovers, UnpauseTakeovers, Tick, CollectGenesisKingClaim, SetGuardian,
                SetCurrentReignRecipients, WithdrawKingBalance, WithdrawRefundBalance,
                RetryPushShareholderEth, ForceEth, RescueEth, LocksMove
  <2> QED BY <2>1, ClaimFrame
<1>4. CASE Next
  BY <1>2, <1>3, <1>4, TakeoverForm, ClaimMoves DEF Next
<1> QED BY <1>1, <1>4

-----------------------------------------------------------------------------
Inv == ReignInv /\ WindowInv /\ EthInv /\ ClaimInv

LEMMA InvInit == Init => Inv
  BY ReignInit, WindowInit, EthInit, ClaimInit DEF Inv

LEMMA InvStep == Inv /\ [Next]_vars => Inv'
  BY ReignStep, WindowStep, EthStep, ClaimStep DEF Inv

LEMMA InvAlways == Spec => []Inv
  BY InvInit, InvStep, PTL DEF Spec

(***************************************************************************)
(* No sequence of failed pushes, retries, withdrawals and rescues leaves   *)
(* MineCore owing ETH it does not hold, whatever the constants.            *)
(***************************************************************************)
THEOREM EthIsBacked == Spec => []EthBacked
<1>1. Inv => EthBacked
  BY DEF Inv, EthInv
<1> QED BY <1>1, InvAlways, PTL

(***************************************************************************)
(* Nor CLAIM: what was minted for a King and could not be delivered waits  *)
(* in MineCore, and neither a rescue nor a retry of another takes it.      *)
(***************************************************************************)
THEOREM ClaimIsBacked == Spec => []ClaimBacked
<1>1. Inv => ClaimBacked
  BY DEF Inv, ClaimInv
<1> QED BY <1>1, InvAlways, PTL

(***************************************************************************)
(* The accrual cursor excludes exactly the paused seconds of a reign, for  *)
(* pauses of any number and length.                                        *)
(***************************************************************************)
THEOREM AccrualExcludesPauses == Spec => []AccrualCountsOpenTime
<1>1. Inv => AccrualCountsOpenTime
  BY DEF Inv, ReignInv
<1> QED BY <1>1, InvAlways, PTL

(***************************************************************************)
(* For a window of any length: the ring holds the last takeovers in order, *)
(* and each King's counter is the number of slots that name him (so the    *)
(* guard against underflow in _recordTakeover is never what saves it).     *)
(***************************************************************************)
THEOREM WindowCorrect == Spec => []WindowIsRecentTakeovers
<1>1. Inv => WindowIsRecentTakeovers
  BY DEF Inv, WindowInv, WindowIsRecentTakeovers
<1> QED BY <1>1, InvAlways, PTL

(***************************************************************************)
(* The throne is closed, and empty, until the genesis bucket is collected. *)
(***************************************************************************)
THEOREM GenesisFirst == Spec => []ThroneOpensAfterGenesis
<1>1. Inv => ThroneOpensAfterGenesis
  BY DEF Inv, ReignInv
<1> QED BY <1>1, InvAlways, PTL

-----------------------------------------------------------------------------
(* MineCore uses the lock route as KingAutoLock describes it. *)

LEMMA SettleRoutes == ASSUME ReignInv, SettleClaim PROVE [LockNext]_lockVars
<1>1. CASE currentKing = NoOne
  BY <1>1 DEF SettleClaim, lockVars
<1>2. CASE currentKing # NoOne
  <2>1. reignClaimRecipient \in Accounts
    BY <1>2 DEF ReignInv
  <2>2. \/ RouteClaimToLock(reignClaimRecipient) \/ RouteClaimFails(reignClaimRecipient)
        \/ UNCHANGED lockVars
    BY <1>2 DEF SettleClaim, SettlePrevKingClaim
  <2> QED BY <2>1, <2>2 DEF LockNext
<1> QED BY <1>1, <1>2

LEMMA RouteFollowed == ASSUME ReignInv, [Next]_vars PROVE [LockNext]_lockVars
<1>1. CASE UNCHANGED vars
  BY <1>1 DEF vars, lockVars
<1>2. CASE \E newKing, e, c, payer \in Accounts, price, credited \in Nat :
             ExecuteTakeover(credited, price, newKing, e, c, payer)
  BY <1>2, SettleRoutes DEF ExecuteTakeover
<1>3. CASE \E user, to \in Accounts : WithdrawPendingClaim(user, to)
  BY <1>3 DEF WithdrawPendingClaim, LockNext
<1>4. CASE LocksMove
  BY <1>4 DEF LocksMove, LockNext
<1>5. CASE PauseTakeovers \/ UnpauseTakeovers \/ Tick \/ CollectGenesisKingClaim
           \/ (\E g \in Guardians : SetGuardian(g))
           \/ (\E caller \in Accounts, e, c \in Recipients :
                 SetCurrentReignRecipients(caller, e, c))
           \/ (\E user \in Accounts : WithdrawKingBalance(user))
           \/ (\E user \in Accounts : WithdrawRefundBalance(user))
           \/ RetryPushShareholderEth
           \/ (\E x \in ForcedEth : ForceEth(x)) \/ RescueEth
           \/ (\E x \in DonatedClaim : DonateClaim(x)) \/ RescueClaim
  <2>1. UNCHANGED lockVars
    BY <1>5 DEF PauseTakeovers, UnpauseTakeovers, Tick, CollectGenesisKingClaim, SetGuardian,
                SetCurrentReignRecipients, WithdrawKingBalance, WithdrawRefundBalance,
                RetryPushShareholderEth, ForceEth, RescueEth, DonateClaim, RescueClaim
  <2> QED BY <2>1
<1>6. CASE Next
  BY <1>2, <1>3, <1>4, <1>5, <1>6, TakeoverForm DEF Next
<1> QED BY <1>1, <1>6

(***************************************************************************)
(* Every settlement, withdrawal and user step of MineCore is a step of the *)
(* lock route, so what is proved of the route holds in MineCore.           *)
(***************************************************************************)
THEOREM MineCoreRoutes == Spec => LockSpec
<1>1. Init => LockInit
  BY DEF Init
<1>2. Inv /\ [Next]_vars => [LockNext]_lockVars
  BY RouteFollowed DEF Inv
<1> QED BY <1>1, <1>2, InvAlways, PTL DEF Spec, LockSpec

(***************************************************************************)
(* The types MineCore keeps for any constants.  The three running totals   *)
(* are integers here; that they are natural numbers is TotalsAreSums.      *)
(***************************************************************************)
THEOREM MineCoreTypes == Spec => [](CoreTypeOK /\ WindowTypeOK /\ LockTypeOK)
<1>1. Inv => CoreTypeOK /\ WindowTypeOK
  BY DEF Inv, ReignInv, WindowInv
<1> QED BY <1>1, InvAlways, MineCoreRoutes, RouteSafety, PTL

-----------------------------------------------------------------------------
(* The ledger. *)

LEMMA LedgerInit == ASSUME Init PROVE Ledger!Init
  BY DEF Init, Ledger!Init, Zero

LEMMA LedgerClaim ==
  ASSUME Amounts = Nat, ReignInv, WindowInv, ClaimInv, SettleClaim
  PROVE  Ledger!SettleClaim
<1>1. CASE currentKing = NoOne
  BY <1>1 DEF SettleClaim, Ledger!SettleClaim
<1>2. CASE currentKing # NoOne
  <2> DEFINE mined == kingEmitted(currentReignLastAccrualTime, now)
  <2>1. /\ currentKing \in Accounts /\ reignClaimRecipient \in Accounts /\ mined \in Nat
    BY <1>2, KingEmittedNat DEF ReignInv, CoreTypeOK
  <2>2. PICK paid, credit \in Nat :
          /\ paid + credit = mined
          /\ claimPaid' = Plus(claimPaid, reignClaimRecipient, paid)
          /\ pendingKingClaim' = Plus(pendingKingClaim, reignClaimRecipient, credit)
    BY <1>2, <2>1, SettleEffect DEF SettleClaim, WindowInv
  <2> HIDE DEF mined
  <2>3. [a \in Accounts |-> claimPaid[a] + pendingKingClaim[a]]' =
          Ledger!Plus([a \in Accounts |-> claimPaid[a] + pendingKingClaim[a]],
                      reignClaimRecipient, mined)
    BY <2>1, <2>2 DEF Plus, Ledger!Plus, ClaimInv
  <2> QED BY <1>2, <2>1, <2>3 DEF Ledger!SettleClaim
<1> QED BY <1>1, <1>2

LEMMA LedgerTakeover ==
  ASSUME Amounts = Nat, Inv,
         NEW newKing \in Accounts, NEW e \in Accounts, NEW c \in Accounts,
         NEW payer \in Accounts, NEW price \in Nat, NEW credited \in Nat,
         ExecuteTakeover(credited, price, newKing, e, c, payer)
  PROVE  Ledger!Takeover
<1> DEFINE share == KingShare(price)
           due == [a \in Accounts |-> ethPaid[a] + kingEthBalance[a] + refundEthBalance[a]]
<1>1. /\ SettleEth(price, credited, payer) /\ credited >= price /\ newKing # currentKing
      /\ currentKing' = newKing /\ reignEthRecipient' = e /\ reignClaimRecipient' = c
      /\ SettleClaim
  BY DEF ExecuteTakeover, StartReign
<1>2. PICK sentShare, sentRoyalty, sentRefund, owedShare, owedRoyalty, owedRefund \in Nat :
        /\ sentShare + owedShare = share
        /\ sentRoyalty + owedRoyalty = price - share
        /\ sentRefund + owedRefund = credited - price
        /\ kingEthBalance' = Plus(kingEthBalance, reignEthRecipient, owedShare)
        /\ shareholderEthPending' = shareholderEthPending + owedRoyalty
        /\ refundEthBalance' = Plus(refundEthBalance, payer, owedRefund)
        /\ ethPaid' = Plus(Plus(ethPaid, reignEthRecipient, sentShare), payer, sentRefund)
        /\ royaltiesEth' = royaltiesEth + sentRoyalty
        /\ ethReceived' = ethReceived + credited
  BY <1>1, SettleEthEffect
<1>3. share = Ledger!KingShare(price) /\ share \in Nat
  BY KingShareAtMost DEF KingShare, Ledger!KingShare
<1>4. (royaltiesEth + shareholderEthPending)' =
        royaltiesEth + shareholderEthPending + (price - share)
  <2> HIDE DEF share
  <2> QED BY <1>2, <1>3 DEF Inv, EthInv
<1>5. due' = Ledger!Plus(Ledger!Plus(due, reignEthRecipient, share), payer, credited - price)
  <2> DEFINE at(a, b, x) == IF b = a THEN x ELSE 0
             both == Ledger!Plus(Ledger!Plus(due, reignEthRecipient, share), payer,
                                 credited - price)
  <2> SUFFICES ASSUME NEW a \in Accounts
               PROVE  ethPaid'[a] + kingEthBalance'[a] + refundEthBalance'[a] = both[a]
    BY DEF Ledger!Plus
  <2> HIDE DEF share
  <2>1. ethPaid[a] \in Nat /\ kingEthBalance[a] \in Nat /\ refundEthBalance[a] \in Nat
    BY DEF Inv, EthInv
  <2>2. /\ ethPaid'[a] = ethPaid[a] + at(reignEthRecipient, a, sentShare)
                           + at(payer, a, sentRefund)
        /\ kingEthBalance'[a] = kingEthBalance[a] + at(reignEthRecipient, a, owedShare)
        /\ refundEthBalance'[a] = refundEthBalance[a] + at(payer, a, owedRefund)
    BY <1>2, <2>1 DEF Plus
  <2>3. both[a] = due[a] + at(reignEthRecipient, a, share) + at(payer, a, credited - price)
    BY <1>3, <2>1 DEF Ledger!Plus
  <2>4. due[a] = ethPaid[a] + kingEthBalance[a] + refundEthBalance[a]
    OBVIOUS
  <2> HIDE DEF both, due
  <2>5. /\ at(reignEthRecipient, a, share) =
             at(reignEthRecipient, a, sentShare) + at(reignEthRecipient, a, owedShare)
        /\ at(payer, a, credited - price) =
             at(payer, a, sentRefund) + at(payer, a, owedRefund)
    BY <1>2
  <2>6. /\ at(reignEthRecipient, a, sentShare) \in Nat /\ at(payer, a, sentRefund) \in Nat
        /\ at(reignEthRecipient, a, owedShare) \in Nat /\ at(payer, a, owedRefund) \in Nat
    BY <1>2
  <2> HIDE DEF at
  <2> QED BY <2>1, <2>2, <2>3, <2>4, <2>5, <2>6
<1>6. credited - price \in Nat /\ ethReceived' = ethReceived + price + (credited - price)
  BY <1>1, <1>2 DEF Inv, EthInv
<1>7. Ledger!SettleClaim
  BY <1>1, LedgerClaim DEF Inv
<1> HIDE DEF share
<1> QED BY <1>1, <1>3, <1>4, <1>5, <1>6, <1>7 DEF Ledger!Takeover

(* Everything else pays out of a bucket, or moves nothing of the ledger. *)
LEMMA LedgerWithdrawals ==
  ASSUME Inv, NEW user \in Accounts,
         WithdrawKingBalance(user) \/ WithdrawRefundBalance(user)
  PROVE  UNCHANGED Ledger!vars
<1> DEFINE due == [a \in Accounts |-> ethPaid[a] + kingEthBalance[a] + refundEthBalance[a]]
<1>1. due' = due
  <2> SUFFICES ASSUME NEW a \in Accounts
               PROVE  ethPaid'[a] + kingEthBalance'[a] + refundEthBalance'[a] =
                        ethPaid[a] + kingEthBalance[a] + refundEthBalance[a]
    OBVIOUS
  <2>1. /\ ethPaid \in [Accounts -> Nat] /\ kingEthBalance \in [Accounts -> Nat]
        /\ refundEthBalance \in [Accounts -> Nat]
    BY DEF Inv, EthInv
  <2>2. CASE WithdrawKingBalance(user)
    BY <2>1, <2>2 DEF WithdrawKingBalance, Plus
  <2>3. CASE WithdrawRefundBalance(user)
    BY <2>1, <2>3 DEF WithdrawRefundBalance, Plus
  <2> QED BY <2>2, <2>3
<1>2. UNCHANGED <<currentKing, reignEthRecipient, reignClaimRecipient, ethReceived, royaltiesEth,
                  shareholderEthPending, claimPaid, pendingKingClaim>>
  BY DEF WithdrawKingBalance, WithdrawRefundBalance, reignVars, routeVars, claimVars
<1>3. UNCHANGED [a \in Accounts |-> claimPaid[a] + pendingKingClaim[a]]
  BY <1>2
<1>4. UNCHANGED (royaltiesEth + shareholderEthPending)
  BY <1>2
<1> HIDE DEF due
<1> QED BY <1>1, <1>2, <1>3, <1>4 DEF Ledger!vars, due

LEMMA LedgerPendingClaim ==
  ASSUME Inv, NEW user \in Accounts, NEW to \in Accounts, WithdrawPendingClaim(user, to)
  PROVE  UNCHANGED Ledger!vars
<1>1. UNCHANGED [a \in Accounts |-> claimPaid[a] + pendingKingClaim[a]]
  <2> SUFFICES ASSUME NEW a \in Accounts
               PROVE  claimPaid'[a] + pendingKingClaim'[a] = claimPaid[a] + pendingKingClaim[a]
    OBVIOUS
  <2> QED BY DEF Inv, ClaimInv, WithdrawPendingClaim, Plus
<1>2. UNCHANGED <<currentKing, reignEthRecipient, reignClaimRecipient, ethReceived, royaltiesEth,
                  shareholderEthPending, ethPaid, kingEthBalance, refundEthBalance>>
  BY DEF WithdrawPendingClaim, reignVars, routeVars, ethVars
<1>3. UNCHANGED [a \in Accounts |-> ethPaid[a] + kingEthBalance[a] + refundEthBalance[a]]
  BY <1>2
<1> QED BY <1>1, <1>2, <1>3 DEF Ledger!vars

LEMMA LedgerRetry == ASSUME Inv, RetryPushShareholderEth PROVE UNCHANGED Ledger!vars
<1>1. PICK sent \in {0, shareholderEthPending} :
        /\ shareholderEthPending' = shareholderEthPending - sent
        /\ royaltiesEth' = royaltiesEth + sent
  BY DEF RetryPushShareholderEth
<1>2. UNCHANGED (royaltiesEth + shareholderEthPending)
  BY <1>1 DEF Inv, EthInv
<1>3. UNCHANGED <<currentKing, reignEthRecipient, reignClaimRecipient, ethReceived, ethPaid,
                  kingEthBalance, refundEthBalance, claimPaid, pendingKingClaim>>
  BY DEF RetryPushShareholderEth, reignVars, routeVars, claimVars
<1> QED BY <1>2, <1>3 DEF Ledger!vars

LEMMA LedgerFrame ==
  ASSUME UNCHANGED <<currentKing, reignEthRecipient, reignClaimRecipient, ethReceived, ethPaid,
                     kingEthBalance, refundEthBalance, royaltiesEth, shareholderEthPending,
                     claimPaid, pendingKingClaim>>
  PROVE  UNCHANGED Ledger!vars
  BY DEF Ledger!vars

LEMMA LedgerSetRecipients ==
  ASSUME NEW caller \in Accounts, NEW e \in Recipients, NEW c \in Recipients,
         SetCurrentReignRecipients(caller, e, c)
  PROVE  Ledger!SetRecipients
<1>1. UNCHANGED <<currentKing, ethReceived, royaltiesEth, shareholderEthPending, ethPaid,
                  kingEthBalance, refundEthBalance, claimPaid, pendingKingClaim>>
  BY DEF SetCurrentReignRecipients, reignVars, ethVars, claimVars
<1> QED BY <1>1, CoreAssumption DEF SetCurrentReignRecipients, Ledger!SetRecipients

LEMMA LedgerStep == Amounts = Nat /\ Inv /\ [Next]_vars => [Ledger!Next]_(Ledger!vars)
<1> SUFFICES ASSUME Amounts = Nat, Inv, [Next]_vars PROVE [Ledger!Next]_(Ledger!vars)
  OBVIOUS
<1>1. CASE UNCHANGED vars
  BY <1>1, LedgerFrame DEF vars, reignVars, routeVars, ethVars, claimVars
<1>2. CASE \E newKing, e, c, payer \in Accounts, price, credited \in Nat :
             ExecuteTakeover(credited, price, newKing, e, c, payer)
  BY <1>2, LedgerTakeover DEF Ledger!Next
<1>3. CASE \E caller \in Accounts, e, c \in Recipients : SetCurrentReignRecipients(caller, e, c)
  BY <1>3, LedgerSetRecipients DEF Ledger!Next
<1>4. CASE PauseTakeovers \/ UnpauseTakeovers \/ Tick \/ CollectGenesisKingClaim
           \/ (\E g \in Guardians : SetGuardian(g))
           \/ (\E x \in ForcedEth : ForceEth(x)) \/ RescueEth
           \/ (\E x \in DonatedClaim : DonateClaim(x)) \/ RescueClaim \/ LocksMove
  <2>1. UNCHANGED <<currentKing, reignEthRecipient, reignClaimRecipient, ethReceived, ethPaid,
                    kingEthBalance, refundEthBalance, royaltiesEth, shareholderEthPending,
                    claimPaid, pendingKingClaim>>
    BY <1>4 DEF PauseTakeovers, UnpauseTakeovers, Tick, CollectGenesisKingClaim, SetGuardian,
                ForceEth, RescueEth, DonateClaim, RescueClaim, LocksMove, reignVars, routeVars,
                ethVars, claimVars
  <2> QED BY <2>1, LedgerFrame
<1>5. CASE Next
  BY <1>2, <1>3, <1>4, <1>5, TakeoverForm, LedgerWithdrawals, LedgerPendingClaim, LedgerRetry
     DEF Next, Inv
<1> QED BY <1>1, <1>5

(***************************************************************************)
(* MineCore implements the ledger in which a takeover pays everyone on the *)
(* spot: no failure, retry, withdrawal, pause or rescue changes what an    *)
(* account, or the shareholders, are entitled to.                          *)
(***************************************************************************)
THEOREM LedgerRefinement == ASSUME Amounts = Nat PROVE Spec => ImplementsThroneLedger
<1>1. Init => Ledger!Init
  BY LedgerInit
<1>2. Inv /\ [Next]_vars => [Ledger!Next]_(Ledger!vars)
  BY LedgerStep
<1> QED BY <1>1, <1>2, InvAlways, PTL DEF Spec, ImplementsThroneLedger, Ledger!Spec
=============================================================================
