-------------------------- MODULE MarketRouterProofs --------------------------
(***************************************************************************)
(* The books of MarketRouter, for any number of users, locks and offers    *)
(* and however often the router is replaced: the arrays that list what     *)
(* each user has open, the CLAIM in escrow, and that a lock frozen by its  *)
(* listing can be taken back.                                              *)
(***************************************************************************)
EXTENDS MarketRouter, SumTheorems

Holders == Users \cup {NoOne}
LockRec == [owner : Holders, amount : Int, end : Int, auto : BOOLEAN, listed : BOOLEAN]
ListingRec == [seller : Holders, minOut : Int, listedAt : Int, expires : Int, active : BOOLEAN]
Goals == Locks \cup {NoOne}
OfferRec == [buyer : Holders, funds : Int, createdAt : Int, expires : Int, dest : Goals,
             auto : BOOLEAN, duration : Int, active : BOOLEAN]

-----------------------------------------------------------------------------
(* The array of each user and the index of each entry, of what h says is   *)
(* whose.  An index of zero says that an entry is in no array.             *)
Places(A, I, h, D) ==
  /\ A \in [Users -> Seq(D)] /\ I \in [D -> Nat] /\ h \in [D -> Holders]
  /\ \A x \in D : h[x] = NoOne => I[x] = 0
  /\ \A x \in D : h[x] # NoOne => I[x] \in 1..Len(A[h[x]]) /\ A[h[x]][I[x]] = x
  /\ \A u \in Users : \A k \in 1..Len(A[u]) : h[A[u][k]] = u /\ I[A[u][k]] = k

LEMMA PlacesAreIndexed ==
  ASSUME NEW A, NEW I, NEW h, NEW D, Places(A, I, h, D)
  PROVE  Indexed(A, I, h)
<1>1. DOMAIN h = D
  BY DEF Places
<1>2. ASSUME NEW u \in Users
      PROVE  ToSet(A[u]) = {x \in D : h[x] = u} /\ IsInjective(A[u])
  <2>1. A[u] \in Seq(D) /\ u # NoOne
    BY PartiesAssumption DEF Places
  <2>2. DOMAIN A[u] = 1..Len(A[u]) /\ \A k \in 1..Len(A[u]) : A[u][k] \in D
    BY <2>1
  <2>3. \A k \in 1..Len(A[u]) : h[A[u][k]] = u /\ I[A[u][k]] = k
    BY DEF Places
  <2>4. \A x \in D : h[x] = u => I[x] \in 1..Len(A[u]) /\ A[u][I[x]] = x
    BY <2>1 DEF Places
  <2>5. ToSet(A[u]) = {A[u][k] : k \in 1..Len(A[u])}
    BY <2>2 DEF ToSet
  <2>6. ToSet(A[u]) = {x \in D : h[x] = u}
    BY <2>2, <2>3, <2>4, <2>5
  <2>7. IsInjective(A[u])
    BY <2>2, <2>3 DEF IsInjective
  <2> QED
    BY <2>6, <2>7
<1>3. \A x \in D : h[x] # NoOne => I[x] \in DOMAIN A[h[x]] /\ A[h[x]][I[x]] = x
  BY DEF Places, Holders
<1> QED
  BY <1>1, <1>2, <1>3 DEF Indexed

(* What is new goes to the end of the array of its holder.                 *)
LEMMA GrowingPlaces ==
  ASSUME NEW A, NEW I, NEW h, NEW D, Places(A, I, h, D),
         NEW u \in Users, NEW x \in D, h[x] = NoOne,
         NEW B, NEW J, B = Grown(A, I, u, x).arrays, J = Grown(A, I, u, x).index
  PROVE  Places(B, J, [h EXCEPT ![x] = u], D)
<1> DEFINE n == Len(A[u])
           g == [h EXCEPT ![x] = u]
<1>1. I[x] = 0 /\ A[u] \in Seq(D) /\ n \in Nat /\ u # NoOne
  BY PartiesAssumption DEF Places
<1>2. B = [A EXCEPT ![u] = Append(A[u], x)] /\ J = [I EXCEPT ![x] = n + 1]
  BY <1>1 DEF Grown
<1>3. /\ B[u] \in Seq(D) /\ Len(B[u]) = n + 1 /\ B[u][n + 1] = x
      /\ \A k \in 1..n : B[u][k] = A[u][k]
      /\ \A v \in Users : v # u => B[v] = A[v]
      /\ B \in [Users -> Seq(D)]
  BY <1>1, <1>2 DEF Places
<1>4. /\ J \in [D -> Nat] /\ J[x] = n + 1 /\ \A y \in D : y # x => J[y] = I[y]
      /\ g \in [D -> Holders] /\ g[x] = u /\ \A y \in D : y # x => g[y] = h[y]
  BY <1>1, <1>2 DEF Places, Holders
<1>5. \A v \in Users : \A k \in 1..Len(A[v]) :
        A[v][k] \in D /\ A[v][k] # x /\ h[A[v][k]] = v /\ I[A[v][k]] = k
  BY <1>1, PartiesAssumption DEF Places
<1> HIDE DEF n, g
<1>6. \A y \in D : g[y] = NoOne => J[y] = 0
  BY <1>1, <1>4 DEF Places
<1>7. ASSUME NEW y \in D, g[y] # NoOne
      PROVE  J[y] \in 1..Len(B[g[y]]) /\ B[g[y]][J[y]] = y
  <2>1. CASE y = x
    BY <2>1, <1>1, <1>3, <1>4
  <2>2. CASE y # x
    <3>1. g[y] = h[y] /\ h[y] \in Users /\ J[y] = I[y]
      BY <1>4, <1>7, <2>2 DEF Holders
    <3>2. I[y] \in 1..Len(A[h[y]]) /\ A[h[y]][I[y]] = y
      BY <3>1, <1>7 DEF Places
    <3>3. CASE h[y] = u
      BY <3>1, <3>2, <3>3, <1>1, <1>3 DEF n
    <3>4. CASE h[y] # u
      BY <3>1, <3>2, <3>4, <1>3
    <3> QED
      BY <3>3, <3>4
  <2> QED
    BY <2>1, <2>2
<1>8. ASSUME NEW v \in Users, NEW k \in 1..Len(B[v])
      PROVE  g[B[v][k]] = v /\ J[B[v][k]] = k
  <2>1. CASE v # u
    <3>1. B[v] = A[v] /\ k \in 1..Len(A[v])
      BY <1>3, <1>8, <2>1
    <3>2. A[v][k] \in D /\ A[v][k] # x /\ h[A[v][k]] = v /\ I[A[v][k]] = k
      BY <1>5, <3>1
    <3> QED
      BY <1>4, <3>1, <3>2
  <2>2. CASE v = u /\ k = n + 1
    BY <1>3, <1>4, <2>2
  <2>3. CASE v = u /\ k # n + 1
    <3>1. k \in 1..Len(A[u])
      BY <1>1, <1>3, <1>8, <2>3 DEF n
    <3> QED
      BY <1>3, <1>4, <1>5, <2>3, <3>1 DEF n
  <2> QED
    BY <2>1, <2>2, <2>3
<1>9. Places(B, J, g, D)
  BY <1>3, <1>4, <1>6, <1>7, <1>8 DEF Places
<1> QED
  BY <1>9 DEF g

(* What goes leaves its place to the last of the array.                    *)
LEMMA ShrinkingPlaces ==
  ASSUME NEW A, NEW I, NEW h, NEW D, Places(A, I, h, D),
         NEW u \in Users, NEW x \in D, h[x] = u,
         NEW B, NEW J, B = Shrunk(A, I, u, x).arrays, J = Shrunk(A, I, u, x).index
  PROVE  Places(B, J, [h EXCEPT ![x] = NoOne], D)
<1> DEFINE n == Len(A[u])
           i == I[x]
           last == A[u][n]
           g == [h EXCEPT ![x] = NoOne]
<1>1. u # NoOne /\ A[u] \in Seq(D) /\ n \in Nat /\ i \in 1..n /\ A[u][i] = x /\ i # 0
  BY PartiesAssumption DEF Places
<1>2. n \in 1..n /\ last \in D /\ Last(A[u]) = last /\ h[last] = u /\ I[last] = n
  <2>1. n \in 1..n
    BY <1>1
  <2>2. last \in D /\ Last(A[u]) = last
    BY <1>1, <2>1 DEF Last
  <2>3. \A k \in 1..Len(A[u]) : h[A[u][k]] = u /\ I[A[u][k]] = k
    BY DEF Places
  <2> QED
    BY <2>1, <2>2, <2>3
<1>3. /\ B = [A EXCEPT ![u] = Front([A[u] EXCEPT ![i] = last])]
      /\ J = [I EXCEPT ![last] = i, ![x] = 0]
  BY <1>1, <1>2 DEF Shrunk
<1>4. /\ B \in [Users -> Seq(D)] /\ Len(B[u]) = n - 1
      /\ \A k \in 1..n - 1 : B[u][k] = IF k = i THEN last ELSE A[u][k]
      /\ \A v \in Users : v # u => B[v] = A[v]
  <2> DEFINE s == [A[u] EXCEPT ![i] = last]
  <2>1. s \in Seq(D) /\ Len(s) = n /\ \A k \in 1..n : s[k] = IF k = i THEN last ELSE A[u][k]
    BY <1>1, <1>2
  <2> HIDE DEF s, last, i
  <2>2. Front(s) \in Seq(D) /\ Len(Front(s)) = n - 1 /\ \A k \in 1..n - 1 : Front(s)[k] = s[k]
    BY <1>2, <2>1 DEF Front
  <2>3. B = [A EXCEPT ![u] = Front(s)]
    BY <1>3 DEF s
  <2>4. \A k \in 1..n - 1 : k \in 1..n
    BY <1>1
  <2> HIDE DEF n
  <2>5. \A k \in 1..n - 1 : Front(s)[k] = IF k = i THEN last ELSE A[u][k]
    BY <2>1, <2>2, <2>4
  <2>6. A \in [Users -> Seq(D)]
    BY DEF Places
  <2> QED
    BY <2>2, <2>3, <2>5, <2>6
<1>5. /\ J \in [D -> Nat] /\ J[x] = 0 /\ (last # x => J[last] = i)
      /\ \A y \in D : y # x /\ y # last => J[y] = I[y]
  <2>1. i \in Nat /\ last \in D /\ I \in [D -> Nat]
    BY <1>1, <1>2 DEF Places
  <2> HIDE DEF i, last
  <2> QED
    BY <1>3, <2>1
<1>6. /\ g \in [D -> Holders] /\ g[x] = NoOne /\ \A y \in D : y # x => g[y] = h[y]
  BY DEF Places, Holders
<1>7. \A v \in Users : \A k \in 1..Len(A[v]) :
        A[v][k] \in D /\ h[A[v][k]] = v /\ I[A[v][k]] = k
  BY DEF Places
<1> HIDE DEF n, i, last, g
<1>8. \A y \in D : g[y] = NoOne => J[y] = 0
  <2> TAKE y \in D
  <2> HAVE g[y] = NoOne
  <2>1. CASE y = x
    BY <2>1, <1>5
  <2>2. CASE y # x
    BY <2>2, <1>1, <1>2, <1>5, <1>6 DEF Places
  <2> QED
    BY <2>1, <2>2
<1>9. ASSUME NEW y \in D, g[y] # NoOne
      PROVE  J[y] \in 1..Len(B[g[y]]) /\ B[g[y]][J[y]] = y
  <2>1. y # x /\ g[y] = h[y] /\ h[y] \in Users
    BY <1>6, <1>9 DEF Holders
  <2>2. I[y] \in 1..Len(A[h[y]]) /\ A[h[y]][I[y]] = y
    BY <2>1, <1>9 DEF Places
  <2>3. CASE y = last
    <3>1. h[y] = u /\ J[y] = i /\ i # n /\ i \in 1..n - 1
      BY <1>1, <1>2, <1>5, <2>1, <2>3 DEF last
    <3> QED
      BY <1>4, <2>1, <2>3, <3>1
  <2>4. CASE y # last /\ h[y] = u
    <3>1. J[y] = I[y] /\ I[y] \in 1..n - 1 /\ I[y] # i
      BY <1>1, <1>5, <2>1, <2>2, <2>4 DEF n, last
    <3> QED
      BY <1>4, <2>1, <2>2, <2>4, <3>1
  <2>5. CASE y # last /\ h[y] # u
    BY <1>4, <1>5, <2>1, <2>2, <2>5
  <2> QED
    BY <2>3, <2>4, <2>5
<1>10. ASSUME NEW v \in Users, NEW k \in 1..Len(B[v])
       PROVE  g[B[v][k]] = v /\ J[B[v][k]] = k
  <2>1. CASE v # u
    <3>1. B[v] = A[v] /\ k \in 1..Len(A[v])
      BY <1>4, <1>10, <2>1
    <3>2. A[v][k] \in D /\ h[A[v][k]] = v /\ I[A[v][k]] = k
      BY <1>7, <3>1
    <3>3. A[v][k] # x /\ A[v][k] # last
      BY <1>2, <2>1, <3>2
    <3> QED
      BY <1>5, <1>6, <3>1, <3>2, <3>3
  <2>2. CASE v = u /\ k = i
    <3>1. k \in 1..n - 1 /\ B[u][k] = last /\ i # n
      BY <1>1, <1>4, <1>10, <2>2
    <3>2. last # x
      BY <1>2, <3>1 DEF i
    <3> QED
      BY <1>2, <1>5, <1>6, <2>2, <3>1, <3>2
  <2>3. CASE v = u /\ k # i
    <3>1. k \in 1..n - 1 /\ k \in 1..Len(A[u]) /\ k # n /\ B[u][k] = A[u][k]
      BY <1>1, <1>4, <1>10, <2>3 DEF n
    <3>2. A[u][k] \in D /\ h[A[u][k]] = u /\ I[A[u][k]] = k
      BY <1>7, <3>1
    <3>3. A[u][k] # x /\ A[u][k] # last
      BY <1>2, <2>3, <3>1, <3>2 DEF i
    <3> QED
      BY <1>5, <1>6, <2>3, <3>1, <3>2, <3>3
  <2> QED
    BY <2>1, <2>2, <2>3
<1>11. Places(B, J, g, D)
  BY <1>4, <1>5, <1>6, <1>8, <1>9, <1>10 DEF Places
<1> QED
  BY <1>11 DEF g

-----------------------------------------------------------------------------
(* The inductive invariant.  A lock that is listed here still belongs to   *)
(* its seller, or is gone for good: ids are minted once.                   *)
Typed ==
  /\ now \in Int /\ lock \in [Locks -> LockRec] /\ listing \in [Locks -> ListingRec]
  /\ offer \in [Offers -> OfferRec] /\ rewires \in Nat /\ escrow \in Int
LocksInv ==
  \A t \in Locks : /\ lock[t].owner # NoOne => t \in minted
                   /\ lock[t].listed => lock[t].owner # NoOne
ListingsInv ==
  /\ \A t \in Locks :
       /\ listing[t].active => /\ t \in minted /\ listing[t].seller # NoOne
                               /\ lock[t].owner \in {listing[t].seller, NoOne}
       /\ rewires = 0 => (lock[t].listed <=> listing[t].active)
  /\ rewires = 0 => router = "this"
Seller == [t \in Locks |-> IF listing[t].active THEN listing[t].seller ELSE NoOne]
Buyer == [o \in Offers |-> IF offer[o].active THEN offer[o].buyer ELSE NoOne]
ListPlaces == Places(userListings, listingIndex, Seller, Locks)
OffersInv ==
  /\ \A o \in Offers : offer[o].active => offer[o].buyer # NoOne
  /\ OffersAreBacked
  /\ Places(userOffers, offerIndex, Buyer, Offers)
MarketInv == Typed /\ LocksInv /\ ListingsInv /\ ListPlaces /\ OffersInv

(* The total of the specification is the sum of the theorems.             *)
LEMMA TotalIsSum == \A f, S : Total(f, S) = Sum(f, S)
BY Zenon DEF Total, Sum

LEMMA MarketInitiallyKept == MarketInit => MarketInv
<1> SUFFICES ASSUME MarketInit PROVE MarketInv
  OBVIOUS
<1>1. NoLock \in LockRec /\ NoListing \in ListingRec /\ NoOffer \in OfferRec
  BY DEF NoLock, NoListing, NoOffer, LockRec, ListingRec, OfferRec, Holders, Goals
<1>2. Typed
  BY <1>1 DEF MarketInit, Typed
<1>3. /\ \A t \in Locks : lock[t].owner = NoOne /\ ~lock[t].listed /\ ~listing[t].active
      /\ \A o \in Offers : ~offer[o].active /\ offer[o].funds = 0
  BY DEF MarketInit, NoLock, NoListing, NoOffer
<1>4. LocksInv /\ ListingsInv
  BY <1>3 DEF MarketInit, LocksInv, ListingsInv
<1>5. Seller = [t \in Locks |-> NoOne] /\ Buyer = [o \in Offers |-> NoOne]
  BY <1>3, Zenon DEF Seller, Buyer
<1>6. ListPlaces
  BY <1>5 DEF MarketInit, ListPlaces, Places, Holders
<1>7. Places(userOffers, offerIndex, Buyer, Offers)
  BY <1>5 DEF MarketInit, Places, Holders
<1>8. OffersAreBacked
  <2>1. Funds = [o \in Offers |-> 0] /\ escrow = 0
    BY <1>3, Zenon DEF Funds, MarketInit
  <2>2. Sum(Funds, Offers) = 0
    BY <2>1, SumOfZeroes, PartiesAssumption
  <2> QED
    BY <1>3, <2>1, <2>2, TotalIsSum DEF OffersAreBacked
<1> QED
  BY <1>2, <1>3, <1>4, <1>6, <1>7, <1>8 DEF MarketInv, OffersInv

-----------------------------------------------------------------------------
(* What every transaction does to the locks: ids stay minted, a lock only  *)
(* changes hands to nobody, and none that is gone is listed.               *)
LocksMove ==
  /\ lock' \in [Locks -> LockRec] /\ minted \subseteq minted'
  /\ \A t \in Locks : /\ lock'[t].owner # NoOne => t \in minted'
                      /\ lock'[t].listed => lock'[t].owner # NoOne
                      /\ t \in minted => lock'[t].owner \in {lock[t].owner, NoOne}
FlagsStay == \A t \in Locks : lock'[t].listed = lock[t].listed

(* A lock keeps its owner and its flag.                                    *)
LEMMA SameOwners ==
  ASSUME Typed, LocksInv, UNCHANGED minted, lock' \in [Locks -> LockRec],
         \A t \in Locks : lock'[t].owner = lock[t].owner /\ lock'[t].listed = lock[t].listed
  PROVE  LocksMove /\ FlagsStay
BY DEF LocksInv, LocksMove, FlagsStay

LEMMA MoreInMoves ==
  ASSUME Typed, LocksInv, UNCHANGED minted, NEW t \in Locks, NEW a \in Int, MoreIn(t, a)
  PROVE  LocksMove /\ FlagsStay
<1> DEFINE e == IF lock[t].auto THEN now + MAXLOCK ELSE lock[t].end
           m == lock[t].amount + a
<1>1. e \in Int /\ m \in Int
  BY MarketAssumption DEF Typed, LockRec
<1>2. lock' = [lock EXCEPT ![t].amount = m, ![t].end = e]
  BY DEF MoreIn
<1> HIDE DEF e, m
<1>3. lock \in [Locks -> LockRec]
  BY DEF Typed
<1>4. /\ lock' \in [Locks -> LockRec]
      /\ \A x \in Locks : lock'[x].owner = lock[x].owner /\ lock'[x].listed = lock[x].listed
  BY <1>1, <1>2, <1>3 DEF LockRec
<1> QED
  BY <1>4, SameOwners

LEMMA NewLockMoves ==
  ASSUME Typed, LocksInv, NEW t \in Locks \ minted, NEW u \in Users, NEW a \in Int, NEW d \in Int,
         NEW auto \in BOOLEAN, NewLock(t, u, a, d, auto), minted' = minted \cup {t}
  PROVE  LocksMove /\ FlagsStay
<1> DEFINE r == [owner |-> u, amount |-> a, end |-> now + (IF auto THEN MAXLOCK ELSE d),
                 auto |-> auto, listed |-> FALSE]
<1>1. r \in LockRec /\ r.owner = u /\ r.listed = FALSE /\ u # NoOne
  BY MarketAssumption, PartiesAssumption DEF Typed, LockRec, Holders
<1>2. lock' = [lock EXCEPT ![t] = r]
  BY DEF NewLock
<1> HIDE DEF r
<1>3. lock \in [Locks -> LockRec] /\ lock[t].listed = FALSE
  BY DEF Typed, LocksInv, LockRec
<1>4. lock' \in [Locks -> LockRec] /\ lock'[t] = r /\ \A x \in Locks : x # t => lock'[x] = lock[x]
  BY <1>1, <1>2, <1>3
<1> QED
  BY <1>1, <1>3, <1>4 DEF LocksInv, LocksMove, FlagsStay

LEMMA GoneMoves ==
  ASSUME Typed, LocksInv, UNCHANGED minted, NEW t \in Locks, Gone(t)
  PROVE  LocksMove /\ ~lock'[t].listed /\ \A x \in Locks : x # t => lock'[x].listed = lock[x].listed
<1>1. NoLock \in LockRec /\ NoLock.owner = NoOne /\ NoLock.listed = FALSE
  BY DEF NoLock, LockRec, Holders
<1>2. lock \in [Locks -> LockRec] /\ lock' = [lock EXCEPT ![t] = NoLock]
  BY DEF Typed, Gone
<1>3. lock' \in [Locks -> LockRec] /\ lock'[t] = NoLock /\ \A x \in Locks : x # t => lock'[x] = lock[x]
  BY <1>1, <1>2
<1> QED
  BY <1>1, <1>3 DEF LocksInv, LocksMove

(* The flag of a lock that somebody owns.                                  *)
LEMMA FlagMoves ==
  ASSUME Typed, LocksInv, UNCHANGED minted, NEW t \in Locks, NEW b \in BOOLEAN,
         b => lock[t].owner # NoOne, lock' = [lock EXCEPT ![t].listed = b]
  PROVE  /\ LocksMove /\ lock'[t].listed = b
         /\ \A x \in Locks : x # t => lock'[x].listed = lock[x].listed
         /\ \A x \in Locks : lock'[x].owner = lock[x].owner
<1>1. lock \in [Locks -> LockRec]
  BY DEF Typed
<1>2. /\ lock' \in [Locks -> LockRec] /\ lock'[t].listed = b
      /\ \A x \in Locks : x # t => lock'[x] = lock[x]
      /\ \A x \in Locks : lock'[x].owner = lock[x].owner
  BY <1>1 DEF LockRec
<1> QED
  BY <1>2 DEF LocksInv, LocksMove

LEMMA OffersStay ==
  ASSUME OffersInv, UNCHANGED offerVars
  PROVE  OffersInv'
<1>1. Buyer' = Buyer /\ Funds' = Funds
  BY Zenon DEF offerVars, Buyer, Funds
<1>2. OffersAreBacked'
  BY <1>1, Zenon DEF OffersInv, offerVars, OffersAreBacked
<1>3. Places(userOffers, offerIndex, Buyer, Offers)'
  BY <1>1, Zenon DEF OffersInv, offerVars, Places
<1> QED
  BY <1>2, <1>3, Zenon DEF OffersInv, offerVars

LEMMA SameListPlaces ==
  ASSUME ListPlaces, UNCHANGED <<Seller, userListings, listingIndex>>
  PROVE  ListPlaces'
<1>1. Seller' = Seller /\ userListings' = userListings /\ listingIndex' = listingIndex
  BY Zenon
<1> QED
  BY <1>1, Zenon DEF ListPlaces, Places

LEMMA ListPlacesStay ==
  ASSUME ListPlaces, UNCHANGED listingVars
  PROVE  ListPlaces'
<1>1. Seller' = Seller
  BY Zenon DEF listingVars, Seller
<1> QED
  BY <1>1, SameListPlaces, Zenon DEF listingVars

(* Transactions that neither list nor delist.                              *)
LEMMA LockActionKeeps ==
  ASSUME MarketInv, LocksMove, FlagsStay,
         UNCHANGED <<now, router, listingVars, offerVars, rewires>>
  PROVE  MarketInv'
<1>1. OffersInv' /\ ListPlaces'
  BY OffersStay, ListPlacesStay DEF MarketInv
<1>2. Typed'
  BY DEF MarketInv, Typed, LocksMove, listingVars, offerVars
<1>3. LocksInv' /\ ListingsInv'
  BY DEF MarketInv, LocksInv, ListingsInv, LocksMove, FlagsStay, listingVars
<1> QED
  BY <1>1, <1>2, <1>3 DEF MarketInv

(* A listing is taken off the books.                                       *)
LEMMA Clearing ==
  ASSUME MarketInv, NEW t \in Locks, NEW u, listing[t].active, listing[t].seller = u,
         ClearListing(t, u)
  PROVE  /\ u \in Users /\ listing' \in [Locks -> ListingRec] /\ ~listing'[t].active
         /\ \A x \in Locks : x # t => listing'[x] = listing[x]
         /\ ListPlaces'
<1>1. listing \in [Locks -> ListingRec] /\ u # NoOne
  BY DEF MarketInv, Typed, ListingsInv
<1>2. u \in Users
  BY <1>1 DEF ListingRec, Holders
<1>3. NoListing \in ListingRec /\ ~NoListing.active
  BY DEF NoListing, ListingRec, Holders
<1>4. /\ listing' = [listing EXCEPT ![t] = NoListing]
      /\ userListings' = Shrunk(userListings, listingIndex, u, t).arrays
      /\ listingIndex' = Shrunk(userListings, listingIndex, u, t).index
  BY Zenon DEF ClearListing
<1>5. /\ listing' \in [Locks -> ListingRec] /\ listing'[t] = NoListing
      /\ \A x \in Locks : x # t => listing'[x] = listing[x]
  BY <1>1, <1>3, <1>4
<1>6. Seller[t] = u /\ Seller' = [Seller EXCEPT ![t] = NoOne]
  BY <1>3, <1>5 DEF Seller
<1>7. Places(userListings', listingIndex', [Seller EXCEPT ![t] = NoOne], Locks)
  BY <1>2, <1>4, <1>6, ShrinkingPlaces DEF MarketInv, ListPlaces
<1>8. ListPlaces'
  BY <1>6, <1>7, Zenon DEF ListPlaces, Places
<1> QED
  BY <1>2, <1>3, <1>5, <1>8

(* What is done to one lock and its listing together.                      *)
LEMMA ListingActionKeeps ==
  ASSUME MarketInv, LocksMove, NEW t \in Locks,
         \A x \in Locks : x # t => lock'[x].listed = lock[x].listed,
         listing' \in [Locks -> ListingRec], \A x \in Locks : x # t => listing'[x] = listing[x],
         listing'[t].active => /\ t \in minted' /\ listing'[t].seller # NoOne
                               /\ lock'[t].owner \in {listing'[t].seller, NoOne},
         rewires = 0 => (lock'[t].listed <=> listing'[t].active),
         ListPlaces', UNCHANGED <<now, router, offerVars, rewires>>
  PROVE  MarketInv'
<1>1. OffersInv'
  BY OffersStay DEF MarketInv
<1>2. Typed'
  BY DEF MarketInv, Typed, LocksMove, offerVars
<1>3. LocksInv'
  BY DEF LocksInv, LocksMove
<1>4. ASSUME NEW x \in Locks
      PROVE  /\ listing'[x].active => /\ x \in minted' /\ listing'[x].seller # NoOne
                                      /\ lock'[x].owner \in {listing'[x].seller, NoOne}
             /\ rewires' = 0 => (lock'[x].listed <=> listing'[x].active)
  <2>1. CASE x = t
    BY <2>1
  <2>2. CASE x # t
    BY <2>2 DEF MarketInv, ListingsInv, LocksMove
  <2> QED
    BY <2>1, <2>2
<1>5. ListingsInv'
  BY <1>4 DEF MarketInv, ListingsInv
<1> QED
  BY <1>1, <1>2, <1>3, <1>5 DEF MarketInv

-----------------------------------------------------------------------------
(* The calls of the ve contract.                                           *)
LEMMA LockCallKeeps ==
  ASSUME MarketInv, NEW u \in Users, LockCall(u)
  PROVE  MarketInv'
<1> USE DEF MarketInv
<1>1. PICK t \in Locks :
        \/ \E a \in Amounts, d \in Durations, auto \in BOOLEAN : CreateLock(u, t, a, d, auto)
        \/ \E a \in Amounts : AddToLock(u, t, a)
        \/ \E e \in now + 1..now + MAXLOCK : ExtendLock(u, t, e)
        \/ \E on \in BOOLEAN : SetAutoMax(u, t, on)
        \/ \E f \in Locks : MergeLocks(u, f, t)
        \/ Unlock(u, t)
  BY Zenon DEF LockCall
<1>2. ASSUME NEW a \in Amounts, NEW d \in Durations, NEW auto \in BOOLEAN, CreateLock(u, t, a, d, auto)
      PROVE  MarketInv'
  <2>1. a \in Int /\ d \in Int
    BY MarketAssumption
  <2>2. /\ t \notin minted /\ NewLock(t, u, a, d, auto) /\ minted' = minted \cup {t}
        /\ UNCHANGED <<now, router, listingVars, offerVars, rewires>>
    BY <1>2, Zenon DEF CreateLock
  <2> QED
    BY <2>1, <2>2, NewLockMoves, LockActionKeeps
<1>3. ASSUME NEW a \in Amounts, AddToLock(u, t, a)
      PROVE  MarketInv'
  <2>1. a \in Int
    BY MarketAssumption
  <2>2. MoreIn(t, a) /\ UNCHANGED <<now, minted, router, listingVars, offerVars, rewires>>
    BY <1>3, Zenon DEF AddToLock
  <2> QED
    BY <2>1, <2>2, MoreInMoves, LockActionKeeps
<1>4. ASSUME NEW e \in now + 1..now + MAXLOCK, ExtendLock(u, t, e)
      PROVE  MarketInv'
  <2>1. e \in Int /\ lock \in [Locks -> LockRec]
    BY MarketAssumption DEF Typed
  <2>2. /\ lock' = [lock EXCEPT ![t].end = e]
        /\ UNCHANGED <<now, minted, router, listingVars, offerVars, rewires>>
    BY <1>4, Zenon DEF ExtendLock
  <2>3. /\ lock' \in [Locks -> LockRec]
        /\ \A x \in Locks : lock'[x].owner = lock[x].owner /\ lock'[x].listed = lock[x].listed
    BY <2>1, <2>2 DEF LockRec
  <2> QED
    BY <2>2, <2>3, SameOwners, LockActionKeeps
<1>5. ASSUME NEW on \in BOOLEAN, SetAutoMax(u, t, on)
      PROVE  MarketInv'
  <2> DEFINE e == now + MAXLOCK
  <2>1. e \in Int /\ lock \in [Locks -> LockRec]
    BY MarketAssumption DEF Typed
  <2>2. /\ lock' = [lock EXCEPT ![t].auto = on, ![t].end = e]
        /\ UNCHANGED <<now, minted, router, listingVars, offerVars, rewires>>
    BY <1>5, Zenon DEF SetAutoMax
  <2> HIDE DEF e
  <2>3. /\ lock' \in [Locks -> LockRec]
        /\ \A x \in Locks : lock'[x].owner = lock[x].owner /\ lock'[x].listed = lock[x].listed
    BY <2>1, <2>2 DEF LockRec
  <2> QED
    BY <2>2, <2>3, SameOwners, LockActionKeeps
<1>6. ASSUME NEW f \in Locks, MergeLocks(u, f, t)
      PROVE  MarketInv'
  <2> DEFINE auto == lock[f].auto \/ lock[t].auto
             later == IF lock[f].end > lock[t].end THEN lock[f].end ELSE lock[t].end
             e == IF auto THEN now + MAXLOCK ELSE later
             m == lock[t].amount + lock[f].amount
             gone == [lock EXCEPT ![f] = NoLock]
  <2>1. /\ e \in Int /\ m \in Int /\ auto \in BOOLEAN /\ lock \in [Locks -> LockRec]
        /\ NoLock \in LockRec /\ NoLock.owner = NoOne /\ NoLock.listed = FALSE
    BY MarketAssumption DEF Typed, LockRec, NoLock, Holders
  <2>2. /\ f # t /\ ~lock[f].listed
        /\ lock' = [lock EXCEPT ![f] = NoLock, ![t].amount = m, ![t].auto = auto, ![t].end = e]
        /\ UNCHANGED <<now, minted, router, listingVars, offerVars, rewires>>
    BY <1>6 DEF MergeLocks, Mutable
  <2>3. lock' = [gone EXCEPT ![t].amount = m, ![t].auto = auto, ![t].end = e]
    BY <2>2
  <2> HIDE DEF auto, later, e, m
  <2>4. /\ gone \in [Locks -> LockRec] /\ gone[f] = NoLock
        /\ \A x \in Locks : x # f => gone[x] = lock[x]
    BY <2>1
  <2> HIDE DEF gone
  <2>5. /\ lock' \in [Locks -> LockRec]
        /\ \A x \in Locks : lock'[x].owner = gone[x].owner /\ lock'[x].listed = gone[x].listed
    BY <2>1, <2>3, <2>4 DEF LockRec
  <2>6. LocksMove /\ FlagsStay
    <3>1. \A x \in Locks : lock'[x].owner \in {lock[x].owner, NoOne}
      BY <2>1, <2>4, <2>5
    <3>2. \A x \in Locks : lock'[x].listed = lock[x].listed
      BY <2>1, <2>2, <2>4, <2>5 DEF LockRec
    <3>3. \A x \in Locks : lock'[x].listed => lock'[x].owner # NoOne
      BY <2>1, <2>4, <2>5 DEF LocksInv
    <3> QED
      BY <2>2, <2>5, <3>1, <3>2, <3>3 DEF LocksInv, LocksMove, FlagsStay
  <2> QED
    BY <2>2, <2>6, LockActionKeeps
<1>7. CASE Unlock(u, t)
  <2>1. /\ Gone(t) /\ ~lock[t].listed
        /\ UNCHANGED <<now, minted, router, listingVars, offerVars, rewires>>
    BY <1>7, Zenon DEF Unlock, Gone
  <2>2. LocksMove /\ FlagsStay
    BY <2>1, GoneMoves DEF FlagsStay, LocksMove, LockRec, Typed
  <2> QED
    BY <2>1, <2>2, LockActionKeeps
<1> QED
  BY <1>1, <1>2, <1>3, <1>4, <1>5, <1>6, <1>7

(* A lock is put on the books: a seller who is still there stays listed    *)
(* once.                                                                   *)
LEMMA Listing ==
  ASSUME MarketInv, NEW u \in Users, NEW t \in Locks, NEW r \in ListingRec,
         r.seller = u, r.active, lock[t].owner = u, listing' = [listing EXCEPT ![t] = r],
         userListings' = Grown(userListings, listingIndex, u, t).arrays,
         listingIndex' = Grown(userListings, listingIndex, u, t).index
  PROVE  /\ listing' \in [Locks -> ListingRec] /\ listing'[t] = r
         /\ \A x \in Locks : x # t => listing'[x] = listing[x]
         /\ ListPlaces'
<1>1. listing \in [Locks -> ListingRec] /\ u # NoOne
  BY PartiesAssumption DEF MarketInv, Typed
<1>2. /\ listing' \in [Locks -> ListingRec] /\ listing'[t] = r
      /\ \A x \in Locks : x # t => listing'[x] = listing[x]
  BY <1>1
<1>3. CASE listing[t].active
  <2>1. Seller[t] = u
    BY <1>1, <1>3 DEF MarketInv, ListingsInv, Seller
  <2>2. Seller' = Seller
    <3>1. \A x \in Locks : (IF listing'[x].active THEN listing'[x].seller ELSE NoOne) = Seller[x]
      BY <1>2, <2>1 DEF Seller
    <3> QED
      BY <3>1 DEF Seller
  <2>3. listingIndex[t] # 0
    BY <1>1, <2>1 DEF MarketInv, ListPlaces, Places
  <2>4. userListings' = userListings /\ listingIndex' = listingIndex
    BY <2>3 DEF Grown
  <2>5. ListPlaces'
    BY <2>2, <2>4, SameListPlaces DEF MarketInv
  <2> QED
    BY <1>2, <2>5
<1>4. CASE ~listing[t].active
  <2>1. Seller[t] = NoOne /\ Seller' = [Seller EXCEPT ![t] = u]
    BY <1>2, <1>4 DEF Seller
  <2>2. Places(userListings', listingIndex', [Seller EXCEPT ![t] = u], Locks)
    BY <2>1, GrowingPlaces DEF MarketInv, ListPlaces
  <2>3. ListPlaces'
    BY <2>1, <2>2, Zenon DEF ListPlaces, Places
  <2> QED
    BY <1>2, <2>3
<1> QED
  BY <1>3, <1>4

(* The listing and its flag go together, as a lock is taken off the market.*)
LEMMA TakeOffKeeps ==
  ASSUME MarketInv, NEW t \in Locks, listing[t].active, lock[t].owner # NoOne, TakeOff(t)
  PROVE  MarketInv'
<1>1. /\ ClearListing(t, listing[t].seller) /\ lock' = [lock EXCEPT ![t].listed = FALSE]
      /\ UNCHANGED <<now, minted, router, offerVars, rewires>>
  BY Zenon DEF TakeOff
<1>2. LocksMove /\ ~lock'[t].listed /\ \A x \in Locks : x # t => lock'[x].listed = lock[x].listed
  BY <1>1, FlagMoves DEF MarketInv
<1>3. /\ listing' \in [Locks -> ListingRec] /\ ~listing'[t].active
      /\ \A x \in Locks : x # t => listing'[x] = listing[x]
      /\ ListPlaces'
  BY <1>1, Clearing
<1> QED
  BY <1>1, <1>2, <1>3, ListingActionKeeps

(* A sold lock is burned, listed or not.                                   *)
LEMMA SaleKeeps ==
  ASSUME MarketInv, NEW t \in Locks, NEW u, Gone(t),
         IF listing[t].active THEN listing[t].seller = u /\ ClearListing(t, u)
         ELSE UNCHANGED <<listing, userListings, listingIndex>>,
         UNCHANGED <<now, minted, router, offerVars, rewires>>
  PROVE  MarketInv'
<1>1. LocksMove /\ ~lock'[t].listed /\ \A x \in Locks : x # t => lock'[x].listed = lock[x].listed
  BY GoneMoves DEF MarketInv
<1>2. /\ listing' \in [Locks -> ListingRec] /\ ~listing'[t].active
      /\ \A x \in Locks : x # t => listing'[x] = listing[x]
      /\ ListPlaces'
  <2>1. CASE listing[t].active
    BY <2>1, Clearing
  <2>2. CASE ~listing[t].active
    <3>1. UNCHANGED <<listing, userListings, listingIndex>>
      BY <2>2
    <3>2. Seller' = Seller
      BY <3>1, Zenon DEF Seller
    <3>3. ListPlaces'
      BY <3>1, <3>2, SameListPlaces DEF MarketInv
    <3> QED
      BY <2>2, <3>1, <3>3 DEF MarketInv, Typed
  <2> QED
    BY <2>1, <2>2
<1> QED
  BY <1>1, <1>2, ListingActionKeeps

LEMMA ListingCallKeeps ==
  ASSUME MarketInv, NEW u \in Users, ListingCall(u)
  PROVE  MarketInv'
<1>1. PICK t \in Locks :
        \/ \E p \in Amounts, ttl \in Ttls : ListLock(u, t, p, now + ttl)
        \/ DelistLock(u, t) \/ EmergencyDelist(u, t)
        \/ SellLockToFurnace(u, t) \/ SellListedLockToFurnace(u, t)
  BY Zenon DEF ListingCall
<1>2. ASSUME NEW p \in Amounts, NEW ttl \in Ttls, ListLock(u, t, p, now + ttl)
      PROVE  MarketInv'
  <2> DEFINE r == [seller |-> u, minOut |-> p, listedAt |-> now, expires |-> now + ttl, active |-> TRUE]
  <2>1. r \in ListingRec /\ r.seller = u /\ r.active /\ u # NoOne
    BY MarketAssumption, PartiesAssumption DEF MarketInv, Typed, ListingRec, Holders
  <2>2. /\ lock[t].owner = u /\ listing' = [listing EXCEPT ![t] = r]
        /\ userListings' = Grown(userListings, listingIndex, u, t).arrays
        /\ listingIndex' = Grown(userListings, listingIndex, u, t).index
        /\ lock' = [lock EXCEPT ![t].listed = TRUE]
        /\ UNCHANGED <<now, minted, router, offerVars, rewires>>
    BY <1>2, Zenon DEF ListLock, MayList
  <2> HIDE DEF r
  <2>3. /\ LocksMove /\ lock'[t].listed /\ lock'[t].owner = lock[t].owner
        /\ \A x \in Locks : x # t => lock'[x].listed = lock[x].listed
    BY <2>1, <2>2, FlagMoves DEF MarketInv
  <2>4. /\ listing' \in [Locks -> ListingRec] /\ listing'[t] = r
        /\ \A x \in Locks : x # t => listing'[x] = listing[x]
        /\ ListPlaces'
    BY <2>1, <2>2, Listing
  <2>5. t \in minted'
    BY <2>1, <2>2 DEF MarketInv, LocksInv
  <2> QED
    BY <2>1, <2>2, <2>3, <2>4, <2>5, ListingActionKeeps
<1>3. CASE DelistLock(u, t)
  <2>1. /\ (listing[t].active /\ listing[t].seller = u /\ lock[t].owner # NoOne) \/ Rescue(u, t)
        /\ IF listing[t].active THEN ClearListing(t, u)
           ELSE UNCHANGED <<listing, userListings, listingIndex>>
        /\ lock' = [lock EXCEPT ![t].listed = FALSE]
        /\ UNCHANGED <<now, minted, router, offerVars, rewires>>
    BY <1>3 DEF DelistLock, MayDelist
  <2>2. /\ LocksMove /\ ~lock'[t].listed
        /\ \A x \in Locks : x # t => lock'[x].listed = lock[x].listed
    BY <2>1, FlagMoves DEF MarketInv
  <2>3. CASE listing[t].active
    <3>1. listing[t].seller = u /\ ClearListing(t, u)
      BY <2>1, <2>3 DEF Rescue
    <3>2. /\ listing' \in [Locks -> ListingRec] /\ ~listing'[t].active
          /\ \A x \in Locks : x # t => listing'[x] = listing[x]
          /\ ListPlaces'
      BY <2>3, <3>1, Clearing
    <3> QED
      BY <2>1, <2>2, <3>2, ListingActionKeeps
  <2>4. CASE ~listing[t].active
    <3>1. UNCHANGED <<listing, userListings, listingIndex>>
      BY <2>1, <2>4
    <3>2. Seller' = Seller
      BY <3>1, Zenon DEF Seller
    <3>3. ListPlaces'
      BY <3>1, <3>2, SameListPlaces DEF MarketInv
    <3>4. listing \in [Locks -> ListingRec] /\ listing' = listing
      BY <3>1 DEF MarketInv, Typed
    <3> QED
      BY <2>1, <2>2, <2>4, <3>3, <3>4, ListingActionKeeps
  <2> QED
    BY <2>3, <2>4
<1>4. CASE EmergencyDelist(u, t)
  BY <1>4, TakeOffKeeps, Zenon DEF EmergencyDelist
<1>5. CASE SellLockToFurnace(u, t)
  <2>1. /\ listing[t].active => listing[t].seller = u
        /\ IF listing[t].active THEN ClearListing(t, u)
           ELSE UNCHANGED <<listing, userListings, listingIndex>>
        /\ Gone(t) /\ UNCHANGED <<now, minted, router, offerVars, rewires>>
    BY <1>5 DEF SellLockToFurnace, MaySell
  <2> QED
    BY <2>1, SaleKeeps
<1>6. CASE SellListedLockToFurnace(u, t)
  <2>1. /\ listing[t].active /\ ClearListing(t, listing[t].seller)
        /\ Gone(t) /\ UNCHANGED <<now, minted, router, offerVars, rewires>>
    BY <1>6, Zenon DEF SellListedLockToFurnace, MaySettle
  <2> QED
    BY <2>1, SaleKeeps
<1> QED
  BY <1>1, <1>2, <1>3, <1>4, <1>5, <1>6

-----------------------------------------------------------------------------
(* The escrow.  What an offer holds is the only thing that changes.        *)
LEMMA OfferActionKeeps ==
  ASSUME MarketInv, LocksMove, FlagsStay, offer' \in [Offers -> OfferRec], escrow' \in Int,
         OffersInv', UNCHANGED <<now, router, listingVars, rewires>>
  PROVE  MarketInv'
<1>1. ListPlaces'
  BY ListPlacesStay DEF MarketInv
<1>2. Typed'
  BY DEF MarketInv, Typed, LocksMove, listingVars
<1>3. LocksInv' /\ ListingsInv'
  BY DEF MarketInv, LocksInv, ListingsInv, LocksMove, FlagsStay, listingVars
<1> QED
  BY <1>1, <1>2, <1>3 DEF MarketInv

LEMMA LocksStay ==
  ASSUME MarketInv, UNCHANGED veVars
  PROVE  LocksMove /\ FlagsStay
BY SameOwners DEF MarketInv, veVars, Typed

LEMMA EscrowMoves ==
  ASSUME MarketInv, NEW o \in Offers, NEW r \in OfferRec, offer' = [offer EXCEPT ![o] = r],
         escrow' = escrow - offer[o].funds + r.funds
  PROVE  /\ offer' \in [Offers -> OfferRec] /\ escrow' \in Int /\ offer'[o] = r
         /\ \A x \in Offers : x # o => offer'[x] = offer[x]
         /\ escrow' = Total(Funds', Offers)
<1>1. offer \in [Offers -> OfferRec] /\ escrow \in Int /\ escrow = Sum(Funds, Offers)
  BY TotalIsSum DEF MarketInv, Typed, OffersInv, OffersAreBacked
<1>2. \A x \in Offers : offer[x].funds \in Int
  BY <1>1 DEF OfferRec
<1>3. r.funds \in Int
  BY DEF OfferRec
<1>4. /\ offer' \in [Offers -> OfferRec] /\ offer'[o] = r
      /\ \A x \in Offers : x # o => offer'[x] = offer[x]
  BY <1>1
<1>5. /\ \A x \in Offers : Funds[x] = offer[x].funds
      /\ Funds'[o] = r.funds /\ \A x \in Offers \ {o} : Funds'[x] = Funds[x]
  BY <1>4 DEF Funds
<1>6. Sum(Funds', Offers) = Sum(Funds, Offers) - Funds[o] + Funds'[o]
  <2>1. \A f, h : /\ h[o] \in Int /\ \A x \in Offers : f[x] \in Int
                  /\ \A x \in Offers \ {o} : h[x] = f[x]
                  => Sum(h, Offers) = Sum(f, Offers) - f[o] + h[o]
    BY SumChanges, PartiesAssumption
  <2>2. Funds'[o] \in Int /\ \A x \in Offers : Funds[x] \in Int
    BY <1>2, <1>3, <1>5
  <2> QED
    BY <1>5, <2>1, <2>2
<1>7. escrow' = Sum(Funds', Offers) /\ escrow' \in Int
  BY <1>1, <1>2, <1>3, <1>5, <1>6
<1> QED
  BY <1>4, <1>7, TotalIsSum

(* An offer that is closed is paid out in full, and off the books.         *)
LEMMA Closing ==
  ASSUME MarketInv, NEW o \in Offers, offer[o].active, CloseOffer(o)
  PROVE  offer' \in [Offers -> OfferRec] /\ escrow' \in Int /\ OffersInv'
<1> DEFINE was == offer[o]
           r == [was EXCEPT !.active = FALSE, !.funds = 0]
<1>1. offer[o] \in OfferRec /\ offer \in [Offers -> OfferRec] /\ escrow \in Int
  BY DEF MarketInv, Typed
<1>2. r \in OfferRec /\ ~r.active /\ r.funds = 0
  <2>1. was \in OfferRec
    BY <1>1
  <2> HIDE DEF was
  <2> DEFINE n == [was EXCEPT !.active = FALSE]
  <2>2. n \in OfferRec /\ n.active = FALSE
    BY <2>1 DEF OfferRec
  <2>3. r = [n EXCEPT !.funds = 0]
    BY <2>1 DEF OfferRec
  <2> HIDE DEF n
  <2>4. [n EXCEPT !.funds = 0] \in OfferRec
    BY <2>2 DEF OfferRec
  <2>5. [n EXCEPT !.funds = 0].funds = 0 /\ [n EXCEPT !.funds = 0].active = FALSE
    BY <2>2 DEF OfferRec
  <2> QED
    BY <2>3, <2>4, <2>5
<1>3. /\ offer' = [offer EXCEPT ![o].active = FALSE, ![o].funds = 0]
      /\ escrow' = escrow - offer[o].funds
      /\ userOffers' = Shrunk(userOffers, offerIndex, offer[o].buyer, o).arrays
      /\ offerIndex' = Shrunk(userOffers, offerIndex, offer[o].buyer, o).index
  BY Zenon DEF CloseOffer
<1>4. offer' = [offer EXCEPT ![o] = r] /\ offer[o].funds \in Int
  BY <1>1, <1>3 DEF OfferRec
<1> HIDE DEF r
<1>5. escrow' = escrow - offer[o].funds + r.funds
  BY <1>1, <1>2, <1>3, <1>4
<1>6. /\ offer' \in [Offers -> OfferRec] /\ escrow' \in Int /\ offer'[o] = r
      /\ \A x \in Offers : x # o => offer'[x] = offer[x]
      /\ escrow' = Total(Funds', Offers)
  BY <1>2, <1>4, <1>5, EscrowMoves
<1>7. OffersAreBacked'
  BY <1>2, <1>6 DEF MarketInv, OffersInv, OffersAreBacked
<1>8. /\ Buyer[o] = offer[o].buyer /\ offer[o].buyer \in Users
      /\ Buyer' = [Buyer EXCEPT ![o] = NoOne]
  BY <1>1, <1>2, <1>6 DEF MarketInv, OffersInv, OfferRec, Holders, Buyer
<1>9. Places(userOffers', offerIndex', [Buyer EXCEPT ![o] = NoOne], Offers)
  BY <1>3, <1>8, ShrinkingPlaces DEF MarketInv, OffersInv
<1>10. Places(userOffers, offerIndex, Buyer, Offers)'
  BY <1>8, <1>9, Zenon DEF Places
<1>11. \A x \in Offers : offer'[x].active => offer'[x].buyer # NoOne
  BY <1>2, <1>6 DEF MarketInv, OffersInv
<1> QED
  BY <1>6, <1>7, <1>10, <1>11 DEF OffersInv

LEMMA Creating ==
  ASSUME MarketInv, NEW u \in Users, NEW o \in Offers, NEW b \in Budgets, NEW d \in Durations,
         NEW auto \in BOOLEAN, NEW ttl \in Ttls, NEW dest \in Locks \cup {NoOne},
         CreateBonusTargetEscrow(u, o, b, d, auto, ttl, dest)
  PROVE  offer' \in [Offers -> OfferRec] /\ escrow' \in Int /\ OffersInv'
<1> DEFINE r == [buyer |-> u, funds |-> b, createdAt |-> now, expires |-> now + ttl, dest |-> dest,
                 auto |-> auto, duration |-> IF auto THEN MAXLOCK ELSE d, active |-> TRUE]
<1>1. r \in OfferRec /\ r.active /\ r.funds = b /\ b # 0 /\ b \in Int /\ r.buyer = u /\ u # NoOne
  BY MarketAssumption, PartiesAssumption DEF MarketInv, Typed, OfferRec, Holders, Goals
<1>2. offer[o] = NoOffer /\ offer' = [offer EXCEPT ![o] = r] /\ escrow' = escrow + b
  BY Zenon DEF CreateBonusTargetEscrow
<1>3. /\ userOffers' = Grown(userOffers, offerIndex, u, o).arrays
      /\ offerIndex' = Grown(userOffers, offerIndex, u, o).index
  BY Zenon DEF CreateBonusTargetEscrow
<1>4. offer[o].funds = 0 /\ ~offer[o].active
  BY <1>2 DEF NoOffer
<1> HIDE DEF r
<1>5. escrow' = escrow - offer[o].funds + r.funds
  BY <1>1, <1>2, <1>4 DEF MarketInv, Typed
<1>6. /\ offer' \in [Offers -> OfferRec] /\ escrow' \in Int /\ offer'[o] = r
      /\ \A x \in Offers : x # o => offer'[x] = offer[x]
      /\ escrow' = Total(Funds', Offers)
  BY <1>1, <1>2, <1>5, EscrowMoves
<1>7. OffersAreBacked'
  BY <1>1, <1>6 DEF MarketInv, OffersInv, OffersAreBacked
<1>8. Buyer[o] = NoOne /\ Buyer' = [Buyer EXCEPT ![o] = u]
  BY <1>1, <1>4, <1>6 DEF Buyer
<1>9. Places(userOffers', offerIndex', [Buyer EXCEPT ![o] = u], Offers)
  BY <1>3, <1>8, GrowingPlaces DEF MarketInv, OffersInv
<1>10. Places(userOffers, offerIndex, Buyer, Offers)'
  BY <1>8, <1>9, Zenon DEF Places
<1>11. \A x \in Offers : offer'[x].active => offer'[x].buyer # NoOne
  BY <1>1, <1>6 DEF MarketInv, OffersInv
<1> QED
  BY <1>6, <1>7, <1>10, <1>11 DEF OffersInv

LEMMA Extending ==
  ASSUME MarketInv, NEW u \in Users, NEW o \in Offers, NEW e \in Int,
         ExtendBonusTargetEscrowExpiry(u, o, e)
  PROVE  offer' \in [Offers -> OfferRec] /\ escrow' \in Int /\ OffersInv'
<1>1. /\ offer' = [offer EXCEPT ![o].expires = e]
      /\ UNCHANGED <<userOffers, offerIndex, escrow>>
  BY Zenon DEF ExtendBonusTargetEscrowExpiry
<1>2. /\ offer' \in [Offers -> OfferRec]
      /\ \A x \in Offers : /\ offer'[x].funds = offer[x].funds
                           /\ offer'[x].active = offer[x].active
                           /\ offer'[x].buyer = offer[x].buyer
  BY <1>1 DEF MarketInv, Typed, OfferRec
<1>3. Funds' = Funds /\ Buyer' = Buyer
  BY <1>2, Zenon DEF Funds, Buyer
<1>4. OffersAreBacked'
  BY <1>1, <1>2, <1>3 DEF MarketInv, OffersInv, OffersAreBacked
<1>5. Places(userOffers, offerIndex, Buyer, Offers)'
  <2>1. Places(userOffers, offerIndex, Buyer, Offers)
    BY DEF MarketInv, OffersInv
  <2>2. userOffers' = userOffers /\ offerIndex' = offerIndex
    BY <1>1
  <2> QED
    BY <1>3, <2>1, <2>2, Zenon DEF Places
<1> QED
  BY <1>1, <1>2, <1>4, <1>5 DEF MarketInv, Typed, OffersInv

LEMMA OfferCallKeeps ==
  ASSUME MarketInv, NEW u \in Users, OfferCall(u)
  PROVE  MarketInv'
<1>1. PICK o \in Offers :
        \/ \E b \in Budgets, d \in Durations, auto \in BOOLEAN, ttl \in Ttls, dest \in Locks \cup {NoOne} :
             CreateBonusTargetEscrow(u, o, b, d, auto, ttl, dest)
        \/ CancelBonusTargetEscrow(u, o) \/ ExecuteAutoFurnace(u, o)
        \/ \E e \in now + 1..now + MAXTTL : ExtendBonusTargetEscrowExpiry(u, o, e)
  BY Zenon DEF OfferCall
<1>2. ASSUME NEW b \in Budgets, NEW d \in Durations, NEW auto \in BOOLEAN, NEW ttl \in Ttls,
             NEW dest \in Locks \cup {NoOne}, CreateBonusTargetEscrow(u, o, b, d, auto, ttl, dest)
      PROVE  MarketInv'
  <2>1. UNCHANGED <<now, veVars, router, listingVars, rewires>>
    BY <1>2, Zenon DEF CreateBonusTargetEscrow
  <2>2. offer' \in [Offers -> OfferRec] /\ escrow' \in Int /\ OffersInv'
    BY <1>2, Creating
  <2> QED
    BY <2>1, <2>2, LocksStay, OfferActionKeeps
<1>3. CASE CancelBonusTargetEscrow(u, o)
  <2>1. /\ offer[o].active /\ CloseOffer(o)
        /\ UNCHANGED <<now, veVars, router, listingVars, rewires>>
    BY <1>3, Zenon DEF CancelBonusTargetEscrow, MayCancelOffer
  <2> QED
    BY <2>1, Closing, LocksStay, OfferActionKeeps
<1>4. CASE ExecuteAutoFurnace(u, o)
  <2> DEFINE in == offer[o].funds + Bonus
             dest == Destination(o)
             buyer == offer[o].buyer
  <2>1. /\ offer[o].active /\ CloseOffer(o)
        /\ UNCHANGED <<now, router, listingVars, rewires>>
        /\ IF dest # NoOne
           THEN MoreIn(dest, in) /\ UNCHANGED minted
           ELSE \E t \in Locks \ minted :
                  /\ NewLock(t, buyer, in, offer[o].duration, offer[o].auto)
                  /\ minted' = minted \cup {t}
    BY <1>4, Zenon DEF ExecuteAutoFurnace, MayExecute
  <2>2. /\ in \in Int /\ buyer \in Users
        /\ offer[o].duration \in Int /\ offer[o].auto \in BOOLEAN
    BY <2>1, MarketAssumption DEF MarketInv, Typed, OffersInv, OfferRec, Holders
  <2>3. dest # NoOne => dest \in Locks
    BY DEF Destination, Eligible
  <2> HIDE DEF in, dest, buyer
  <2>4. LocksMove /\ FlagsStay
    <3>1. CASE dest # NoOne
      BY <2>1, <2>2, <2>3, <3>1, MoreInMoves DEF MarketInv
    <3>2. CASE dest = NoOne
      BY <2>1, <2>2, <3>2, NewLockMoves DEF MarketInv
    <3> QED
      BY <3>1, <3>2
  <2> QED
    BY <2>1, <2>4, Closing, OfferActionKeeps
<1>5. ASSUME NEW e \in now + 1..now + MAXTTL, ExtendBonusTargetEscrowExpiry(u, o, e)
      PROVE  MarketInv'
  <2>1. UNCHANGED <<now, veVars, router, listingVars, rewires>>
    BY <1>5, Zenon DEF ExtendBonusTargetEscrowExpiry
  <2>2. e \in Int
    BY MarketAssumption DEF MarketInv, Typed
  <2>3. offer' \in [Offers -> OfferRec] /\ escrow' \in Int /\ OffersInv'
    BY <1>5, <2>2, Extending
  <2> QED
    BY <2>1, <2>3, LocksStay, OfferActionKeeps
<1> QED
  BY <1>1, <1>2, <1>3, <1>4, <1>5

-----------------------------------------------------------------------------
(* The calls that anybody may make, the settings and the other router.     *)

(* Once the router was replaced, the flags are no longer its own.          *)
LEMMA OtherRouterKeeps ==
  ASSUME MarketInv, LocksMove, rewires' \in Nat \ {0}, UNCHANGED <<now, listingVars, offerVars>>
  PROVE  MarketInv'
<1>1. OffersInv' /\ ListPlaces'
  BY OffersStay, ListPlacesStay DEF MarketInv
<1>2. Typed'
  BY DEF MarketInv, Typed, LocksMove, listingVars, offerVars
<1>3. LocksInv' /\ ListingsInv'
  BY DEF MarketInv, LocksInv, ListingsInv, LocksMove, listingVars
<1> QED
  BY <1>1, <1>2, <1>3 DEF MarketInv

LEMMA OtherFlagKeeps ==
  ASSUME MarketInv, NEW t \in Locks, NEW b \in BOOLEAN, b => lock[t].owner # NoOne,
         router = "other", lock' = [lock EXCEPT ![t].listed = b],
         UNCHANGED <<now, minted, router, listingVars, offerVars, rewires>>
  PROVE  MarketInv'
<1>1. LocksMove
  BY FlagMoves DEF MarketInv
<1>2. rewires' \in Nat \ {0}
  BY DEF MarketInv, Typed, ListingsInv
<1> QED
  BY <1>1, <1>2, OtherRouterKeeps

(* Nothing but the clock and the settings.                                 *)
LEMMA SettingKeeps ==
  ASSUME MarketInv, now' \in Int, UNCHANGED <<veVars, router, listingVars, offerVars, rewires>>
  PROVE  MarketInv'
<1>1. OffersInv' /\ ListPlaces'
  BY OffersStay, ListPlacesStay DEF MarketInv
<1>2. Typed' /\ LocksInv' /\ ListingsInv'
  BY DEF MarketInv, Typed, LocksInv, ListingsInv, veVars, listingVars, offerVars
<1> QED
  BY <1>1, <1>2 DEF MarketInv

LEMMA AnyCallKeeps ==
  ASSUME MarketInv, AnyCall
  PROVE  MarketInv'
<1>1. ASSUME NEW t \in Locks, CancelExpiredListing(t) \/ CancelExpiredListingBatch(t)
      PROVE  MarketInv'
  <2>1. listing[t].active /\ lock[t].owner # NoOne /\ TakeOff(t)
    BY <1>1, Zenon DEF CancelExpiredListing, MayCancelExpired, CancelExpiredListingBatch, Expired
  <2> QED
    BY <2>1, TakeOffKeeps
<1>2. ASSUME NEW t \in Locks, CleanupStaleListing(t)
      PROVE  MarketInv'
  <2>1. /\ listing[t].active /\ ~lock[t].listed /\ ClearListing(t, listing[t].seller)
        /\ UNCHANGED <<now, veVars, router, offerVars, rewires>>
    BY <1>2, Zenon DEF CleanupStaleListing
  <2>2. /\ listing' \in [Locks -> ListingRec] /\ ~listing'[t].active
        /\ \A x \in Locks : x # t => listing'[x] = listing[x]
        /\ ListPlaces'
    BY <2>1, Clearing
  <2>3. LocksMove /\ FlagsStay
    BY <2>1, LocksStay
  <2> QED
    BY <2>1, <2>2, <2>3, ListingActionKeeps DEF FlagsStay
<1>3. ASSUME NEW t \in Locks, OtherLists(t)
      PROVE  MarketInv'
  <2>1. /\ router = "other" /\ lock[t].owner # NoOne /\ lock' = [lock EXCEPT ![t].listed = TRUE]
        /\ UNCHANGED <<now, minted, router, listingVars, offerVars, rewires>>
    BY <1>3, Zenon DEF OtherLists
  <2> QED
    BY <2>1, OtherFlagKeeps
<1>4. ASSUME NEW t \in Locks, OtherDelists(t)
      PROVE  MarketInv'
  <2>1. /\ router = "other" /\ lock' = [lock EXCEPT ![t].listed = FALSE]
        /\ UNCHANGED <<now, minted, router, listingVars, offerVars, rewires>>
    BY <1>4, Zenon DEF OtherDelists
  <2> QED
    BY <2>1, OtherFlagKeeps
<1>5. ASSUME NEW o \in Offers, CancelExpiredBonusTargetEscrow(o)
      PROVE  MarketInv'
  <2>1. /\ offer[o].active /\ CloseOffer(o)
        /\ UNCHANGED <<now, veVars, router, listingVars, rewires>>
    BY <1>5, Zenon DEF CancelExpiredBonusTargetEscrow, MayCancelExpiredOffer
  <2> QED
    BY <2>1, Closing, LocksStay, OfferActionKeeps
<1>6. ASSUME \/ \E on \in BOOLEAN : PauseTrading(on) \/ \E u \in Users : SetSettlementKeeper(u, on)
             \/ \E b \in Budgets : SetBonusTargetEscrowParams(b)
      PROVE  MarketInv'
  <2>1. UNCHANGED <<now, veVars, router, listingVars, offerVars, rewires>>
    BY <1>6, Zenon DEF PauseTrading, SetSettlementKeeper, SetBonusTargetEscrowParams
  <2>2. now' \in Int
    BY <2>1 DEF MarketInv, Typed
  <2> QED
    BY <2>1, <2>2, SettingKeeps
<1>7. CASE SetMineMarket
  <2>1. rewires' = rewires + 1 /\ UNCHANGED <<now, veVars, listingVars, offerVars>>
    BY <1>7, Zenon DEF SetMineMarket
  <2>2. rewires' \in Nat \ {0}
    BY <2>1 DEF MarketInv, Typed
  <2> QED
    BY <2>1, <2>2, LocksStay, OtherRouterKeeps
<1> QED
  BY <1>1, <1>2, <1>3, <1>4, <1>5, <1>6, <1>7, Zenon DEF AnyCall

-----------------------------------------------------------------------------
LEMMA MarketStays == ASSUME MarketInv, [MarketNext]_marketVars PROVE MarketInv'
<1>1. CASE Tick
  <2>1. now' = now + 1 /\ UNCHANGED <<veVars, router, listingVars, offerVars, rewires>>
    BY <1>1, Zenon DEF Tick
  <2>2. now' \in Int
    BY <2>1 DEF MarketInv, Typed
  <2> QED
    BY <2>1, <2>2, SettingKeeps
<1>2. CASE AnyCall
  BY <1>2, AnyCallKeeps
<1>3. CASE \E u \in Users : LockCall(u) \/ ListingCall(u) \/ OfferCall(u)
  BY <1>3, LockCallKeeps, ListingCallKeeps, OfferCallKeeps
<1>4. CASE UNCHANGED marketVars
  <2>1. UNCHANGED <<now, veVars, router, listingVars, offerVars, rewires>>
    BY <1>4, Zenon DEF marketVars
  <2>2. now' \in Int
    BY <2>1 DEF MarketInv, Typed
  <2> QED
    BY <2>1, <2>2, SettingKeeps
<1> QED
  BY <1>1, <1>2, <1>3, <1>4, Zenon DEF MarketNext

LEMMA MarketIsKept == MarketSpec => []MarketInv
<1>1. MarketInit => MarketInv
  BY MarketInitiallyKept
<1>2. MarketInv /\ [MarketNext]_marketVars => MarketInv'
  BY MarketStays
<1> QED
  BY <1>1, <1>2, PTL DEF MarketSpec

(* MarketRouter holds exactly the CLAIM of its open escrows, and its two   *)
(* arrays of ids, _userListings and _userBonusTargetEscrows, list exactly  *)
(* what each user has open, whatever is created, removed from the middle,  *)
(* sold, executed, cancelled or cleaned up and in whichever order.         *)
THEOREM TheBooksAreKept == MarketSpec => []BooksAreKept
<1>1. MarketInv => BooksAreKept
  <2> SUFFICES ASSUME MarketInv PROVE BooksAreKept
    OBVIOUS
  <2>1. Places(userListings, listingIndex, Seller, Locks) /\ Places(userOffers, offerIndex, Buyer, Offers)
    BY DEF MarketInv, ListPlaces, OffersInv
  <2>2. Indexed(userListings, listingIndex, Seller) /\ Indexed(userOffers, offerIndex, Buyer)
    BY <2>1, PlacesAreIndexed
  <2>3. ArraysAreIndexed
    BY <2>2, Zenon DEF ArraysAreIndexed, Seller, Buyer
  <2> QED
    BY <2>3 DEF MarketInv, OffersInv, BooksAreKept
<1> QED
  BY <1>1, MarketIsKept, PTL

(* A lock that a listing froze can be taken back by its owner with         *)
(* delistLock, paused or not and whatever routers came and went; and       *)
(* without a change of router the flag of the ve contract and the listing  *)
(* of the router never part.                                               *)
THEOREM FrozenLocksComeBack == MarketSpec => []ListedLocksComeBack
<1>1. MarketInv => ListedLocksComeBack
  <2> SUFFICES ASSUME MarketInv, NEW t \in Locks
               PROVE  /\ lock[t].listed /\ router = "this" /\ Cooled(t) => MayDelist(lock[t].owner, t)
                      /\ rewires = 0 => (lock[t].listed <=> listing[t].active)
    BY Zenon DEF ListedLocksComeBack
  <2>1. rewires = 0 => (lock[t].listed <=> listing[t].active)
    BY DEF MarketInv, ListingsInv
  <2>2. lock[t].listed => lock[t].owner # NoOne
    BY DEF MarketInv, LocksInv
  <2>3. listing[t].active => lock[t].owner \in {listing[t].seller, NoOne}
    BY DEF MarketInv, ListingsInv
  <2> QED
    BY <2>1, <2>2, <2>3 DEF MayDelist, MaySetListed, Rescue
<1> QED
  BY <1>1, MarketIsKept, PTL
=============================================================================
