------------------------------ MODULE MCMarket ------------------------------
(***************************************************************************)
(* An instance of market and mirror for TLC.  One user has two locks; the  *)
(* first block listed some of them and took an offer, or nothing, so that  *)
(* few transactions reach far.                                             *)
(***************************************************************************)
EXTENDS SubgraphMarket, TLC

CONSTANTS u1, t1, t2, o1, Listed   \* the sets of locks that may be listed at first

First == {t1, t2}
Held(t) == [owner |-> u1, amount |-> IF t = t1 THEN 2 ELSE 1, end |-> 3, auto |-> FALSE,
            listed |-> FALSE]

(* What the first block emitted, and the state it left.                    *)
CreatedFirst == <<Created(t1, u1, 2, 3, FALSE), Created(t2, u1, 1, 3, FALSE)>>
ListedFirst(ts) ==
  [i \in DOMAIN ts |-> [k |-> "LockListed", t |-> ts[i], u |-> u1, p |-> 1, at |-> 0, e |-> 2]]

FirstMarket(ts, offered, starts) ==
  /\ now = 1 /\ minted = First
  /\ lock = [t \in Locks |-> IF t \in First THEN [Held(t) EXCEPT !.listed = t \in ToSet(ts)] ELSE NoLock]
  /\ router = "this" /\ paused = FALSE /\ keepers = {} /\ minBudget = 1
  /\ listing = [t \in Locks |->
       IF t \in ToSet(ts)
       THEN [seller |-> u1, minOut |-> 1, listedAt |-> 0, expires |-> 2, active |-> TRUE]
       ELSE NoListing]
  /\ cool = [t \in Locks |-> 0]
  /\ userListings = [u \in Users |-> IF u = u1 THEN ts ELSE <<>>]
  /\ listingIndex = [t \in Locks |-> IF t \in ToSet(ts) THEN CHOOSE i \in DOMAIN ts : ts[i] = t ELSE 0]
  /\ offer = [o \in Offers |->
       IF offered /\ o = o1
       THEN [buyer |-> u1, funds |-> 2, createdAt |-> 0, expires |-> 2, dest |-> t2,
             auto |-> FALSE, duration |-> 2, active |-> TRUE]
       ELSE NoOffer]
  /\ userOffers = [u \in Users |-> IF offered /\ u = u1 THEN <<o1>> ELSE <<>>]
  /\ offerIndex = [o \in Offers |-> IF offered /\ o = o1 THEN 1 ELSE 0]
  /\ escrow = (IF offered THEN 2 ELSE 0)
  /\ emitted = <<>> /\ calls = 0 /\ rewires = 0
  /\ late = starts
  /\ store = IF late THEN EmptyStore
             ELSE FoldLeft(Handle, EmptyStore,
               CreatedFirst \o ListedFirst(ts)
               \o (IF offered
                   THEN <<[k |-> "EscrowCreated", o |-> o1, u |-> u1, b |-> 2, at |-> 0, e |-> 2,
                           dest |-> t2]>>
                   ELSE <<>>))

MCInit ==
  \E ts \in {SetToSeq(S) : S \in Listed}, offered \in BOOLEAN, starts \in LateStarts :
    FirstMarket(ts, offered, starts)

MirrorSpec == MCInit /\ [][MirrorNext]_subgraphVars
=============================================================================
