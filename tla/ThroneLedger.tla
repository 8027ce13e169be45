---------------------------- MODULE ThroneLedger ----------------------------
(***************************************************************************)
(* What the throne promises, with no failure in sight: a takeover fixes    *)
(* who is owed what, and nothing else ever changes an entitlement.  Seventy *)
(* five percent of the price (KING_ETH_SHARE_PCT) is due to the dethroned  *)
(* King's ETH recipient and the rest to the shareholders; the CLAIM mined  *)
(* in the reign is due to the CLAIM recipient; an overpayment is due back  *)
(* to the payer; together these are every wei that was paid in.            *)
(* Entitlements are cumulative: whether the ETH was pushed, parked in a    *)
(* bucket or withdrawn later is invisible here.                            *)
(***************************************************************************)
EXTENDS Integers

CONSTANTS
  NoOne, Accounts,
  KING_ETH_SHARE_PCT, KING_ETH_SHARE_DENOM,
  Amounts              \* the amounts of ETH and CLAIM that may occur

VARIABLES
  king, ethRecipient, claimRecipient,   \* of the current reign
  paidIn,              \* ETH that takeovers have brought in
  ethDue,              \* per account: ETH it has become entitled to
  shareholdersDue,     \* ETH the shareholders have become entitled to
  claimDue             \* per account: CLAIM it has become entitled to

vars == <<king, ethRecipient, claimRecipient, paidIn, ethDue, shareholdersDue, claimDue>>

Plus(f, a, x) == [b \in Accounts |-> IF b = a THEN f[b] + x ELSE f[b]]

Init ==
  /\ king = NoOne /\ ethRecipient = NoOne /\ claimRecipient = NoOne
  /\ paidIn = 0
  /\ ethDue = [a \in Accounts |-> 0]
  /\ shareholdersDue = 0
  /\ claimDue = [a \in Accounts |-> 0]

(* Before the first King there is nobody to share the price with. *)
KingShare(price) ==
  IF king = NoOne THEN 0 ELSE (price * KING_ETH_SHARE_PCT) \div KING_ETH_SHARE_DENOM

SettleClaim ==
  \/ king = NoOne /\ UNCHANGED claimDue
  \/ /\ king # NoOne
     /\ \E mined \in Amounts : claimDue' = Plus(claimDue, claimRecipient, mined)

Takeover ==
  /\ king' \in Accounts \ {king}
  /\ ethRecipient' \in Accounts /\ claimRecipient' \in Accounts
  /\ \E price \in Amounts :
       /\ shareholdersDue' = shareholdersDue + (price - KingShare(price))
       /\ \E payer \in Accounts, refund \in Amounts :
            /\ paidIn' = paidIn + price + refund
            /\ ethDue' = Plus(Plus(ethDue, ethRecipient, KingShare(price)), payer, refund)
  /\ SettleClaim

SetRecipients ==
  /\ king # NoOne
  /\ ethRecipient' \in Accounts /\ claimRecipient' \in Accounts
  /\ UNCHANGED <<king, paidIn, ethDue, shareholdersDue, claimDue>>

Next == Takeover \/ SetRecipients

Spec == Init /\ [][Next]_vars
=============================================================================
