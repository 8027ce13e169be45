----------------------------- MODULE MCMineCore -----------------------------
(***************************************************************************)
(* Instances of MineCore for TLC: two players, and the sessions one of     *)
(* them has opened to the other, who plays the bot.  One half of the       *)
(* behaviours has the failing calls of the ETH side, overpayments and      *)
(* forced ETH, and no lock ever gets its CLAIM; the other, with the        *)
(* constants of the configuration, those of the CLAIM side, a lock to      *)
(* route to, and more time.                                                *)
(***************************************************************************)
EXTENDS MineCore

CONSTANTS alice, bob

(* alice lets bob take the throne for her and send the ETH to himself, but the
   CLAIM only back to her, and choose the lock it goes to; bob lets alice keep
   the CLAIM of a throne she takes for him. *)
BotSessions ==
  {<<alice, bob, "TAKEOVER_FOR">>,
   <<alice, bob, "SET_REIGN_ETH_RECIPIENT_TO_CALLER_ONLY">>,
   <<alice, bob, "SET_REIGN_CLAIM_RECIPIENT_TO_USER_ONLY">>,
   <<alice, bob, "SET_KING_AUTO_LOCK_CONFIG_FOR">>,
   <<bob, alice, "TAKEOVER_FOR">>,
   <<bob, alice, "ROUTE_REIGN_CLAIM_TO_CALLER">>}

Eth == INSTANCE MineCore WITH
  Unreliable   <- {"kingPush", "royalties", "refund", "lock"},
  Overpayments <- {1},
  ForcedEth    <- {2},
  DonatedClaim <- {},
  MaxTime      <- 2,
  GENESIS_ACCRUAL_DURATION <- 0

VARIABLE side

sideVars == <<side, vars>>

SidesInit == Init /\ side \in {"eth", "claim"}
SidesNext ==
  /\ \/ side = "eth" /\ Eth!Next /\ UNCHANGED lockVars
     \/ side = "claim" /\ Next
  /\ UNCHANGED side
SidesSpec == SidesInit /\ [][SidesNext]_sideVars
=============================================================================
