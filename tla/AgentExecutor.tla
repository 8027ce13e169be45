---------------------------- MODULE AgentExecutor ----------------------------
(***************************************************************************)
(* executeAgentAction: one action of a plan, from the policy that may      *)
(* forbid it to the report of what became of it.                           *)
(*                                                                         *)
(* Every action is a list of questions to the chain, asked one after the   *)
(* other, and one call of a contract; what is asked for is a fact, which   *)
(* may change between two questions and before the call is mined.  "at" is *)
(* the second in which a time is reached exactly.  The same facts tell     *)
(* what the contract requires, read from the contract and not from here.   *)
(* A call is one transaction: what a transaction manager sends again is    *)
(* AgentTx's.                                                              *)
(***************************************************************************)
EXTENDS Integers, Sequences, FiniteSets, SequencesExt

CONSTANTS
  Kinds,          \* the actions of an instance
  Manifest,       \* contracts the deployment manifest names
  MaxOff,         \* facts that are not "yes" at first
  MaxChanges,     \* changes of a fact by others
  MaxNodeFaults   \* failures of a node

VARIABLES
  kind, execute,
  asLock,   \* it claims into a lock: action.mode = 1
  managed,  \* a TxManager sends; without one (the default) the wallet does
  mode,     \* privateRpcMode: "off", "route", "only"
  broken,   \* rules of the security settings the action breaks
  fact,     \* the facts the action is about
  at, step, \* where it is, and which question is next
  target,   \* the lock an offer is quoted for: its "dest", else a "new" one
  attempt,  \* the second call of cancelBonusTargetEscrow is attempt 2
  txs,      \* its transactions: [n, route, state]
  effects,  \* how often it took effect
  report,   \* [as, why, hash]
  changes, nodeFaults

what == <<kind, execute, asLock, managed, mode, broken>>
execVars == <<what, fact, at, step, target, attempt, txs, effects, report, changes, nodeFaults>>

-----------------------------------------------------------------------------
(* Questions.  must: the action is blocked unless the answer is one of ok. *)
(* soft: so too, but a node that fails is passed over.  quote: what the    *)
(* call will accept is reckoned from the answer.  skip: nothing is left to *)
(* do if the answer is yes.  dest: whether an offer's own destination can  *)
(* be quoted, for a new lock is if it cannot or a node fails.  bonus: the  *)
(* quote of an offer, blocked below its target; if the quote of the        *)
(* destination fails, that of a new lock is asked for.                     *)
Ask(as, f, ok) == [as |-> as, f |-> f, ok |-> ok]
Must(f) == Ask("must", f, {"yes"})
Soft(f) == Ask("soft", f, {"yes"})
Skip(f) == Ask("skip", f, {})
Quote   == Ask("quote", "held", {})
Dest    == Ask("dest", "destQuotable", {})
Bonus   == Ask("bonus", "bonusAsQuoted", {"yes"})

Action(uses, asks) == [uses |-> uses, asks |-> asks]
Plain == Action({}, <<>>)

(* Furnace and throne.                                                     *)
enterWithEth == Action({}, <<Quote>>)
enterWithEthFor == Action({}, <<Quote>>)
enterWithClaim == Action({"ClaimToken"}, <<Soft("allowance"), Quote>>)
enterWithClaimFromCallerFor == Action({"ClaimToken"}, <<Soft("allowance"), Quote>>)
enterWithToken == Action({}, <<Soft("allowance"), Quote>>)
enterWithTokenFromCallerFor == Action({}, <<Soft("allowance"), Quote>>)
takeover == Plain
takeoverFor == Plain
takeoverWithToken == Action({}, <<Soft("allowance"), Quote, Must("coversPrice")>>)
setCurrentReignRecipients == Action({}, <<Must("isKing")>>)
setKingAutoLockConfig == Plain
setKingAutoLockConfigForUser == Plain
withdrawKingBalance == Plain
withdrawRefundBalance == Plain
extendWithBonus == Action({"FurnaceQuoter"}, <<Quote>>)
extendWithBonusFor == Action({"FurnaceQuoter"}, <<Quote>>)
mergeLocksWithBonus == Action({"VeClaimNFT"}, <<Must("owner"), Must("ownerInto")>>)
mergeLocksWithBonusFor == Action({"VeClaimNFT"}, <<>>)

(* Royalties, the vault and the helper that claims for a user.             *)
claimShareholderEth == Plain
claimShareholderLock == Action({}, <<Must("claimable"), Quote>>)
setAutoCompoundConfig == Plain
setAutoCompoundConfigForUser == Plain
setLpAutoCompoundConfigForUser == Action({"LpStakingVault7D"}, <<>>)
claimShareholderForUser == Action({"ClaimAllHelper"}, <<>>)
withdrawKingBalanceForUser == Action({"ClaimAllHelper"}, <<>>)
claimAllFor == Action({"ClaimAllHelper"}, <<>>)

(* Listings.  The lock lives; notPast: the expiry is not after its end.    *)
ListingAsks == <<Must("owner"), Must("unpaused"), Must("cooled"), Must("approved"),
                 Must("alive"), Must("unlisted"), Must("notPast"), Quote>>
listLock == Action({"MarketRouter", "VeClaimNFT"}, ListingAsks)
delistLock == Action({"MarketRouter"}, <<Must("active"), Must("seller"), Must("cooled")>>)
EagerMutant == Action({"MarketRouter"}, <<Must("active"), Must("unpaused"), Must("over"), Must("cooled")>>)
cancelExpiredListing == Action({"MarketRouter"}, <<Must("active"), Must("over"), Must("cooled")>>)
sellLockToFurnace ==
  Action({"MarketRouter", "VeClaimNFT"}, <<Must("owner"), Must("approved"), Quote>>)
SaleAsks == <<Must("owner"), Must("active"), Ask("must", "over", {"no", "at"}),
              Must("approved"), Must("pays")>>
sellListedLockToFurnace == Action({"MarketRouter", "VeClaimNFT"}, SaleAsks)

(* Offers.  The destination of a new offer is asked for in a try: a node   *)
(* that fails leaves it to the contract.                                   *)
cancelExpiredBonusTargetEscrow == Action({"MarketRouter"}, <<Must("active"), Must("over")>>)
OfferAsks == <<Must("unpaused"), Must("active"), Ask("must", "over", {"no", "at"}),
               Must("configured"), Dest, Bonus>>
executeAutoFurnace == Action({"MarketRouter"}, OfferAsks)
EscrowAsks == <<Must("unpaused"), Must("budget"), Must("discount"), Must("allowance"),
                Soft("destOwner"), Soft("destFits")>>
createBonusTargetEscrowWithTarget == Action({"MarketRouter", "ClaimToken"}, EscrowAsks)
cancelBonusTargetEscrow == Action({"MarketRouter"}, <<Must("active"), Must("buyer")>>)
extendBonusTargetEscrowExpiry ==
  Action({"MarketRouter"}, <<Must("active"), Must("buyer"), Ask("must", "over", {"no", "at"}),
                             Must("later")>>)

(* Approvals and locks.                                                    *)
erc20_approve == Action({}, <<Soft("any")>>)
ensureAllowance == Action({}, <<Skip("allowance")>>)
ve_approve == Action({"VeClaimNFT"}, <<Must("owner"), Skip("approved")>>)
ve_setApprovalForAll == Action({"VeClaimNFT"}, <<Skip("approved")>>)
unlock == Action({"VeClaimNFT"}, <<Must("owner")>>)
setAutoMax == Action({"VeClaimNFT"}, <<Must("owner")>>)
checkpointGlobalState == Action({"VeClaimNFT"}, <<>>)
checkpointTotalVe == Action({"VeClaimNFT"}, <<>>)
unlockExpiredForUser == Action({"VeClaimNFT"}, <<>>)

Entries ==
  [enterWithEth |-> enterWithEth, enterWithEthFor |-> enterWithEthFor,
   enterWithClaim |-> enterWithClaim,
   enterWithClaimFromCallerFor |-> enterWithClaimFromCallerFor,
   enterWithToken |-> enterWithToken,
   enterWithTokenFromCallerFor |-> enterWithTokenFromCallerFor,
   takeover |-> takeover, takeoverFor |-> takeoverFor, takeoverWithToken |-> takeoverWithToken,
   setCurrentReignRecipients |-> setCurrentReignRecipients,
   setKingAutoLockConfig |-> setKingAutoLockConfig,
   setKingAutoLockConfigForUser |-> setKingAutoLockConfigForUser,
   withdrawKingBalance |-> withdrawKingBalance, withdrawRefundBalance |-> withdrawRefundBalance,
   extendWithBonus |-> extendWithBonus, extendWithBonusFor |-> extendWithBonusFor,
   mergeLocksWithBonus |-> mergeLocksWithBonus, mergeLocksWithBonusFor |-> mergeLocksWithBonusFor,
   claimShareholderEth |-> claimShareholderEth, claimShareholderLock |-> claimShareholderLock,
   setAutoCompoundConfig |-> setAutoCompoundConfig,
   setAutoCompoundConfigForUser |-> setAutoCompoundConfigForUser,
   setLpAutoCompoundConfigForUser |-> setLpAutoCompoundConfigForUser,
   claimShareholderForUser |-> claimShareholderForUser,
   withdrawKingBalanceForUser |-> withdrawKingBalanceForUser, claimAllFor |-> claimAllFor,
   listLock |-> listLock, delistLock |-> delistLock,
   cancelExpiredListing |-> cancelExpiredListing, sellLockToFurnace |-> sellLockToFurnace,
   sellListedLockToFurnace |-> sellListedLockToFurnace,
   cancelExpiredBonusTargetEscrow |-> cancelExpiredBonusTargetEscrow,
   executeAutoFurnace |-> executeAutoFurnace,
   createBonusTargetEscrowWithTarget |-> createBonusTargetEscrowWithTarget,
   cancelBonusTargetEscrow |-> cancelBonusTargetEscrow,
   extendBonusTargetEscrowExpiry |-> extendBonusTargetEscrowExpiry,
   erc20_approve |-> erc20_approve, ensureAllowance |-> ensureAllowance,
   ve_approve |-> ve_approve, ve_setApprovalForAll |-> ve_setApprovalForAll,
   unlock |-> unlock, setAutoMax |-> setAutoMax,
   checkpointGlobalState |-> checkpointGlobalState, checkpointTotalVe |-> checkpointTotalVe,
   unlockExpiredForUser |-> unlockExpiredForUser]
Entry == Entries[kind]

ASSUME AgentExecutorAssumption ==
  /\ Kinds \subseteq DOMAIN Entries
  /\ MaxOff \in Nat /\ MaxChanges \in Nat /\ MaxNodeFaults \in Nat

-----------------------------------------------------------------------------
(* What the contracts require of the facts.                                *)
Needs(f) == [f |-> f, ok |-> {"yes"}]
NotYet(f) == [f |-> f, ok |-> {"no"}]
Reached(f) == [f |-> f, ok |-> {"at", "yes"}]

ListingRequires(k) ==
  CASE k = "listLock" -> {Needs(f) : f \in {"unpaused", "cooled", "owner", "alive", "unlisted", "notPast"}}
    [] k = "delistLock" -> {Needs("cooled"), Needs("delistable")}
    [] k = "cancelExpiredListing" -> {Needs("cooled"), Needs("active"), Reached("over")}
    [] k = "sellLockToFurnace" -> {Needs(f) : f \in {"unpaused", "owner", "held"}}
    [] k = "sellListedLockToFurnace" ->
         {Needs(f) : f \in {"unpaused", "cooled", "active", "pays"}} \cup {NotYet("over")}
    [] OTHER -> {}
OfferRequires(k) ==
  CASE k = "cancelExpiredBonusTargetEscrow" -> {Needs("active"), Reached("over")}
    [] k = "executeAutoFurnace" ->
         {Needs(f) : f \in {"unpaused", "active", "configured", "bonusAsPaid", "held"}} \cup {NotYet("over")}
    [] k = "createBonusTargetEscrowWithTarget" ->
         {Needs(f) : f \in {"unpaused", "budget", "discount", "allowance", "destOwner", "destFits"}}
    [] k = "cancelBonusTargetEscrow" -> {Needs("active"), Needs("buyer")}
    [] k = "extendBonusTargetEscrowExpiry" ->
         {Needs(f) : f \in {"unpaused", "active", "buyer", "later"}} \cup {NotYet("over")}
    [] OTHER -> {}
Quoted == {"enterWithEth", "enterWithEthFor", "enterWithClaim", "enterWithClaimFromCallerFor",
           "enterWithToken", "enterWithTokenFromCallerFor", "takeover", "takeoverFor",
           "takeoverWithToken", "extendWithBonus", "extendWithBonusFor", "claimShareholderLock"}
OwnerOnly == {"unlock", "setAutoMax", "mergeLocksWithBonus"}
Spending == {"enterWithClaim", "enterWithClaimFromCallerFor", "enterWithToken",
             "enterWithTokenFromCallerFor", "takeoverWithToken"}
OtherRequires(k) ==
  (IF k \in Quoted THEN {Needs("held")} ELSE {})
  \cup (IF k \in Spending THEN {Needs("allowance")} ELSE {})
  \cup (IF k \in OwnerOnly THEN {Needs("owner")} ELSE {})
  \cup (IF k = "mergeLocksWithBonus" THEN {Needs("ownerInto")} ELSE {})
  \cup (IF k = "takeoverWithToken" THEN {Needs("coversPrice")} ELSE {})
  \cup (IF k = "setCurrentReignRecipients" THEN {Needs("mayName")} ELSE {})
  \cup (IF k \in {"ve_approve", "ve_setApprovalForAll"} THEN {Needs("never")} ELSE {})

(* Facts made of others.  The destination of an offer is quoted only while *)
(* it ends no later than a lock made now would; the contract takes every   *)
(* one that lives long enough.                                             *)
Made == [delistable |-> {"active", "seller", "owner", "unlisted"},
         destQuotable |-> {"destOk", "destShort"},
         bonusAsQuoted |-> {"bonusDest", "bonusNew"},
         bonusAsPaid |-> {"destOk", "bonusDest", "bonusNew"},
         mayName |-> {"isKing", "kingsDelegate"},
         approved |-> {}, never |-> {}, any |-> {}]
Is(f) == fact[f] = "yes"
Answer(f) ==
  IF f \notin DOMAIN Made THEN fact[f]
  ELSE IF CASE f = "delistable" -> IF Is("active") THEN Is("seller") ELSE Is("owner") /\ ~Is("unlisted")
            [] f = "destQuotable" -> Is("destOk") /\ Is("destShort")
            [] f = "bonusAsQuoted" -> IF target = "dest" THEN Is("bonusDest") ELSE Is("bonusNew")
            [] f = "bonusAsPaid" -> IF Is("destOk") THEN Is("bonusDest") ELSE Is("bonusNew")
            [] f = "mayName" -> Is("isKing") \/ Is("kingsDelegate")
            [] f = "any" -> TRUE
            [] OTHER -> FALSE      \* VeClaimNFT refuses every approval
       THEN "yes" ELSE "no"

Requires(k) == ListingRequires(k) \cup OfferRequires(k) \cup OtherRequires(k)
getDelegationRequirementForAction ==
  {"enterWithEthFor", "enterWithClaimFromCallerFor", "enterWithTokenFromCallerFor", "takeoverFor",
   "claimShareholderForUser", "withdrawKingBalanceForUser", "claimAllFor", "extendWithBonusFor",
   "mergeLocksWithBonusFor", "unlockExpiredForUser", "setKingAutoLockConfigForUser",
   "setAutoCompoundConfigForUser", "setLpAutoCompoundConfigForUser"}
Delegated == kind \in getDelegationRequirementForAction
Accepted ==
  /\ \A r \in Requires(kind) : Answer(r.f) \in r.ok
  /\ Delegated => Is("session")

(* The facts an action has anything to do with.                            *)
Timed == {"over", "session"}
Facts(k) ==
  LET named == {q.f : q \in ToSet(Entries[k].asks)} \cup {r.f : r \in Requires(k)} IN
  (named \ DOMAIN Made) \cup UNION {Made[f] : f \in named \cap DOMAIN Made}
  \cup (IF k \in getDelegationRequirementForAction THEN {"session"} ELSE {})
Values(f) == IF f \in Timed THEN {"yes", "at", "no"} ELSE {"yes", "no"}

-----------------------------------------------------------------------------
(* pickWalletClientForAction: what is sensitive to its order goes to the   *)
(* private node, and with "only" nothing else goes anywhere.  The helper's *)
(* claims are if they lock.                                                *)
LockingClaims == {"claimShareholderForUser", "claimAllFor"}
isPrivateTxAllowed ==
  \/ kind \in {"takeover", "takeoverFor", "takeoverWithToken", "enterWithEth", "enterWithEthFor",
               "enterWithToken", "enterWithTokenFromCallerFor", "enterWithClaim",
               "enterWithClaimFromCallerFor", "claimShareholderLock", "sellLockToFurnace",
               "sellListedLockToFurnace", "executeAutoFurnace"}
  \/ kind \in LockingClaims /\ asLock
RouteBlocked == mode = "only" /\ ~isPrivateTxAllowed
Route == IF mode # "off" /\ isPrivateTxAllowed THEN "private" ELSE "public"

(* checkAgentActionSecurity: the rules that apply to the action.           *)
ScopeRules == IF Delegated THEN {"user"} ELSE {}
ValueRules == IF kind \in {"takeover", "takeoverFor", "enterWithEth", "enterWithEthFor"} THEN {"value"} ELSE {}
ApprovalRules ==
  IF kind \in {"erc20_approve", "ensureAllowance"} THEN {"spender", "amount"}
  ELSE IF kind \in {"ve_approve", "ve_setApprovalForAll"} THEN {"operator"} ELSE {}
RecipientRules ==
  IF kind \in {"withdrawKingBalance", "withdrawRefundBalance"} THEN {"recipient"} ELSE {}
SecurityRules == {"kind", "shape"} \cup ScopeRules \cup ValueRules \cup ApprovalRules \cup RecipientRules
AllRules == {"kind", "shape", "user", "value", "spender", "amount", "operator", "recipient"}

NoReport == [as |-> "none", why |-> "", hash |-> FALSE]
Usual == fact = [f \in Facts(kind) |-> IF f = "over" THEN "no" ELSE "yes"]
ExecInit ==
  /\ kind \in Kinds /\ execute \in BOOLEAN
  /\ asLock \in (IF kind \in LockingClaims THEN BOOLEAN ELSE {FALSE})
  /\ managed \in (IF execute THEN BOOLEAN ELSE {FALSE})
  /\ fact \in {w \in [Facts(kind) -> {"yes", "at", "no"}] :
                 /\ \A f \in Facts(kind) : w[f] \in Values(f)
                 /\ Cardinality({f \in Facts(kind) \ {"over"} : w[f] # "yes"}) <= MaxOff}
  /\ mode \in (IF Usual THEN {"off", "route", "only"} ELSE {"off"})
  /\ broken \in (IF Usual THEN {{}} \cup {{r} : r \in AllRules} ELSE {{}})
  /\ at = "policy" /\ step = 1 /\ target = "new" /\ attempt = 1 /\ txs = <<>> /\ effects = 0
  /\ report = NoReport /\ changes = 0 /\ nodeFaults = 0

Running == report = NoReport
Report(as, why, hash) == report' = [as |-> as, why |-> why, hash |-> hash] /\ at' = "done"
NodeFails == nodeFaults < MaxNodeFaults /\ nodeFaults' = nodeFaults + 1

(* The code before the first answer is awaited.                            *)
CheckPolicy ==
  /\ Running /\ at = "policy"
  /\ IF execute /\ RouteBlocked THEN Report("blocked", "route", FALSE)
     ELSE IF broken \cap SecurityRules # {} THEN Report("blocked", "security", FALSE)
     ELSE IF Delegated /\ "DelegationHub" \notin Manifest THEN Report("blocked", "manifest", FALSE)
     ELSE at' = (IF Delegated THEN "session" ELSE "entry") /\ UNCHANGED report
  /\ UNCHANGED <<what, fact, step, target, attempt, txs, effects, changes, nodeFaults>>

(* The session of the user; outside the try, so that a node that fails     *)
(* makes the whole call fail.                                              *)
CheckSession ==
  /\ Running /\ at = "session"
  /\ \/ /\ UNCHANGED nodeFaults
        /\ IF fact["session"] = "no" THEN Report("blocked", "session", FALSE)
           ELSE at' = "entry" /\ UNCHANGED report
     \/ NodeFails /\ Report("thrown", "node", FALSE)
  /\ UNCHANGED <<what, fact, step, target, attempt, txs, effects, changes>>

EnterCase ==
  /\ Running /\ at = "entry"
  /\ IF Entry.uses \subseteq Manifest THEN at' = "ask" /\ UNCHANGED report
     ELSE Report("blocked", "manifest", FALSE)
  /\ UNCHANGED <<what, fact, step, target, attempt, txs, effects, changes, nodeFaults>>

(* What fails ends the action, but a cancellation is called once more.     *)
Catch(why, hash) ==
  IF kind = "cancelBonusTargetEscrow" /\ attempt = 1
  THEN at' = "simulate" /\ attempt' = 2 /\ UNCHANGED report
  ELSE Report(why, "", hash) /\ UNCHANGED attempt

Question == Entry.asks[step]
Proceed == step' = step + 1 /\ UNCHANGED <<at, report, attempt>>
AskAgain == UNCHANGED <<at, step, report, attempt>>

(* The node answers.                                                       *)
Answered ==
  /\ UNCHANGED nodeFaults
  /\ \/ /\ Question.as = "quote" /\ Proceed /\ UNCHANGED target
     \/ /\ Question.as = "dest" /\ Proceed
        /\ target' = IF Answer(Question.f) = "yes" THEN "dest" ELSE "new"
     \/ /\ Question.as = "bonus" /\ target = "dest" /\ ~Is("destOk")    \* the quoter refuses
        /\ target' = "new" /\ AskAgain
     \/ /\ Question.as = "skip" /\ UNCHANGED target
        /\ IF Answer(Question.f) = "yes" THEN Report("skipped", "", FALSE) /\ UNCHANGED <<step, attempt>>
           ELSE Proceed
     \/ /\ Question.as \in {"must", "soft", "bonus"} /\ UNCHANGED target
        /\ IF Answer(Question.f) \in Question.ok THEN Proceed
           ELSE Report("blocked", Question.f, FALSE) /\ UNCHANGED <<step, attempt>>

(* It fails: the read is made in a try of its own, or the action ends.     *)
PassedOver == Question.as = "soft" \/ (Question.as = "skip" /\ Question.f = "allowance")
Unanswered ==
  /\ NodeFails
  /\ IF PassedOver THEN Proceed /\ UNCHANGED target
     ELSE IF Question.as = "dest" THEN target' = "new" /\ Proceed
     ELSE IF Question.as = "bonus" /\ target = "dest" THEN target' = "new" /\ AskAgain
     ELSE Catch("error", FALSE) /\ UNCHANGED <<step, target>>

AskNext ==
  /\ Running /\ at = "ask" /\ step <= Len(Entry.asks)
  /\ Answered \/ Unanswered
  /\ fact' = IF Question.as \in {"quote", "bonus"} /\ step' > step /\ "held" \in DOMAIN fact
             THEN [fact EXCEPT !["held"] = "yes"] ELSE fact
  /\ UNCHANGED <<what, txs, effects, changes>>

AsksDone ==
  /\ Running /\ at = "ask" /\ step > Len(Entry.asks) /\ at' = "simulate"
  /\ UNCHANGED <<what, fact, step, target, attempt, txs, effects, report,
                 changes, nodeFaults>>

(* simulateOnly, and the simulation in simulateAndWrite.                   *)
Simulate ==
  /\ Running /\ at = "simulate"
  /\ \/ /\ UNCHANGED nodeFaults
        /\ IF ~Accepted THEN Catch("error", FALSE)
           ELSE IF ~execute THEN Report("simulated", "", FALSE) /\ UNCHANGED attempt
           ELSE at' = "write" /\ UNCHANGED <<report, attempt>>
     \/ NodeFails /\ Catch("error", FALSE)
  /\ UNCHANGED <<what, fact, step, target, txs, effects, changes>>

(* A broadcast that fails may be out all the same.                         *)
Write ==
  /\ Running /\ at = "write"
  /\ LET sent == Append(txs, [route |-> Route, state |-> "pending"]) IN
     \/ at' = "wait" /\ txs' = sent /\ UNCHANGED <<report, attempt, nodeFaults>>
     \/ NodeFails /\ Catch("error", FALSE) /\ txs' \in {txs, sent}
  /\ UNCHANGED <<what, fact, step, target, effects, changes>>

(* The receipt; one that says reverted is an error.  The hash is told if   *)
(* the error is of harness/tx.ts; that of txManager.ts is another class of *)
(* the same name, which the executor does not know.                        *)
UncheckedMutant ==
  /\ Running /\ at = "wait"
  /\ txs[Len(txs)].state \in {"mined", "reverted"}
  /\ Report("sent", "", TRUE) /\ UNCHANGED attempt
  /\ UNCHANGED <<what, fact, step, target, txs, effects, changes, nodeFaults>>
Receive ==
  /\ Running /\ at = "wait"
  /\ \/ /\ txs[Len(txs)].state = "mined"
        /\ Report("sent", "", TRUE) /\ UNCHANGED attempt
     \/ /\ txs[Len(txs)].state = "reverted"
        /\ IF managed THEN Catch("error", FALSE) ELSE Catch("reverted", TRUE)
  /\ UNCHANGED <<what, fact, step, target, txs, effects, changes, nodeFaults>>

(* The wait ends without a receipt.  The manager's time-out tells the      *)
(* hash; viem's own, or a poll that fails, is an error like any other.     *)
OptimisticMutant ==
  /\ Running /\ at = "wait" /\ NodeFails
  /\ Report("sent", "", TRUE) /\ UNCHANGED attempt
  /\ UNCHANGED <<what, fact, step, target, txs, effects, changes>>
TimesOut ==
  /\ Running /\ at = "wait" /\ NodeFails
  /\ \/ managed /\ txs[Len(txs)].state = "pending" /\ Catch("timeout", TRUE)
     \/ Catch("error", FALSE)
  /\ UNCHANGED <<what, fact, step, target, txs, effects, changes>>

(* The chain: a transaction is mined, in the state that is there then.     *)
Mined(i) ==
  /\ i \in DOMAIN txs /\ txs[i].state = "pending"
  /\ \A j \in 1..i - 1 : txs[j].state # "pending"
  /\ IF Accepted
     THEN /\ txs' = [txs EXCEPT ![i].state = "mined"] /\ effects' = effects + 1
          /\ fact' = IF "active" \in DOMAIN fact /\ kind # "extendBonusTargetEscrowExpiry"
                     THEN [fact EXCEPT !["active"] = "no"] ELSE fact
     ELSE txs' = [txs EXCEPT ![i].state = "reverted"] /\ UNCHANGED <<effects, fact>>
  /\ UNCHANGED <<what, at, step, target, attempt, report, changes, nodeFaults>>

(* Others act, or time goes by.                                            *)
Changes ==
  /\ Running /\ changes < MaxChanges /\ changes' = changes + 1
  /\ \E f \in DOMAIN fact : \E v \in Values(f) \ {fact[f]} :
       /\ f = "active" => v = "no"        \* nothing that was closed opens again
       /\ f \in Timed => <<fact[f], v>> # (IF f = "over" THEN <<"yes", "at">> ELSE <<"no", "at">>)
       /\ fact' = [fact EXCEPT ![f] = v]
  /\ UNCHANGED <<what, at, step, target, attempt, txs, effects, report, nodeFaults>>

ExecStep == CheckPolicy \/ CheckSession \/ EnterCase \/ AskNext \/ AsksDone \/ Simulate
            \/ Write \/ Receive \/ TimesOut
ExecNext == ExecStep \/ Changes \/ \E i \in 1..2 : Mined(i)
ExecSpec == ExecInit /\ [][ExecNext]_execVars

-----------------------------------------------------------------------------
(* type invariant *)
ExecTypeOK ==
  /\ kind \in Kinds /\ execute \in BOOLEAN /\ asLock \in BOOLEAN /\ managed \in BOOLEAN
  /\ mode \in {"off", "route", "only"} /\ target \in {"dest", "new"}
  /\ at \in {"policy", "session", "entry", "ask", "simulate", "write", "wait", "done"}
  /\ step \in 1..9 /\ attempt \in 1..2 /\ Len(txs) <= 2 /\ effects \in Nat
  /\ changes \in 0..MaxChanges /\ nodeFaults \in 0..MaxNodeFaults

(* What the executor says of an action agrees with the chain, whatever     *)
(* changed while it asked and however the nodes failed: "sent" took effect *)
(* once and "reverted" did not, a hash is that of a transaction, and what  *)
(* was blocked, skipped, simulated or thrown was not sent.  Nothing is     *)
(* sent in a dry run, past a rule of the security settings or to the       *)
(* public in mode "only".  An "error" says nothing: it has no hash, but    *)
(* its transaction may be out or even reverted.  The second call of a      *)
(* cancellation reports over the first.                                    *)
SaysNothingSent == {"blocked", "skipped", "simulated", "thrown"}
ReportsAreTrue ==
  /\ effects <= 1
  /\ report.as = "sent" => effects = 1 /\ report.hash
  /\ (report.as = "reverted" /\ kind # "cancelBonusTargetEscrow") => effects = 0
  /\ report.as \in {"reverted", "timeout"} => report.hash
  /\ report.hash => txs # <<>>
  /\ report.as \in SaysNothingSent => txs = <<>>
  /\ txs # <<>> => execute /\ broken \cap SecurityRules = {}
  /\ \A i \in DOMAIN txs : mode = "only" => txs[i].route = "private"

(* The rules the executor adds to the contract's: only the King names      *)
(* recipients and only the seller sells a listing, nothing is locked that  *)
(* is not there, and (see ListingsGoThrough and the README) approvals.     *)
OwnRules ==
  {<<"setCurrentReignRecipients", "isKing">>, <<"sellListedLockToFurnace", "owner">>,
   <<"claimShareholderLock", "claimable">>, <<"ve_approve", "owner">>}
  \cup {<<k, "approved">> : k \in {"listLock", "sellLockToFurnace", "sellListedLockToFurnace"}}

(* Where the questions are asked differently from the contract: the rescue *)
(* of a lock the router does not know, the very second of an expiry, and   *)
(* an offer quoted for another lock than the contract would take, because  *)
(* its destination outlives a new lock, changed meanwhile or was not read. *)
Differs ==
  \/ kind = "delistLock" /\ ~Is("active")
  \/ kind \in {"cancelExpiredListing", "cancelExpiredBonusTargetEscrow"} /\ fact["over"] = "at"
  \/ kind = "executeAutoFurnace" /\ Question = Bonus /\ (Is("destOk") <=> target # "dest")

(* An answer that blocks an action is one for which the contract would     *)
(* refuse it too: no action is held back that could have gone through.     *)
BlockedMeansRefused ==
  [][\A f \in DOMAIN fact \cup DOMAIN Made :
       (report'.as = "blocked" /\ report'.why = f /\ Running /\ at = "ask"
        /\ <<kind, f>> \notin OwnRules /\ ~Differs) => ~Accepted]_execVars

(* "the agent can automatically insert the required approval actions"      *)
(* (agents/sdk/README.md:441): an approval it asks for is one that is      *)
(* needed, and can be had.                                                 *)
ListingsGoThrough ==
  [][(report'.as = "blocked" /\ report'.why = "approved" /\ Running) => ~Accepted]_execVars
=============================================================================
