--------------------------- MODULE SubgraphThrone ---------------------------
(***************************************************************************)
(* The subgraph's mirror of the throne: the handlers of MineCore's,        *)
(* ShareholderRoyalties' and DelegationHub's events, in the order in which *)
(* one transaction emits them, over a throne reduced to what its events    *)
(* say.  Indexing may start in the middle of the throne's history.         *)
(***************************************************************************)
EXTENDS Integers, Sequences, FiniteSets, FiniteSetsExt, SequencesExt

CONSTANTS
  Kings, Bot,    \* users, and the delegate (also a keeper) who acts for them
  Nobody,        \* the zero address
  Perms,         \* sets of permissions a session may grant
  Price, Share,  \* of a takeover: what is paid, and the royalties' part
  Outcomes,      \* of the calls a takeover makes: [paid, royal, lock, refund]
  Histories,     \* whether events before the first indexed block may be missed
  MaxThroneCalls

ASSUME SubgraphThroneAssumption ==
  /\ Bot \notin Kings /\ Nobody \notin Kings \cup {Bot}
  /\ Price \in Nat /\ Share \in 0..Price /\ MaxThroneCalls \in Nat
  /\ \A o \in Outcomes : /\ o.paid \in BOOLEAN /\ o.royal \in BOOLEAN /\ o.refund \in BOOLEAN
                         /\ o.lock \in {"Executed", "Skipped", "Failed"}

Parties == Kings \cup {Bot}
Kinds == {"paid", "credited", "withdrawn", "refunded", "refundTaken", "liquid", "locked",
          "claim", "compound", "executed", "failed", "changed"}

VARIABLES
  chain,   \* what the contracts hold; a call takes a unit of time
  since,   \* the chain at the first indexed block, or <<>> before it
  graph    \* the subgraph's store

throneVars == <<chain, since, graph>>

EmptyChain ==
  [now |-> 1, reigns |-> <<>>, ethTo |-> Nobody, claimTo |-> Nobody, sets |-> <<>>,
   owed |-> [a \in Parties |-> 0], refund |-> [a \in Parties |-> 0],
   pendingEth |-> 0, delivered |-> <<0>>,      \* to the reigns, the last of them 0
   session |-> [u \in Kings |-> {}], hubSets |-> [u \in Kings |-> 0],
   auto |-> [u \in Kings |-> [enabled |-> FALSE, paused |-> FALSE]],
   claimed |-> [u \in Kings |-> 0], keeper |-> FALSE]

NoUser == [takeovers |-> 0, spent |-> 0, mined |-> 0, longest |-> 0, claimed |-> 0]
EmptyGraph ==
  [reigns |-> [r \in {} |-> 0], users |-> [a \in Parties \cup {Nobody} |-> NoUser],
   recipients |-> [r \in {} |-> 0], midUpdates |-> 0, allocation |-> [r \in {} |-> 0],
   sessions |-> [u \in {} |-> 0], auto |-> [u \in {} |-> 0], keeper |-> FALSE,
   feed |-> [k \in Kinds |-> 0], bucket |-> [a \in Parties |-> 0]]

-----------------------------------------------------------------------------
(* The store's handlers.  An entity is made when it is first named.        *)
Upsert(f, k, v) == [x \in DOMAIN f \cup {k} |-> IF x = k THEN v ELSE f[x]]
RowOf(g, kind, a) == [g EXCEPT !.feed[kind] = @ + a]

NewReign(king, start, by, prev) ==
  [king |-> king, start |-> start, by |-> by, prev |-> prev,
   end |-> 0, mined |-> 0, eth |-> 0, liquid |-> 0]
PreviousOf(r) == IF r > 1 THEN r - 1 ELSE 0

\* mutant: a reign an allocation named first keeps its placeholder
StaleKingMutant(g, e) ==
  LET old == IF e.r \in DOMAIN g.reigns THEN g.reigns[e.r]
             ELSE NewReign(e.king, e.at, "takeover", PreviousOf(e.r))
  IN [g EXCEPT !.reigns = Upsert(@, e.r, old), !.users[e.king].takeovers = @ + 1,
               !.users[e.king].spent = @ + e.a]
handleTakeover(g, e) ==
  LET old == IF e.r \in DOMAIN g.reigns THEN g.reigns[e.r]
             ELSE NewReign(e.king, e.at, "takeover", PreviousOf(e.r))
  IN [g EXCEPT !.reigns = Upsert(@, e.r, [old EXCEPT !.king = e.king, !.start = e.at, !.by = "takeover"]),
               !.users[e.king].takeovers = @ + 1, !.users[e.king].spent = @ + e.a]

\* mutant: finalizing leaves the placeholder's start
KeepStartMutant(g, e) ==
  LET old == IF e.r \in DOMAIN g.reigns THEN g.reigns[e.r]
             ELSE NewReign(e.king, e.start, "missing", 0)
  IN [g EXCEPT !.reigns = Upsert(@, e.r, [old EXCEPT !.king = e.king, !.end = e.at,
                                                  !.mined = e.mined, !.eth = e.a]),
               !.users[e.king].mined = @ + e.mined,
               !.users[e.king].longest = Max({@, e.at - e.start})]
handleReignFinalized(g, e) ==
  LET old == IF e.r \in DOMAIN g.reigns THEN g.reigns[e.r]
             ELSE NewReign(e.king, e.start, "missing", 0)
  IN [g EXCEPT !.reigns = Upsert(@, e.r, [old EXCEPT !.king = e.king, !.start = e.start, !.end = e.at,
                                                  !.mined = e.mined, !.eth = e.a]),
               !.users[e.king].mined = @ + e.mined,
               !.users[e.king].longest = Max({@, e.at - e.start})]

handleKingClaimLiquidPaid(g, e) ==
  RowOf(IF e.r \in DOMAIN g.reigns THEN [g EXCEPT !.reigns[e.r].liquid = e.a] ELSE g, "liquid", e.a)
handleKingAutoLockExecuted(g, e) == RowOf(g, "locked", e.a)
handleKingAutoLockSkipped(g, e) == RowOf(g, "locked", e.a)
handleKingAutoLockFailed(g, e) == RowOf(g, "locked", e.a)

(* A bucket is what its rows add up to.                                    *)
handleKingEthPaid(g, e) == RowOf(g, "paid", e.a)
handleKingEthCredited(g, e) == RowOf([g EXCEPT !.bucket[e.to] = @ + e.a], "credited", e.a)
handleKingWithdrawal(g, e) == RowOf([g EXCEPT !.bucket[e.to] = @ - e.a], "withdrawn", e.a)
handleRefundCredited(g, e) == RowOf(g, "refunded", e.a)
handleRefundWithdrawn(g, e) == RowOf(g, "refundTaken", e.a)
handleShareholderRoyaltiesTakeoverFailed(g, e) == RowOf(g, "failed", e.a)

(* The first set of a reign is no change when its transaction is a         *)
(* takeover; any later one is a change.                                    *)
receiptHasTopic(tx, kind) == \E i \in DOMAIN tx : tx[i].k = kind
\* mutant: the first set that is indexed is taken for the takeover's
FirstIsNoChangeMutant(g, e, tx) ==
  LET known == e.r \in DOMAIN g.recipients
      n == IF known THEN g.recipients[e.r].n ELSE -1
  IN [g EXCEPT !.recipients = Upsert(@, e.r, [eth |-> e.eth, claim |-> e.claim, n |-> n + 1]),
               !.midUpdates = @ + (IF known THEN 1 ELSE 0)]
\* mutant: updateCount starts from 0
FromOneMutant(g, e, tx) ==
  LET known == e.r \in DOMAIN g.recipients
      n == IF known THEN g.recipients[e.r].n ELSE 0
  IN [g EXCEPT !.recipients = Upsert(@, e.r, [eth |-> e.eth, claim |-> e.claim, n |-> n + 1]),
               !.midUpdates = @ + (IF known \/ ~receiptHasTopic(tx, "Takeover") THEN 1 ELSE 0)]
handleReignRecipientsSet(g, e, tx) ==
  LET known == e.r \in DOMAIN g.recipients
      n == IF known THEN g.recipients[e.r].n ELSE -1
  IN [g EXCEPT !.recipients = Upsert(@, e.r, [eth |-> e.eth, claim |-> e.claim, n |-> n + 1]),
               !.midUpdates = @ + (IF known \/ ~receiptHasTopic(tx, "Takeover") THEN 1 ELSE 0)]

(* An allocation may name a reign the store does not know yet.             *)
ensureReignForForeignKey(g, r, at) ==
  IF r \in DOMAIN g.reigns THEN g
  ELSE [g EXCEPT !.reigns = Upsert(@, r, NewReign(Nobody, at, "missing", PreviousOf(r)))]
handleShareholderTakeoverAllocation(g, e) ==
  LET r == IF e.r = 0 THEN 1 ELSE e.r
      h == ensureReignForForeignKey(g, r, e.at)
      sum == IF r \in DOMAIN h.allocation THEN h.allocation[r] ELSE 0
  IN [h EXCEPT !.allocation = Upsert(@, r, sum + e.a)]

handleShareholderClaim(g, e) ==
  RowOf([g EXCEPT !.users[e.u].claimed = @ + e.a], IF e.mode = 0 THEN "claim" ELSE "compound", e.a)
handleShareholderAutoCompoundConfigured(g, e) ==
  [g EXCEPT !.auto = Upsert(@, e.u, [enabled |-> e.on, paused |-> FALSE])]
handleShareholderAutoCompoundPaused(g, e) ==
  [g EXCEPT !.auto = Upsert(@, e.u, [enabled |-> IF e.u \in DOMAIN @ THEN @[e.u].enabled ELSE FALSE,
                                  paused |-> TRUE])]
handleShareholderAutoCompoundExecuted(g, e) == RowOf(g, "executed", e.a)
handleShareholderAutoCompoundKeeperSet(g, e) == RowOf([g EXCEPT !.keeper = e.on], "changed", 1)

handleSessionSet(g, e) ==
  [g EXCEPT !.sessions = Upsert(@, e.u, [perms |-> e.perms, revoked |-> e.perms = {}])]
\* mutant: a use narrows the permissions to those it used
LastUseMutant(g, e) ==
  LET revoked == IF e.u \in DOMAIN g.sessions THEN g.sessions[e.u].revoked ELSE FALSE
  IN [g EXCEPT !.sessions = Upsert(@, e.u, [perms |-> e.perms, revoked |-> revoked])]
recordDelegationSessionUsed(g, e) ==
  LET old == IF e.u \in DOMAIN g.sessions THEN g.sessions[e.u] ELSE [perms |-> e.perms, revoked |-> FALSE]
  IN [g EXCEPT !.sessions = Upsert(@, e.u, [old EXCEPT !.perms = @ \cup e.perms])]

Handled(g, e, tx) ==
  CASE e.k = "Takeover" -> handleTakeover(g, e)
    [] e.k = "ReignFinalized" -> handleReignFinalized(g, e)
    [] e.k = "KingClaimLiquidPaid" -> handleKingClaimLiquidPaid(g, e)
    [] e.k = "Executed" -> handleKingAutoLockExecuted(g, e)
    [] e.k = "Skipped" -> handleKingAutoLockSkipped(g, e)
    [] e.k = "Failed" -> handleKingAutoLockFailed(g, e)
    [] e.k = "KingEthPaid" -> handleKingEthPaid(g, e)
    [] e.k = "KingEthCredited" -> handleKingEthCredited(g, e)
    [] e.k = "KingWithdrawal" -> handleKingWithdrawal(g, e)
    [] e.k = "RefundCredited" -> handleRefundCredited(g, e)
    [] e.k = "RefundWithdrawn" -> handleRefundWithdrawn(g, e)
    [] e.k = "RoyaltiesFailed" -> handleShareholderRoyaltiesTakeoverFailed(g, e)
    [] e.k = "ReignRecipientsSet" -> handleReignRecipientsSet(g, e, tx)
    [] e.k = "Allocation" -> handleShareholderTakeoverAllocation(g, e)
    [] e.k = "ShareholderClaim" -> handleShareholderClaim(g, e)
    [] e.k = "Configured" -> handleShareholderAutoCompoundConfigured(g, e)
    [] e.k = "Paused" -> handleShareholderAutoCompoundPaused(g, e)
    [] e.k = "AutoCompounded" -> handleShareholderAutoCompoundExecuted(g, e)
    [] e.k = "KeeperSet" -> handleShareholderAutoCompoundKeeperSet(g, e)
    [] e.k = "SessionSet" -> handleSessionSet(g, e)
    [] e.k = "SessionUsed" -> recordDelegationSessionUsed(g, e)

-----------------------------------------------------------------------------
(* A call: the chain moves on, and its events are indexed once indexing    *)
(* has begun.                                                              *)
Becomes(c, tx) ==
  /\ chain' = [c EXCEPT !.now = @ + 1]
  /\ graph' = IF since = <<>> THEN graph ELSE FoldLeft(LAMBDA g, e : Handled(g, e, tx), graph, tx)
  /\ UNCHANGED since

Reign == Len(chain.reigns)
King == IF Reign = 0 THEN Nobody ELSE chain.reigns[Reign].king
May(u, p) == p \in chain.session[u]

(* What settling the last reign says, and the reign as it then is.         *)
Mined == chain.now - chain.reigns[Reign].start
LiquidPart == Mined \div 2
Finalized == [chain.reigns[Reign] EXCEPT !.end = chain.now, !.mined = Mined, !.eth = Price - Share,
                                         !.liquid = LiquidPart]
RoyaltyEvent(r, a, o) ==
  IF o.royal THEN <<[k |-> "Allocation", r |-> r, a |-> a, at |-> chain.now]>>
  ELSE <<[k |-> "RoyaltiesFailed", a |-> a]>>
SettlementEvents(o) ==
  LET f == Finalized IN
  <<[k |-> IF o.paid THEN "KingEthPaid" ELSE "KingEthCredited", to |-> chain.ethTo, a |-> f.eth]>>
  \o RoyaltyEvent(Reign, Share, o)
  \o <<[k |-> "ReignFinalized", r |-> Reign, king |-> f.king, start |-> f.start, at |-> f.end,
        mined |-> f.mined, a |-> f.eth]>>
  \o (IF f.liquid = 0 THEN <<>> ELSE <<[k |-> "KingClaimLiquidPaid", r |-> Reign, a |-> f.liquid]>>)
  \o <<[k |-> o.lock, a |-> f.mined - f.liquid]>>

_executeTakeover(u, by, ethTo, claimTo, o) ==
  LET new == [king |-> u, start |-> chain.now, end |-> 0, price |-> Price, mined |-> 0, eth |-> 0,
              liquid |-> 0]
      gone == IF Reign = 0 THEN <<>> ELSE [chain.reigns EXCEPT ![Reign] = Finalized]
      part == IF Reign = 0 THEN Price ELSE Share
      perms == {"takeover"} \cup (IF claimTo = by THEN {"route"} ELSE {})
      tx == (IF Reign = 0 THEN RoyaltyEvent(0, part, o) ELSE SettlementEvents(o))
            \o <<[k |-> "ReignRecipientsSet", r |-> Reign + 1, eth |-> ethTo, claim |-> claimTo],
                 [k |-> "Takeover", r |-> Reign + 1, king |-> u, a |-> Price, at |-> chain.now]>>
            \o (IF by = u THEN <<>> ELSE <<[k |-> "SessionUsed", u |-> u, perms |-> perms]>>)
            \o (IF o.refund THEN <<[k |-> "RefundCredited", to |-> by, a |-> 1]>> ELSE <<>>)
  IN Becomes([chain EXCEPT !.reigns = Append(gone, new), !.ethTo = ethTo, !.claimTo = claimTo,
                !.sets = Append(@, 0),
                !.owed = IF Reign = 0 \/ o.paid THEN @ ELSE [@ EXCEPT ![chain.ethTo] = @ + Price - Share],
                !.refund[by] = @ + (IF o.refund THEN 1 ELSE 0),
                !.pendingEth = @ + (IF o.royal THEN 0 ELSE part),
                !.delivered = Append([@ EXCEPT ![Len(@)] = @ + (IF o.royal THEN part ELSE 0)], 0)], tx)

takeover == \E u \in Kings \ {King}, o \in Outcomes : _executeTakeover(u, u, u, u, o)
takeoverFor ==
  \E u \in Kings \ {King}, o \in Outcomes :
    /\ May(u, "takeover")
    /\ _executeTakeover(u, Bot, Bot, IF May(u, "route") THEN Bot ELSE u, o)

retryPushShareholderEth ==
  /\ chain.pendingEth > 0
  /\ \E royal \in {o.royal : o \in Outcomes} :
       Becomes(IF royal THEN [chain EXCEPT !.pendingEth = 0, !.delivered[1] = @ + chain.pendingEth] ELSE chain,
               RoyaltyEvent(0, chain.pendingEth, [royal |-> royal]))

_withdrawKingBalanceTo ==
  \E a \in {x \in Parties : chain.owed[x] > 0} :
    Becomes([chain EXCEPT !.owed[a] = 0], <<[k |-> "KingWithdrawal", to |-> a, a |-> chain.owed[a]]>>)
withdrawRefundBalance ==
  \E a \in {x \in Parties : chain.refund[x] > 0} :
    Becomes([chain EXCEPT !.refund[a] = 0], <<[k |-> "RefundWithdrawn", a |-> chain.refund[a]]>>)

setCurrentReignRecipients ==
  /\ Reign > 0
  /\ \E by \in {King} \cup (IF May(King, "recipients") THEN {Bot} ELSE {}),
        eth, claim \in {King, Bot} :
       /\ <<eth, claim>> # <<chain.ethTo, chain.claimTo>>
       /\ Becomes([chain EXCEPT !.ethTo = eth, !.claimTo = claim, !.sets[Reign] = @ + 1],
            <<[k |-> "ReignRecipientsSet", r |-> Reign, eth |-> eth, claim |-> claim]>>
            \o (IF by = King THEN <<>>
                ELSE <<[k |-> "SessionUsed", u |-> King, perms |-> {"recipients"}]>>))

_setSession ==
  \E u \in Kings, p \in Perms :
    /\ p # chain.session[u]
    /\ Becomes([chain EXCEPT !.session[u] = p, !.hubSets[u] = @ + 1],
               <<[k |-> "SessionSet", u |-> u, perms |-> p]>>)

claimShareholder ==
  \E u \in Kings :
    Becomes([chain EXCEPT !.claimed[u] = @ + 1], <<[k |-> "ShareholderClaim", u |-> u, mode |-> 0, a |-> 1]>>)
_setAutoCompoundConfig ==
  \E u \in Kings, on \in BOOLEAN :
    /\ chain.auto[u] # [enabled |-> on, paused |-> FALSE]
    /\ Becomes([chain EXCEPT !.auto[u] = [enabled |-> on, paused |-> FALSE]],
               <<[k |-> "Configured", u |-> u, on |-> on]>>)
compoundFor ==
  \E u \in {x \in Kings : chain.auto[x] = [enabled |-> TRUE, paused |-> FALSE]}, ok \in BOOLEAN :
    Becomes(IF ok THEN [chain EXCEPT !.claimed[u] = @ + 1] ELSE [chain EXCEPT !.auto[u].paused = TRUE],
            IF ok THEN <<[k |-> "AutoCompounded", a |-> 1],
                         [k |-> "ShareholderClaim", u |-> u, mode |-> 1, a |-> 1]>>
            ELSE <<[k |-> "Paused", u |-> u]>>)
setAutoCompoundKeeper ==
  Becomes([chain EXCEPT !.keeper = ~@], <<[k |-> "KeeperSet", on |-> ~chain.keeper]>>)

IndexingStarts == since = <<>> /\ since' = <<chain>> /\ UNCHANGED <<chain, graph>>

SubgraphThroneInit ==
  /\ chain = EmptyChain /\ graph = EmptyGraph
  /\ \E late \in Histories : since = IF late THEN <<>> ELSE <<EmptyChain>>
SubgraphThroneNext ==
  \/ chain.now <= MaxThroneCalls
     /\ (takeover \/ takeoverFor \/ retryPushShareholderEth \/ _withdrawKingBalanceTo
         \/ withdrawRefundBalance \/ setCurrentReignRecipients \/ _setSession \/ claimShareholder
         \/ _setAutoCompoundConfig \/ compoundFor \/ setAutoCompoundKeeper)
  \/ IndexingStarts

SubgraphThroneSpec == SubgraphThroneInit /\ [][SubgraphThroneNext]_throneVars

-----------------------------------------------------------------------------
(* type invariant *)
ThroneMirrorTypeOK ==
  /\ chain.now \in 1..MaxThroneCalls + 1 /\ Len(since) <= 1
  /\ DOMAIN graph.reigns \subseteq 1..Reign /\ DOMAIN graph.recipients \subseteq 1..Reign

Before == since[1]
FirstReign == Len(Before.reigns) + 1
SeenReigns == FirstReign..Reign
SeenEnded == {r \in FirstReign - 1..Reign - 1 : r > 0}
SumOf(f, S) == MapThenSumSet(LAMBDA r : f[r], S)

(* A reign whose start or end was indexed is as the contract holds it; of  *)
(* the others only the first may be named, by an allocation.               *)
ReignsAreMirrored ==
  /\ \A r \in SeenReigns \cup SeenEnded :
       LET c == chain.reigns[r] IN
       /\ r \in DOMAIN graph.reigns
       /\ LET g == graph.reigns[r] IN
          /\ <<g.king, g.start, g.end, g.mined, g.eth, g.liquid>>
               = <<c.king, c.start, c.end, c.mined, c.eth, c.liquid>>
          /\ g.by = IF r \in SeenReigns THEN "takeover" ELSE "missing"
          /\ r \in SeenReigns => g.prev = PreviousOf(r)
  /\ DOMAIN graph.reigns \subseteq SeenReigns \cup SeenEnded \cup {1}

(* A user's totals are those of the reigns that were indexed.              *)
UsersAreMirrored ==
  \A u \in Kings :
    LET began == {r \in SeenReigns : chain.reigns[r].king = u}
        ended == {r \in SeenEnded : chain.reigns[r].king = u}
    IN graph.users[u] =
         [takeovers |-> Cardinality(began),
          spent |-> SumOf([r \in began |-> chain.reigns[r].price], began),
          mined |-> SumOf([r \in ended |-> chain.reigns[r].mined], ended),
          longest |-> Max({0} \cup {chain.reigns[r].end - chain.reigns[r].start : r \in ended}),
          claimed |-> chain.claimed[u] - Before.claimed[u]]

(* What is owed, paid and shared out can be told from the rows alone.      *)
RowsReconcile ==
  LET f == graph.feed
      eth == SumOf([r \in SeenEnded |-> chain.reigns[r].eth], SeenEnded)
      mined == SumOf([r \in SeenEnded |-> chain.reigns[r].mined], SeenEnded)
  IN /\ f.paid + f.credited = eth /\ f.liquid + f.locked = mined
     /\ \A a \in Parties : graph.bucket[a] = chain.owed[a] - Before.owed[a]
     /\ f.refunded - f.refundTaken = SumOf(chain.refund, Parties) - SumOf(Before.refund, Parties)
     /\ f.claim + f.compound = SumOf(chain.claimed, Kings) - SumOf(Before.claimed, Kings)
     /\ f.executed = f.compound

(* Recipients are the contract's, each change is counted once, and the     *)
(* takeover's own set is none.                                             *)
SetsSeen(r) == chain.sets[r] - (IF r < FirstReign THEN Before.sets[r] ELSE 0)
RecipientsAreMirrored ==
  /\ \A r \in DOMAIN graph.recipients :
       /\ r = Reign => /\ graph.recipients[r].eth = chain.ethTo
                       /\ graph.recipients[r].claim = chain.claimTo
       /\ graph.recipients[r].n = SetsSeen(r) - (IF r < FirstReign THEN 1 ELSE 0)
  /\ SeenReigns \subseteq DOMAIN graph.recipients
  /\ graph.midUpdates = SumOf([r \in 1..Reign |-> SetsSeen(r)], 1..Reign)

(* What reached the royalties, by the reign that earned it; what was paid  *)
(* at genesis or again after a failure is the first reign's.               *)
DeliveredSeen(i) == chain.delivered[i] - (IF i <= Len(Before.delivered) THEN Before.delivered[i] ELSE 0)
AllocationsAreMirrored ==
  \A r \in 1..Reign :
    (IF r \in DOMAIN graph.allocation THEN graph.allocation[r] ELSE 0)
      = DeliveredSeen(r + 1) + (IF r = 1 THEN DeliveredSeen(1) ELSE 0)

(* A session that was set is the hub's; one only seen in use grants at     *)
(* least what was used, and never more than the hub does.                  *)
SessionsAreMirrored ==
  \A u \in Kings :
    LET set == chain.hubSets[u] > Before.hubSets[u]
        known == u \in DOMAIN graph.sessions
    IN /\ set => known
       /\ known => IF set THEN graph.sessions[u] = [perms |-> chain.session[u],
                                                     revoked |-> chain.session[u] = {}]
                   ELSE /\ graph.sessions[u].perms \subseteq chain.session[u]
                        /\ graph.sessions[u].perms # {} /\ ~graph.sessions[u].revoked

(* A compounding that is shown to go on goes on.                           *)
Goes(a) == a.enabled /\ ~a.paused
CompoundingIsMirrored ==
  \A u \in DOMAIN graph.auto : Goes(graph.auto[u]) <=> Goes(chain.auto[u])

MirrorsTheThrone ==
  since # <<>> =>
    /\ ReignsAreMirrored /\ UsersAreMirrored /\ RowsReconcile /\ RecipientsAreMirrored
    /\ AllocationsAreMirrored /\ SessionsAreMirrored /\ CompoundingIsMirrored
=============================================================================
