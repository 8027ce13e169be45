------------------------------ MODULE AgentLoop ------------------------------
(***************************************************************************)
(* runLiveAgent: read the chain, plan, act, sleep.                         *)
(*                                                                         *)
(* What there is to do is a set of duties; a snapshot is that set when it  *)
(* was read, a plan is made of it by the policy or by strategies, and an   *)
(* action that is mined does its duties.  Failures are answered by a       *)
(* cooldown in which actions are only simulated.  Time is what is left of  *)
(* each deadline, or what went by up to the limit it is compared with.     *)
(***************************************************************************)
EXTENDS Integers, Sequences, FiniteSets, SequencesExt

CONSTANTS
  Setups,         \* configurations
  Situations,     \* sets of duties there are at first
  TICK,           \* the longest sleep
  COOLDOWN,       \* between two takeovers
  BASEREST, MAXREST, FACTOR,        \* of the cooldown after failures
  MAXTIMEOUTS, MAXERRORS,           \* failures in a row that start it
  RESETAFTER,     \* a failure this long ago is forgotten
  MAXPLANNED,     \* actions a plan may have
  MaxMishaps      \* failures and changes by others, together

ASSUME AgentLoopAssumption ==
  /\ TICK \in Nat \ {0} /\ COOLDOWN \in Nat /\ RESETAFTER \in Nat \ {0}
  /\ BASEREST \in Nat \ {0} /\ MAXREST >= BASEREST /\ FACTOR \in Nat \ {0}
  /\ MAXTIMEOUTS \in Nat \ {0} /\ MAXERRORS \in Nat \ {0}
  /\ MAXPLANNED \in Nat \ {0} /\ MaxMishaps \in Nat
  /\ MAXREST \in Nat /\ \A s \in Setups : s.perTick \in Nat

VARIABLES
  setup,
  due,          \* what there is to do
  allowed,      \* the Furnace may take the CLAIM of the caller
  session,      \* the delegation is alive
  phase,        \* "read", "session", "decide", "approve", "run", "acting", "asleep", "ended"
  snap, perms,  \* duties and permissions when they were read
  plan, next,   \* and the action that is next
  sent,         \* the action is broadcast, not just simulated
  late,         \* broadcast, and not mined when its wait was over
  backoff,      \* [active, left, size, errors, timeouts, ago]
  takenAgo,     \* since the last takeover, up to COOLDOWN
  pending, timer, stopped,
  news, unread, \* an event on its way; one, or an own write, since the last read
  spree, quiet, rest,   \* failures since a success; since the last; what must go by
  mishaps

loopVars == <<setup, due, allowed, session, phase, snap, perms, plan, next, sent, late, backoff,
              takenAgo, pending, timer, stopped, news, unread, spree, quiet, rest, mishaps>>

-----------------------------------------------------------------------------
(* Actions: the duties each does and the permission it takes from another. *)
(* callerKing and callerRefund are the caller's own buckets, king that of  *)
(* a user it acts for.                                                     *)
Does == [enterWithEth |-> {"ve"}, claimShareholderEth |-> {"royalties"},
         claimShareholderForUser |-> {"royalties"}, claimAllFor |-> {"royalties", "king"},
         withdrawKingBalanceForUser |-> {"king"}, withdrawRefundBalance |-> {"callerRefund"},
         withdrawKingBalance |-> {"callerKing"}, takeover |-> {"throne"},
         setKingAutoLockConfig |-> {"kingConfig"}, setAutoCompoundConfig |-> {"royaltiesConfig"},
         setLpAutoCompoundConfig |-> {"lpConfig"},
         ensureAllowance |-> {}, enterWithClaim |-> {"claim"}]
Permission == [enterWithEth |-> "FURNACE_ENTER_ETH", claimShareholderForUser |-> "CLAIM_SHAREHOLDER",
               claimAllFor |-> "CLAIM_ALL", withdrawKingBalanceForUser |-> "WITHDRAW_KING_BUCKET",
               takeover |-> "TAKEOVER", setKingAutoLockConfig |-> "KING_AUTO_LOCK",
               setAutoCompoundConfig |-> "SHAREHOLDER_AUTOCOMPOUND",
               setLpAutoCompoundConfig |-> "LP_AUTOCOMPOUND"]
Duties == UNION {Does[k] : k \in DOMAIN Does}
May(k, ps) == setup.delegated /\ k \in DOMAIN Permission => Permission[k] \in ps
Plan(k, when) == IF when THEN <<k>> ELSE <<>>

-----------------------------------------------------------------------------
(* buildActionPlan.  Another's configuration is put right first, and then  *)
(* nothing else is planned; "paused" is a compounding the keeper stopped,  *)
(* which is put back if no configuration is wanted for it.                 *)
safeMaintenance ==
  IF ~setup.delegated \/ setup.wants = {} THEN <<>>
  ELSE Plan("setKingAutoLockConfig",
            "kingConfig" \in snap /\ "king" \in setup.wants /\ May("setKingAutoLockConfig", perms))
       \o Plan("setAutoCompoundConfig", "royaltiesConfig" \in snap /\ May("setAutoCompoundConfig", perms))
       \o Plan("setLpAutoCompoundConfig", "lpConfig" \in snap /\ May("setLpAutoCompoundConfig", perms))

furnaceEntry == Plan("enterWithEth", "ve" \in snap /\ May("enterWithEth", perms))

ClaimsAll == setup.delegated /\ "CLAIM_ALL" \in perms
collectRoyalties ==
  IF "royalties" \notin snap THEN <<>>
  ELSE IF ~setup.delegated THEN <<"claimShareholderEth">>
  ELSE IF ClaimsAll THEN <<"claimAllFor">>
  ELSE Plan("claimShareholderForUser", May("claimShareholderForUser", perms))

(* A bucket of the user; with claimAllFor planned for the royalties, which *)
(* empties it, still by its own permission.                                *)
ForgottenBucketMutant == Plan("claimAllFor", ClaimsAll /\ "king" \in snap /\ "royalties" \notin snap)
withdrawFor ==
  IF ~setup.delegated \/ "king" \notin snap THEN <<>>
  ELSE IF ClaimsAll /\ "royalties" \notin snap THEN <<"claimAllFor">>
  ELSE Plan("withdrawKingBalanceForUser", May("withdrawKingBalanceForUser", perms))
withdrawOwn == Plan("withdrawRefundBalance", "callerRefund" \in snap)
               \o Plan("withdrawKingBalance", "callerKing" \in snap)

HastyMutant == Plan("takeover", "throne" \in snap /\ May("takeover", perms))
takeovers == Plan("takeover", takenAgo >= COOLDOWN /\ "throne" \in snap /\ May("takeover", perms))

buildActionPlan ==
  IF safeMaintenance # <<>> THEN safeMaintenance
  ELSE IF furnaceEntry # <<>> THEN furnaceEntry
  ELSE collectRoyalties \o withdrawFor \o withdrawOwn \o takeovers

(* runStrategies: the strategy of the user comes before the policy; one    *)
(* that throws proposes nothing, and with stopOnActions one that proposed  *)
(* something is the last.  The policy is a strategy like another.          *)
createPolicyStrategy == buildActionPlan
capPlannedActions(p) == SubSeq(p, 1, IF Len(p) < MAXPLANNED THEN Len(p) ELSE MAXPLANNED)
propose == Plan("enterWithClaim", "claim" \in snap)
Stops(stopOnActions) == (stopOnActions /\ propose # <<>>) \/ Len(propose) >= MAXPLANNED
runStrategies(throws, stopOnActions) ==
  IF throws THEN createPolicyStrategy
  ELSE propose \o (IF Stops(stopOnActions) THEN <<>> ELSE createPolicyStrategy)

(* expandPlanWithAutoApprovals: an allowance that is wanting, or that the  *)
(* node does not tell, is asked for before the action that spends it.  Of  *)
(* the actions here only a strategy's does, and it comes first.            *)
asksAllowance(unread_) == Plan("ensureAllowance", unread_ \/ ~allowed)
expandPlanWithAutoApprovals(unread_) ==
  (IF plan # <<>> /\ plan[1] = "enterWithClaim" THEN asksAllowance(unread_) ELSE <<>>) \o plan

-----------------------------------------------------------------------------
(* BackoffController.                                                      *)
Never == -1
NoTrouble == [active |-> FALSE, left |-> 0, size |-> 0, errors |-> 0, timeouts |-> 0, ago |-> Never]
isActive == backoff.active /\ backoff.left > 0
LongAgo(b) == b.ago # Never /\ b.ago >= RESETAFTER

maybeClear ==
  IF backoff.active /\ backoff.left = 0 THEN [backoff EXCEPT !.active = FALSE]
  ELSE IF LongAgo(backoff)
    THEN [backoff EXCEPT !.errors = 0, !.timeouts = 0, !.ago = Never, !.size = 0]
    ELSE backoff

Least(a, b) == IF a < b THEN a ELSE b
Grown(size) == IF size = 0 THEN BASEREST ELSE Least(size * FACTOR, MAXREST)

onSuccess == [backoff EXCEPT !.errors = 0, !.timeouts = 0, !.ago = Never]
Forgotten(b) == IF LongAgo(b) THEN [b EXCEPT !.errors = 0, !.timeouts = 0, !.size = 0] ELSE b
Counted(as) ==
  LET b == Forgotten(backoff)
  IN [b EXCEPT !.errors = @ + 1, !.timeouts = IF as = "timeout" THEN @ + 1 ELSE @, !.ago = 0]
LenientMutant(b) == b.timeouts > MAXTIMEOUTS \/ b.errors >= MAXERRORS
Trips(b) == b.timeouts >= MAXTIMEOUTS \/ b.errors >= MAXERRORS
onFailure(as) ==
  LET b == Counted(as)
  IN IF Trips(b) THEN [b EXCEPT !.active = TRUE, !.size = Grown(b.size), !.left = Grown(b.size)] ELSE b

-----------------------------------------------------------------------------
LoopInit ==
  /\ setup \in Setups /\ due \in Situations
  /\ setup.delegated \/ due \cap {"king", "kingConfig", "royaltiesConfig", "lpConfig"} = {}
  /\ setup.strategy \/ "claim" \notin due
  /\ takenAgo = COOLDOWN
  /\ allowed = FALSE /\ session = TRUE
  /\ IF setup.driver # "plan" THEN phase = "read" /\ snap = {} /\ perms = {} /\ plan = <<>>
     ELSE phase = "approve" /\ snap = due /\ perms = setup.perms /\ plan = capPlannedActions(buildActionPlan)
  /\ next = 1 /\ sent = FALSE /\ late = {} /\ backoff = NoTrouble
  /\ pending = FALSE /\ timer = 0 /\ stopped = FALSE
  /\ news = FALSE /\ unread = FALSE /\ spree = 0 /\ quiet = 0 /\ rest = 0
  /\ mishaps = 0

(* Signal: one that is not awaited is kept for the next wait.              *)
LostSignalMutant == IF phase = "asleep" THEN phase' = "read" /\ UNCHANGED pending
                    ELSE UNCHANGED <<phase, pending>>
Trigger == IF phase = "asleep" THEN phase' = "read" /\ UNCHANGED pending
           ELSE pending' = TRUE /\ UNCHANGED phase

Mishap == mishaps < MaxMishaps /\ mishaps' = mishaps + 1
World == <<due, allowed, session, late, news>>
Ghosts == <<spree, quiet, rest>>

(* The snapshot; a node that fails ends the agent.                         *)
Read ==
  /\ phase = "read" /\ ~stopped
  /\ \/ /\ snap' = due /\ perms' = {} /\ unread' = FALSE
        /\ phase' = (IF setup.delegated THEN "session" ELSE "decide") /\ UNCHANGED mishaps
     \/ Mishap /\ phase' = "ended" /\ UNCHANGED <<snap, perms, unread>>
  /\ UNCHANGED <<setup, World, plan, next, sent, backoff, takenAgo, pending, timer, stopped, Ghosts>>

(* The session of the user, read after the snapshot.                       *)
ReadSession ==
  /\ phase = "session"
  /\ \/ perms' = (IF session THEN setup.perms ELSE {}) /\ phase' = "decide" /\ UNCHANGED mishaps
     \/ Mishap /\ phase' = "ended" /\ UNCHANGED perms
  /\ UNCHANGED <<setup, World, snap, plan, next, sent, backoff, takenAgo, pending, timer, stopped,
                 unread, Ghosts>>

Decide ==
  /\ phase = "decide" /\ phase' = "approve"
  /\ \/ /\ ~setup.strategy /\ plan' = capPlannedActions(buildActionPlan) /\ UNCHANGED mishaps
     \/ /\ setup.strategy /\ UNCHANGED mishaps
        /\ plan' = capPlannedActions(runStrategies(FALSE, setup.stopOnActions))
     \/ setup.strategy /\ Mishap /\ plan' = capPlannedActions(runStrategies(TRUE, FALSE))
  /\ UNCHANGED <<setup, World, snap, perms, next, sent, backoff, takenAgo, pending, timer, stopped,
                 unread, Ghosts>>

(* Approvals, and the cooldown is over if its time has gone by.            *)
Approve ==
  /\ phase = "approve" /\ phase' = "run" /\ next' = 1 /\ backoff' = maybeClear
  /\ IF ~setup.approve THEN UNCHANGED <<plan, mishaps>>
     ELSE \/ plan' = capPlannedActions(expandPlanWithAutoApprovals(FALSE)) /\ UNCHANGED mishaps
          \/ Mishap /\ plan' = capPlannedActions(expandPlanWithAutoApprovals(TRUE))
  /\ UNCHANGED <<setup, World, snap, perms, sent, takenAgo, pending, timer, stopped, unread, Ghosts>>

(* executeAgentPlan runs all of a plan, without a backoff.                 *)
ToRun == IF setup.driver = "plan" THEN Len(plan) ELSE Least(Len(plan), setup.perTick)
BeginAction ==
  /\ phase = "run" /\ next <= ToRun /\ phase' = "acting" /\ sent' = ~isActive
  /\ UNCHANGED <<setup, World, snap, perms, plan, next, backoff, takenAgo, pending, timer, stopped,
                 unread, Ghosts, mishaps>>

(* What the chain makes of an action when it is mined.                     *)
Kind == plan[next]
Mayed(k) == setup.delegated /\ k \in DOMAIN Permission => session /\ Permission[k] \in setup.perms
Accepts(k) ==
  /\ Mayed(k)
  /\ k = "enterWithClaim" => allowed
  /\ k # "ensureAllowance" => Does[k] \cap due # {}
Effect(k) ==
  /\ due' = due \ Does[k]
  /\ allowed' = (k = "ensureAllowance" \/ (allowed /\ k # "enterWithClaim"))

(* The result of a simulation counts for nothing.                          *)
Simulated ==
  /\ phase = "acting" /\ phase' = "run" /\ next' = next + 1 /\ sent' = FALSE
  /\ ~sent \/ (Kind = "ensureAllowance" /\ allowed)
  /\ UNCHANGED <<setup, World, snap, perms, plan, backoff, takenAgo, pending, timer, stopped,
                 unread, Ghosts, mishaps>>

Succeeds ==
  /\ phase = "acting" /\ sent /\ Accepts(Kind) /\ ~(Kind = "ensureAllowance" /\ allowed)
  /\ Effect(Kind) /\ phase' = "run" /\ next' = next + 1
  /\ backoff' = onSuccess /\ pending' = TRUE /\ unread' = TRUE
  /\ takenAgo' = (IF Kind = "takeover" THEN 0 ELSE takenAgo)
  /\ spree' = 0 /\ quiet' = 0 /\ sent' = FALSE /\ UNCHANGED rest
  /\ UNCHANGED <<setup, session, late, news, snap, perms, plan, timer, stopped, mishaps>>

(* An action that starts a cooldown is the last of its tick, and the first *)
(* that fails is the last of a plan that is just executed.                 *)
RunOnMutant(as) == Trips(Counted(as))
EndsHere(as) == setup.driver = "plan" \/ Trips(Counted(as))
Failed(as) ==
  /\ phase = "acting" /\ sent /\ phase' = "run" /\ sent' = FALSE
  /\ backoff' = (IF setup.driver = "plan" THEN backoff ELSE onFailure(as))
  /\ next' = (IF EndsHere(as) THEN ToRun + 1 ELSE next + 1)
  /\ spree' = (IF quiet >= RESETAFTER THEN 1 ELSE spree + 1) /\ quiet' = 0
  /\ rest' = (IF (as = "timeout" /\ MAXTIMEOUTS = 1) \/ spree' >= MAXERRORS THEN BASEREST ELSE rest)
  /\ UNCHANGED <<setup, due, allowed, session, news, snap, perms, plan, takenAgo,
                 pending, timer, stopped, unread>>
Refused == phase = "acting" /\ ~Accepts(Kind) /\ Failed("error") /\ UNCHANGED <<late, mishaps>>
ActionFails == Mishap /\ Failed("error") /\ UNCHANGED late

(* Only the time-out of a TxManager is one to the loop; without a manager, *)
(* a wait that ends is an error like any other.                            *)
WaitEnds ==
  /\ Mishap /\ \E as \in {"timeout", "error"} : Failed(as)
  /\ late' = late \cup {Kind}

(* The session is asked for outside the executor's try.                    *)
Thrown ==
  /\ phase = "acting" /\ setup.delegated /\ Mishap /\ phase' = "ended"
  /\ UNCHANGED <<setup, World, snap, perms, plan, next, sent, backoff, takenAgo, pending, timer,
                 stopped, unread, Ghosts>>

(* Nothing is left to run: a signal that came is used up, or a sleep; an   *)
(* agent that runs once ends.                                              *)
wait == IF pending THEN phase' = "read" /\ UNCHANGED timer ELSE phase' = "asleep" /\ timer' = TICK
Rest ==
  /\ phase = "run" /\ next > ToRun /\ plan' = <<>> /\ next' = 1 /\ snap' = {} /\ perms' = {}
  /\ pending' = FALSE
  /\ IF setup.driver = "loop" THEN wait ELSE phase' = "ended" /\ UNCHANGED timer
  /\ UNCHANGED <<setup, World, sent, backoff, takenAgo, stopped, unread, Ghosts, mishaps>>
Awake ==
  /\ phase = "asleep" /\ timer = 0 /\ phase' = "read"
  /\ UNCHANGED <<setup, World, snap, perms, plan, next, sent, backoff, takenAgo, pending, timer,
                 stopped, unread, Ghosts, mishaps>>
Leave ==
  /\ phase = "read" /\ stopped /\ phase' = "ended"
  /\ UNCHANGED <<setup, World, snap, perms, plan, next, sent, backoff, takenAgo, pending, timer,
                 stopped, unread, Ghosts, mishaps>>

(* SIGINT.                                                                 *)
Stop ==
  /\ ~stopped /\ stopped' = TRUE /\ phase # "ended" /\ Mishap /\ Trigger
  /\ UNCHANGED <<setup, World, snap, perms, plan, next, sent, backoff, takenAgo, timer, unread,
                 Ghosts>>

(* An event of the stream, once the cursor has it.                         *)
OnEvent ==
  /\ news /\ phase # "ended" /\ news' = FALSE /\ unread' = TRUE /\ Trigger
  /\ UNCHANGED <<setup, due, allowed, session, late, snap, perms, plan, next, sent, backoff,
                 takenAgo, timer, stopped, Ghosts, mishaps>>

-----------------------------------------------------------------------------
(* Others: a duty arises, with an event, or the session ends; and a write  *)
(* the agent gave up waiting for is mined, or not.                         *)
Others ==
  /\ phase # "ended" /\ Mishap
  /\ \/ /\ \E d \in {"royalties", "throne"} \ due : due' = due \cup {d}
        /\ news' = TRUE /\ UNCHANGED session
     \/ setup.delegated /\ session /\ session' = FALSE /\ UNCHANGED <<due, news>>
  /\ UNCHANGED <<setup, allowed, late, phase, snap, perms, plan, next, sent, backoff, takenAgo, pending,
                 timer, stopped, unread, Ghosts>>
MinedLate ==
  /\ phase # "ended"
  /\ \E k \in late :
       /\ late' = late \ {k}
       /\ IF Accepts(k) THEN Effect(k) ELSE UNCHANGED <<due, allowed>>
  /\ UNCHANGED <<setup, session, news, phase, snap, perms, plan, next, sent, backoff, takenAgo,
                 pending, timer, stopped, unread, Ghosts, mishaps>>

Less(n) == IF n > 0 THEN n - 1 ELSE 0
Time ==
  /\ phase # "ended"
  /\ backoff' = [backoff EXCEPT !.left = Less(@),
                                !.ago = IF @ = Never THEN Never ELSE Least(@ + 1, RESETAFTER)]
  /\ takenAgo' = Least(takenAgo + 1, COOLDOWN) /\ timer' = Less(timer)
  /\ quiet' = (IF spree = 0 THEN 0 ELSE Least(quiet + 1, RESETAFTER)) /\ rest' = Less(rest)
  /\ UNCHANGED <<setup, World, phase, snap, perms, plan, next, sent, pending, stopped, unread, spree,
                 mishaps>>

LoopStep == Read \/ ReadSession \/ Decide \/ Approve \/ BeginAction \/ Simulated \/ Succeeds \/ Refused
            \/ Rest \/ Awake \/ Leave
LoopNext == LoopStep \/ ActionFails \/ WaitEnds \/ Thrown \/ Stop \/ OnEvent \/ Others \/ MinedLate \/ Time

(* The loop runs on, the stream delivers, and time goes by.                *)
LoopSpec == LoopInit /\ [][LoopNext]_loopVars
            /\ WF_loopVars(LoopStep) /\ WF_loopVars(OnEvent) /\ WF_loopVars(Time)

-----------------------------------------------------------------------------
(* type invariant *)
LoopTypeOK ==
  /\ setup \in Setups /\ due \subseteq Duties /\ snap \subseteq Duties /\ late \subseteq DOMAIN Does
  /\ Len(plan) <= MAXPLANNED /\ next \in 1..(Len(plan) + 1)
  /\ backoff.size \in 0..MAXREST /\ backoff.left \in 0..MAXREST
  /\ takenAgo \in 0..COOLDOWN /\ timer \in 0..TICK

(* Whatever order results, signals and time come in: nothing is broadcast  *)
(* for BASEREST after a write that a TxManager gave up waiting for, where  *)
(* one such is enough, or after MAXERRORS failures in a row; two takeovers *)
(* are COOLDOWN apart, as far as the agent saw them mined; the loop does   *)
(* not sleep over an event, or over a write of its own, that it has not    *)
(* looked at; and nothing of a plan is executed past the first action that *)
(* failed.                                                                 *)
LoopIsPatient ==
  /\ [][phase = "run" /\ phase' = "acting" /\ sent' => rest = 0]_loopVars
  /\ [][phase = "run" /\ phase' = "acting" /\ sent' /\ Kind = "takeover" => takenAgo >= COOLDOWN]_loopVars
  /\ [](phase = "asleep" => ~unread)
  /\ [][phase = "run" /\ phase' = "acting" /\ setup.driver = "plan" => spree = 0]_loopVars

(* In the end nothing is left that the agent may do and the chain would    *)
(* accept, whatever fails or changes on the way, as long as only so much   *)
(* does; and one that is told to stop ends.                                *)
ActsAs(k) == IF setup.delegated THEN k # "claimShareholderEth" ELSE k \notin {"claimAllFor", "claimShareholderForUser"}
Wanted(d) ==
  CASE d = "claim" -> setup.approve
    [] d = "kingConfig" -> "king" \in setup.wants
    [] d \in {"royaltiesConfig", "lpConfig"} -> setup.wants # {}
    [] OTHER -> TRUE
InReach(d) == d \in due /\ Wanted(d) /\ \E k \in DOMAIN Does : d \in Does[k] /\ Mayed(k) /\ ActsAs(k)
DutiesGetDone ==
  /\ <>[](phase = "ended" \/ \A d \in Duties : ~InReach(d))
  /\ stopped ~> phase = "ended"
=============================================================================
