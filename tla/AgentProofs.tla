----------------------------- MODULE AgentProofs -----------------------------
(***************************************************************************)
(* The agent SDK, for every instance.                                      *)
(*                                                                         *)
(* AgentExecutor: reports are true, for any actions, manifest, changes by  *)
(* others and nodes that fail.  An action sends at most one transaction,   *)
(* the cancellation of an offer two, of which only one can take effect,    *)
(* because the first that does closes the offer and nothing that was       *)
(* closed opens again.  And what blocks an action its contract refuses:    *)
(* question by question, what is asked is compared with what is required.  *)
(*                                                                         *)
(* AgentTx: a write that is never resubmitted is mined at most once, for   *)
(* any failures and whatever the nodes say: it is sent again only if it    *)
(* was refused.                                                            *)
(*                                                                         *)
(* AgentEvents: no event is handled twice and no stream starts after an    *)
(* unhandled one, for any watchers, events, crashes and failing reads,     *)
(* because no checkpoint is further from an unhandled event than the two   *)
(* rewinds of a start.                                                     *)
(*                                                                         *)
(* AgentLoop: the loop is patient, for any setups, limits, failures and    *)
(* order of signals.  Its cooldown is no shorter than what must go by,     *)
(* because its counters miss no failure that is recent enough to count.    *)
(***************************************************************************)
EXTENDS AgentTx, AgentExecutor, AgentEvents, AgentLoop, FiniteSetTheorems, TLAPS

Places == {"policy", "session", "entry", "ask", "simulate", "write", "wait", "done"}
Txs == [route : {"private", "public"}, state : {"pending", "mined", "reverted"}]
Twice == kind = "cancelBonusTargetEscrow"
HasMined == \E i \in DOMAIN txs : txs[i].state = "mined"

(* Where the action is bounds what it has sent, and what it has sent was   *)
(* allowed.                                                                *)
RunInv ==
  /\ at \in Places /\ attempt \in {1, 2} /\ txs \in Seq(Txs)
  /\ Running <=> at # "done"
  /\ attempt = 2 => Twice
  /\ at \notin {"policy", "done"} =>
       broken \cap SecurityRules = {} /\ (execute => ~RouteBlocked)
  /\ at \in {"write", "wait"} => execute
  /\ Len(txs) <= attempt
  /\ at \notin {"wait", "done"} => Len(txs) < attempt
  /\ at \in {"policy", "session", "entry", "ask"} => txs = <<>>
  /\ at = "wait" => txs # <<>>
  /\ txs # <<>> => execute /\ broken \cap SecurityRules = {}
  /\ \A i \in DOMAIN txs : mode = "only" => txs[i].route = "private"
(* What took effect was mined; a cancellation that was closes the offer.   *)
EffectInv ==
  /\ effects \in {0, 1}
  /\ effects = 1 <=> HasMined
  /\ Twice => "active" \in DOMAIN fact
  /\ Twice /\ effects = 1 => fact["active"] # "yes"
ReportInv ==
  /\ report.as = "sent" => HasMined
  /\ report.as = "reverted" /\ ~Twice => txs # <<>> /\ txs[1].state = "reverted"
  /\ report.as \in {"sent", "reverted", "timeout"} => report.hash
  /\ report.hash => txs # <<>>
  /\ report.as \in SaysNothingSent => txs = <<>>
ReportsInv == RunInv /\ EffectInv /\ ReportInv

(* The offer a cancellation is about is asked for and required, and is a   *)
(* fact of its own.                                                        *)
LEMMA CancelNeedsActive ==
  ASSUME Twice
  PROVE  /\ "active" \in Facts(kind)
         /\ Accepted /\ "active" \in DOMAIN fact => fact["active"] = "yes"
<1>1. Needs("active") \in Requires(kind)
  BY DEF Twice, Requires, OfferRequires
<1>2. "active" \notin DOMAIN Made
  BY DEF Made
<1>3. Needs("active").f = "active" /\ Needs("active").ok = {"yes"}
  BY DEF Needs
<1>4. "active" \in Facts(kind)
  BY <1>1, <1>2, <1>3, Zenon DEF Facts
<1>5. Answer("active") = fact["active"]
  BY <1>2, Zenon DEF Answer
<1>6. Accepted => Answer("active") \in {"yes"}
  BY <1>1, <1>3, Zenon DEF Accepted
<1> QED
  BY <1>4, <1>5, <1>6, Zenon

LEMMA InitReports == ExecInit => ReportsInv
<1> SUFFICES ASSUME ExecInit PROVE ReportsInv
  OBVIOUS
<1>1. RunInv
  BY DEF ExecInit, RunInv, Places, Running, Txs
<1>2. Twice => "active" \in DOMAIN fact
  <2>1. fact \in [Facts(kind) -> {"yes", "at", "no"}]
    BY Zenon DEF ExecInit
  <2> QED
    BY <2>1, CancelNeedsActive
<1>3. txs = <<>> /\ effects = 0 /\ report = NoReport /\ report.as = "none" /\ report.hash = FALSE
  BY DEF ExecInit, NoReport
<1>4. ~HasMined
  BY <1>3 DEF HasMined
<1>5. EffectInv
  BY <1>2, <1>3, <1>4 DEF EffectInv
<1>6. ReportInv
  BY <1>3, <1>4 DEF ReportInv, SaysNothingSent
<1> QED
  BY <1>1, <1>5, <1>6 DEF ReportsInv

(* What has been sent, counted.                                            *)
LEMMA SentCount ==
  ASSUME NEW s \in Seq(Txs)
  PROVE  /\ Len(s) \in Nat /\ DOMAIN s = 1..Len(s)
         /\ s # <<>> <=> Len(s) >= 1
         /\ s # <<>> => Len(s) \in DOMAIN s
OBVIOUS

(* The transactions of an action after one of them is settled.             *)
LEMMA SettledOne ==
  ASSUME NEW r \in Txs, NEW v \in {"mined", "reverted"}, NEW u, u = [r EXCEPT !.state = v]
  PROVE  u \in Txs /\ u.state = v /\ u.route = r.route
<1> DEFINE R == {"private", "public"}
           S == {"pending", "mined", "reverted"}
<1>1. r \in [route : R, state : S] /\ v \in S
  BY DEF Txs
<1>2. Txs = [route : R, state : S]
  BY DEF Txs
<1> HIDE DEF R, S
<1> QED
  BY <1>1, <1>2

LEMMA Settled ==
  ASSUME NEW s \in Seq(Txs), NEW i \in DOMAIN s, NEW v \in {"mined", "reverted"},
         NEW t, t = [s EXCEPT ![i].state = v]
  PROVE  /\ t \in Seq(Txs) /\ Len(t) = Len(s) /\ DOMAIN t = DOMAIN s
         /\ t[i].state = v
         /\ \A j \in DOMAIN s : t[j].route = s[j].route
         /\ \A j \in DOMAIN s : j # i => t[j] = s[j]
<1> DEFINE u == [s[i] EXCEPT !.state = v]
<1>1. s[i] \in Txs
  OBVIOUS
<1>2. u \in Txs /\ u.state = v /\ u.route = s[i].route
  BY <1>1, SettledOne
<1>3. t = [s EXCEPT ![i] = u]
  OBVIOUS
<1> HIDE DEF u
<1> QED
  BY <1>2, <1>3

(* The part of the invariant that a step of the executor itself keeps, when *)
(* all it does is go on or report: no transaction and no effect.           *)
LEMMA EffectsAreKept ==
  ASSUME EffectInv, UNCHANGED <<kind, txs, effects>>,
         "active" \in DOMAIN fact =>
           "active" \in DOMAIN fact' /\ fact'["active"] = fact["active"]
  PROVE  EffectInv' /\ (HasMined' <=> HasMined)
BY DEF EffectInv, HasMined, Twice

(* A question is answered, or fails: the action goes on, is reported       *)
(* without a hash, or is called a second time.                             *)
LEMMA Asked ==
  ASSUME AskNext
  PROVE  /\ Running /\ at = "ask"
         /\ UNCHANGED <<kind, asLock, execute, mode, broken, txs, effects>>
         /\ \/ UNCHANGED <<at, report, attempt>>
            \/ /\ at' = "done" /\ UNCHANGED attempt
               /\ \E a \in {"skipped", "blocked", "error"} : \E w :
                    report' = [as |-> a, why |-> w, hash |-> FALSE]
            \/ Twice /\ attempt = 1 /\ at' = "simulate" /\ attempt' = 2 /\ UNCHANGED report
         /\ "active" \in DOMAIN fact =>
              "active" \in DOMAIN fact' /\ fact'["active"] = fact["active"]
<1>1. Running /\ at = "ask" /\ UNCHANGED <<kind, asLock, execute, mode, broken, txs, effects>>
  BY Zenon DEF AskNext, what
<1>2. fact' = fact \/ fact' = [fact EXCEPT !["held"] = "yes"]
  BY Zenon DEF AskNext, what
<1>3. \/ Proceed \/ AskAgain
      \/ Report("skipped", "", FALSE) /\ UNCHANGED <<step, attempt>>
      \/ Report("blocked", Question.f, FALSE) /\ UNCHANGED <<step, attempt>>
      \/ Catch("error", FALSE)
  BY Zenon DEF AskNext, Answered, Unanswered
<1>4. \/ UNCHANGED <<at, report, attempt>>
      \/ /\ at' = "done" /\ UNCHANGED attempt
         /\ \E a \in {"skipped", "blocked", "error"} : \E w :
              report' = [as |-> a, why |-> w, hash |-> FALSE]
      \/ Twice /\ attempt = 1 /\ at' = "simulate" /\ attempt' = 2 /\ UNCHANGED report
  BY <1>3, Zenon DEF Proceed, AskAgain, Report, Catch, Twice
<1> QED
  BY <1>1, <1>2, <1>4

(* What fails is reported with its hash, or called a second time.          *)
LEMMA Caught ==
  ASSUME NEW why, NEW hash, Catch(why, hash)
  PROVE  \/ at' = "done" /\ report' = [as |-> why, why |-> "", hash |-> hash] /\ UNCHANGED attempt
         \/ Twice /\ attempt = 1 /\ at' = "simulate" /\ attempt' = 2 /\ UNCHANGED report
BY Zenon DEF Catch, Report, Twice

(* An error without a hash.                                                *)
Errs == \E w : report' = [as |-> "error", why |-> w, hash |-> FALSE]
LEMMA Erring ==
  ASSUME Catch("error", FALSE)
  PROVE  \/ at' = "done" /\ Errs /\ UNCHANGED attempt
         \/ Twice /\ attempt = 1 /\ at' = "simulate" /\ attempt' = 2 /\ UNCHANGED report
BY Zenon DEF Catch, Report, Twice, Errs

(* A report is one: nothing else has the shape of none.                    *)
LEMMA ReportIsOne ==
  ASSUME NEW as, NEW why, NEW hash, as # "none", report = [as |-> as, why |-> why, hash |-> hash]
  PROVE  ~Running /\ report.as = as /\ report.hash = hash
BY DEF Running, NoReport

(* The rules that apply depend on the action and its route alone.          *)
LEMMA RulesStay ==
  ASSUME UNCHANGED <<kind, asLock, mode>>
  PROVE  SecurityRules' = SecurityRules /\ RouteBlocked' = RouteBlocked
<1>1. Delegated' = Delegated
  BY Zenon DEF Delegated
<1>2. SecurityRules' = SecurityRules
  BY <1>1, Zenon DEF SecurityRules, ScopeRules, ValueRules, ApprovalRules, RecipientRules
<1>3. RouteBlocked' = RouteBlocked
  BY Zenon DEF RouteBlocked, isPrivateTxAllowed
<1> QED
  BY <1>2, <1>3

(* A step that neither sends nor settles keeps the invariant when it goes  *)
(* on, and when what it reports is so.                                     *)
LEMMA GoingOn ==
  ASSUME ReportsInv, Running,
         UNCHANGED <<kind, asLock, execute, mode, broken, txs, effects, report>>,
         "active" \in DOMAIN fact =>
           "active" \in DOMAIN fact' /\ fact'["active"] = fact["active"],
         RunInv'
  PROVE  ReportsInv'
<1>1. EffectInv' /\ (HasMined' <=> HasMined)
  BY EffectsAreKept DEF ReportsInv
<1>2. ReportInv'
  BY <1>1 DEF ReportsInv, ReportInv, Running, NoReport, Twice
<1> QED
  BY <1>1, <1>2 DEF ReportsInv

LEMMA Reporting ==
  ASSUME ReportsInv, Running,
         UNCHANGED <<kind, asLock, execute, mode, broken, attempt, txs, effects>>,
         "active" \in DOMAIN fact =>
           "active" \in DOMAIN fact' /\ fact'["active"] = fact["active"],
         at' = "done",
         NEW as, NEW why, NEW hash, as # "none",
         report' = [as |-> as, why |-> why, hash |-> hash],
         as = "sent" => HasMined,
         as = "reverted" /\ ~Twice => txs # <<>> /\ txs[1].state = "reverted",
         as \in {"sent", "reverted", "timeout"} => hash,
         hash => txs # <<>>,
         as \in SaysNothingSent => txs = <<>>
  PROVE  ReportsInv'
<1>1. EffectInv' /\ (HasMined' <=> HasMined)
  BY EffectsAreKept DEF ReportsInv
<1>2. ~Running' /\ report'.as = as /\ report'.hash = hash
  BY DEF Running, NoReport
<1>3. ReportInv'
  BY <1>1, <1>2 DEF ReportInv, Twice, SaysNothingSent
<1>4. RunInv'
  <2>1. SecurityRules' = SecurityRules
    BY RulesStay
  <2> QED
    BY <1>2, <2>1 DEF ReportsInv, RunInv, Places, Twice
<1> QED
  BY <1>1, <1>3, <1>4 DEF ReportsInv

(* An action that may be sent goes on, or is called a second time.         *)
LEMMA Advancing ==
  ASSUME ReportsInv, Running,
         UNCHANGED <<kind, asLock, execute, mode, broken, txs, effects, report>>,
         "active" \in DOMAIN fact =>
           "active" \in DOMAIN fact' /\ fact'["active"] = fact["active"],
         at' \in Places \ {"policy", "wait", "done"}, at' = "write" => execute,
         at' \in {"simulate", "write"} \/ txs = <<>>,
         broken \cap SecurityRules = {}, execute => ~RouteBlocked,
         attempt' \in {1, 2}, attempt' = 2 => Twice, Len(txs) < attempt'
  PROVE  ReportsInv'
<1>1. SecurityRules' = SecurityRules /\ RouteBlocked' = RouteBlocked
  BY RulesStay
<1>2. Running' /\ at' # "done" /\ at' # "wait"
  BY DEF Running
<1>3. RunInv'
  BY <1>1, <1>2 DEF ReportsInv, RunInv, Twice, Places
<1> QED
  BY <1>3, GoingOn

LEMMA PolicyStep == ReportsInv /\ CheckPolicy => ReportsInv'
<1> SUFFICES ASSUME ReportsInv, CheckPolicy PROVE ReportsInv'
  OBVIOUS
<1>1. /\ Running /\ at = "policy"
      /\ UNCHANGED <<kind, asLock, execute, mode, broken, fact, attempt, txs, effects>>
  BY Zenon DEF CheckPolicy, what
<1>2. Len(txs) < attempt /\ txs = <<>>
  BY <1>1 DEF ReportsInv, RunInv
<1>3. \/ at' = "done" /\ \E w : report' = [as |-> "blocked", why |-> w, hash |-> FALSE]
      \/ /\ at' \in {"session", "entry"} /\ UNCHANGED report
         /\ ~(execute /\ RouteBlocked) /\ broken \cap SecurityRules = {}
  BY Zenon DEF CheckPolicy, Report
<1>4. ASSUME NEW w, at' = "done", report' = [as |-> "blocked", why |-> w, hash |-> FALSE]
      PROVE  ReportsInv'
  BY <1>1, <1>2, <1>4, Reporting
<1>5. CASE /\ at' \in {"session", "entry"} /\ UNCHANGED report
           /\ ~(execute /\ RouteBlocked) /\ broken \cap SecurityRules = {}
  BY <1>1, <1>2, <1>5, Advancing DEF ReportsInv, RunInv, Places
<1> QED
  BY <1>3, <1>4, <1>5

LEMMA SessionStep == ReportsInv /\ CheckSession => ReportsInv'
<1> SUFFICES ASSUME ReportsInv, CheckSession PROVE ReportsInv'
  OBVIOUS
<1>1. /\ Running /\ at = "session"
      /\ UNCHANGED <<kind, asLock, execute, mode, broken, fact, attempt, txs, effects>>
  BY Zenon DEF CheckSession, what
<1>2. Len(txs) < attempt
  BY <1>1 DEF ReportsInv, RunInv
<1>3. \/ at' = "done" /\ \E a \in {"blocked", "thrown"} : \E w :
           report' = [as |-> a, why |-> w, hash |-> FALSE]
      \/ at' = "entry" /\ UNCHANGED report
  BY Zenon DEF CheckSession, Report
<1>4. ASSUME NEW a \in {"blocked", "thrown"}, NEW w,
             report' = [as |-> a, why |-> w, hash |-> FALSE], at' = "done"
      PROVE  ReportsInv'
  <2>1. txs = <<>>
    BY <1>1 DEF ReportsInv, RunInv
  <2> QED
    BY <1>1, <1>4, <2>1, Reporting
<1>5. CASE at' = "entry" /\ UNCHANGED report
  BY <1>1, <1>2, <1>5, Advancing DEF ReportsInv, RunInv, Places
<1> QED
  BY <1>3, <1>4, <1>5

LEMMA EntryStep == ReportsInv /\ EnterCase => ReportsInv'
<1> SUFFICES ASSUME ReportsInv, EnterCase PROVE ReportsInv'
  OBVIOUS
<1>1. /\ Running /\ at = "entry"
      /\ UNCHANGED <<kind, asLock, execute, mode, broken, fact, attempt, txs, effects>>
  BY Zenon DEF EnterCase, what
<1>2. Len(txs) < attempt
  BY <1>1 DEF ReportsInv, RunInv
<1>3. \/ at' = "done" /\ report' = [as |-> "blocked", why |-> "manifest", hash |-> FALSE]
      \/ at' = "ask" /\ UNCHANGED report
  BY Zenon DEF EnterCase, Report
<1>4. CASE at' = "done" /\ report' = [as |-> "blocked", why |-> "manifest", hash |-> FALSE]
  <2>1. txs = <<>>
    BY <1>1 DEF ReportsInv, RunInv
  <2> QED
    BY <1>1, <1>4, <2>1, Reporting
<1>5. CASE at' = "ask" /\ UNCHANGED report
  BY <1>1, <1>2, <1>5, Advancing DEF ReportsInv, RunInv, Places
<1> QED
  BY <1>3, <1>4, <1>5

LEMMA AskStep == ReportsInv /\ AskNext => ReportsInv'
<1> SUFFICES ASSUME ReportsInv, AskNext PROVE ReportsInv'
  OBVIOUS
<1>1. /\ Running /\ at = "ask"
      /\ UNCHANGED <<kind, asLock, execute, mode, broken, txs, effects>>
      /\ "active" \in DOMAIN fact =>
           "active" \in DOMAIN fact' /\ fact'["active"] = fact["active"]
  BY Asked
<1>2. /\ Len(txs) < attempt /\ attempt \in {1, 2} /\ (attempt = 2 => Twice)
      /\ broken \cap SecurityRules = {} /\ (execute => ~RouteBlocked)
      /\ txs = <<>>
  BY <1>1 DEF ReportsInv, RunInv
<1>3. CASE UNCHANGED <<at, report, attempt>>
  BY <1>1, <1>2, <1>3, Advancing DEF Places
<1>4. ASSUME NEW a \in {"skipped", "blocked", "error"}, NEW w, at' = "done", UNCHANGED attempt,
             report' = [as |-> a, why |-> w, hash |-> FALSE]
      PROVE  ReportsInv'
  BY <1>1, <1>2, <1>4, Reporting
<1>5. CASE Twice /\ attempt = 1 /\ at' = "simulate" /\ attempt' = 2 /\ UNCHANGED report
  BY <1>1, <1>2, <1>5, Advancing DEF Places
<1> QED
  BY <1>3, <1>4, <1>5, Asked

LEMMA AsksDoneStep == ReportsInv /\ AsksDone => ReportsInv'
<1> SUFFICES ASSUME ReportsInv, AsksDone PROVE ReportsInv'
  OBVIOUS
<1>1. /\ Running /\ at = "ask" /\ at' = "simulate"
      /\ UNCHANGED <<kind, asLock, execute, mode, broken, fact, attempt, txs, effects, report>>
  BY Zenon DEF AsksDone, what
<1> QED
  BY <1>1, Advancing DEF ReportsInv, RunInv, Places

LEMMA SimulateStep == ReportsInv /\ Simulate => ReportsInv'
<1> SUFFICES ASSUME ReportsInv, Simulate PROVE ReportsInv'
  OBVIOUS
<1>1. /\ Running /\ at = "simulate"
      /\ UNCHANGED <<kind, asLock, execute, mode, broken, fact, txs, effects>>
  BY Zenon DEF Simulate, what
<1>2. /\ Len(txs) < attempt /\ attempt \in {1, 2} /\ (attempt = 2 => Twice)
      /\ broken \cap SecurityRules = {} /\ (execute => ~RouteBlocked)
      /\ (txs # <<>> => execute)
  BY <1>1 DEF ReportsInv, RunInv
<1>3. \/ \E a \in {"error", "simulated"} :
           (a = "simulated" => ~execute) /\ at' = "done" /\ report' = [as |-> a, why |-> "", hash |-> FALSE] /\ UNCHANGED attempt
      \/ Twice /\ attempt = 1 /\ at' = "simulate" /\ attempt' = 2 /\ UNCHANGED report
      \/ execute /\ at' = "write" /\ UNCHANGED <<report, attempt>>
  BY Caught, Zenon DEF Simulate, Report
<1>4. ASSUME NEW a \in {"error", "simulated"}, a = "simulated" => ~execute, at' = "done", UNCHANGED attempt,
             report' = [as |-> a, why |-> "", hash |-> FALSE]
      PROVE  ReportsInv'
  BY <1>1, <1>2, <1>4, Reporting DEF SaysNothingSent
<1>5. CASE Twice /\ attempt = 1 /\ at' = "simulate" /\ attempt' = 2 /\ UNCHANGED report
  BY <1>1, <1>2, <1>5, Advancing DEF Places
<1>6. CASE execute /\ at' = "write" /\ UNCHANGED <<report, attempt>>
  BY <1>1, <1>2, <1>6, Advancing DEF Places
<1> QED
  BY <1>3, <1>4, <1>5, <1>6

(* What is sent is new and pending; the action waits for it, or the        *)
(* broadcast is an error.                                                  *)
LEMMA WriteReports == ReportsInv /\ Write => ReportsInv'
<1> SUFFICES ASSUME ReportsInv, Write PROVE ReportsInv'
  OBVIOUS
<1> DEFINE tx == [route |-> Route, state |-> "pending"]
<1>1. /\ Running /\ at = "write"
      /\ UNCHANGED <<kind, asLock, execute, mode, broken, fact, effects>>
  BY Zenon DEF Write, what
<1>0. \/ at' = "wait" /\ txs' = Append(txs, tx) /\ UNCHANGED <<report, attempt>>
      \/ Catch("error", FALSE) /\ txs' \in {txs, Append(txs, tx)}
  BY Zenon DEF Write
<1>2. /\ Len(txs) < attempt /\ attempt \in {1, 2} /\ (attempt = 2 => Twice)
      /\ execute /\ ~RouteBlocked /\ broken \cap SecurityRules = {}
      /\ txs \in Seq(Txs)
  BY <1>1 DEF ReportsInv, RunInv
<1>3. SecurityRules' = SecurityRules /\ RouteBlocked' = RouteBlocked
  BY <1>1, RulesStay
<1>4. Route \in {"private", "public"} /\ (mode = "only" => Route = "private")
  BY <1>2, Zenon DEF Route, RouteBlocked
<1>5. tx \in Txs /\ tx.state = "pending" /\ (mode = "only" => tx.route = "private")
  BY <1>4 DEF Txs
<1> HIDE DEF tx
<1>6. ASSUME txs' = Append(txs, tx)
      PROVE  /\ txs' \in Seq(Txs) /\ Len(txs') = Len(txs) + 1 /\ txs' # <<>>
             /\ txs'[Len(txs) + 1] = tx
             /\ \A i \in DOMAIN txs : txs'[i] = txs[i]
             /\ \A i \in DOMAIN txs' : i \in DOMAIN txs \/ txs'[i] = tx
  BY <1>2, <1>5, <1>6
<1>7. ASSUME txs' = Append(txs, tx)
      PROVE  /\ EffectInv' /\ txs' # <<>> /\ txs' \in Seq(Txs) /\ Len(txs') = Len(txs) + 1
             /\ \A i \in DOMAIN txs' : mode = "only" => txs'[i].route = "private"
  <2>1. HasMined' <=> HasMined
    BY <1>2, <1>5, <1>6, <1>7 DEF HasMined
  <2>2. EffectInv'
    BY <1>1, <2>1 DEF ReportsInv, EffectInv, Twice
  <2>3. \A i \in DOMAIN txs' : mode = "only" => txs'[i].route = "private"
    BY <1>5, <1>6, <1>7 DEF ReportsInv, RunInv
  <2> QED
    BY <1>6, <1>7, <2>2, <2>3
<1>8. CASE at' = "wait" /\ txs' = Append(txs, tx) /\ UNCHANGED <<report, attempt>>
  <2>1. Running' /\ report'.as = "none" /\ report'.hash = FALSE
    BY <1>1, <1>8 DEF Running, NoReport
  <2>2. RunInv'
    BY <1>1, <1>2, <1>3, <1>7, <1>8, <2>1 DEF RunInv, Twice, Places
  <2>3. ReportInv'
    BY <2>1 DEF ReportInv, SaysNothingSent
  <2> QED
    BY <1>7, <1>8, <2>2, <2>3 DEF ReportsInv
<1>9. CASE Catch("error", FALSE) /\ txs' = Append(txs, tx)
  <2>1. CASE at' = "done" /\ Errs /\ UNCHANGED attempt
    <3>0. report'.as = "error" /\ report'.hash = FALSE
      BY <2>1 DEF Errs
    <3>4. NoReport.as = "none"
      BY DEF NoReport
    <3>5. report' # NoReport
      BY <3>0, <3>4
    <3>1. ~Running' /\ report'.as = "error" /\ report'.hash = FALSE
      BY <3>0, <3>5 DEF Running
    <3>2. RunInv'
      BY <1>1, <1>2, <1>3, <1>7, <1>9, <2>1, <3>1 DEF RunInv, Places, Twice
    <3>3. ReportInv'
      BY <3>1 DEF ReportInv, SaysNothingSent
    <3> QED
      BY <1>7, <1>9, <3>2, <3>3 DEF ReportsInv
  <2>2. CASE Twice /\ attempt = 1 /\ at' = "simulate" /\ attempt' = 2 /\ UNCHANGED report
    <3>1. Running' /\ report'.as = "none" /\ report'.hash = FALSE
      BY <1>1, <2>2 DEF Running, NoReport
    <3>2. RunInv'
      BY <1>1, <1>2, <1>3, <1>7, <1>9, <2>2, <3>1 DEF RunInv, Twice, Places
    <3>3. ReportInv'
      BY <3>1 DEF ReportInv, SaysNothingSent
    <3> QED
      BY <1>7, <1>9, <3>2, <3>3 DEF ReportsInv
  <2> QED
    BY <1>9, <2>1, <2>2, Erring
<1>10. CASE Catch("error", FALSE) /\ txs' = txs
  <2>1. CASE at' = "done" /\ Errs /\ UNCHANGED attempt
    BY <1>1, <1>10, <2>1, Reporting DEF Errs, SaysNothingSent
  <2>2. CASE Twice /\ attempt = 1 /\ at' = "simulate" /\ attempt' = 2 /\ UNCHANGED report
    BY <1>1, <1>2, <1>10, <2>2, Advancing DEF Places
  <2> QED
    BY <1>10, <2>1, <2>2, Erring
<1> QED
  BY <1>0, <1>8, <1>9, <1>10

(* The last transaction is settled, or is not waited for any longer.       *)
LEMMA WaitStep ==
  ASSUME ReportsInv, Running, at = "wait",
         UNCHANGED <<kind, asLock, execute, mode, broken, fact, txs, effects>>,
         NEW why \in {"reverted", "timeout", "error"}, NEW hash \in BOOLEAN, Catch(why, hash),
         why # "error" => hash,
         why = "reverted" => txs[Len(txs)].state = "reverted"
  PROVE  ReportsInv'
<1>1. /\ Len(txs) <= attempt /\ attempt \in {1, 2} /\ (attempt = 2 => Twice)
      /\ broken \cap SecurityRules = {} /\ (execute => ~RouteBlocked)
      /\ txs # <<>> /\ txs \in Seq(Txs)
  BY DEF ReportsInv, RunInv
<1>2. ~Twice => Len(txs) = 1
  <2> SUFFICES ASSUME ~Twice PROVE Len(txs) = 1
    OBVIOUS
  <2>1. Len(txs) \in Nat /\ Len(txs) >= 1
    BY <1>1, SentCount, Zenon
  <2>2. Len(txs) <= 1
    BY <1>1, Zenon
  <2> DEFINE n == Len(txs)
  <2>3. n \in Nat /\ n >= 1 /\ n <= 1
    BY <2>1, <2>2
  <2> HIDE DEF n
  <2>4. n = 1
    BY <2>3
  <2> QED
    BY <2>4 DEF n
<1>3. CASE at' = "done" /\ report' = [as |-> why, why |-> "", hash |-> hash] /\ UNCHANGED attempt
  <2>1. why # "none" /\ why # "sent" /\ why \notin SaysNothingSent
    BY DEF SaysNothingSent
  <2>2. why = "reverted" /\ ~Twice => txs # <<>> /\ txs[1].state = "reverted"
    BY <1>1, <1>2
  <2> QED
    BY <1>1, <1>3, <2>1, <2>2, Reporting
<1>4. CASE Twice /\ attempt = 1 /\ at' = "simulate" /\ attempt' = 2 /\ UNCHANGED report
  BY <1>1, <1>4, Advancing DEF Places
<1> QED
  BY <1>3, <1>4, Caught

LEMMA ReceiveStep == ReportsInv /\ Receive => ReportsInv'
<1> SUFFICES ASSUME ReportsInv, Receive PROVE ReportsInv'
  OBVIOUS
<1>1. /\ Running /\ at = "wait"
      /\ UNCHANGED <<kind, asLock, execute, mode, broken, fact, txs, effects>>
  BY Zenon DEF Receive, what
<1>2. \/ /\ txs[Len(txs)].state = "mined" /\ at' = "done" /\ UNCHANGED attempt
         /\ report' = [as |-> "sent", why |-> "", hash |-> TRUE]
      \/ txs[Len(txs)].state = "reverted" /\ Catch("reverted", TRUE)
      \/ Catch("error", FALSE)
  BY Zenon DEF Receive, Report
<1>3. CASE /\ txs[Len(txs)].state = "mined" /\ at' = "done" /\ UNCHANGED attempt
           /\ report' = [as |-> "sent", why |-> "", hash |-> TRUE]
  <2>1. txs \in Seq(Txs) /\ txs # <<>>
    BY <1>1 DEF ReportsInv, RunInv
  <2>2. Len(txs) \in DOMAIN txs
    BY <2>1, SentCount
  <2>3. HasMined
    BY <1>3, <2>2, Zenon DEF HasMined
  <2> QED
    BY <1>1, <1>3, <2>1, <2>3, Reporting DEF SaysNothingSent
<1>4. CASE txs[Len(txs)].state = "reverted" /\ Catch("reverted", TRUE)
  BY <1>1, <1>4, WaitStep
<1>5. CASE Catch("error", FALSE)
  BY <1>1, <1>5, WaitStep
<1> QED
  BY <1>2, <1>3, <1>4, <1>5

LEMMA TimesOutStep == ReportsInv /\ TimesOut => ReportsInv'
<1> SUFFICES ASSUME ReportsInv, TimesOut PROVE ReportsInv'
  OBVIOUS
<1>1. /\ Running /\ at = "wait" /\ (Catch("timeout", TRUE) \/ Catch("error", FALSE))
      /\ UNCHANGED <<kind, asLock, execute, mode, broken, fact, txs, effects>>
  BY Zenon DEF TimesOut, what
<1>2. CASE Catch("timeout", TRUE)
  BY <1>1, <1>2, WaitStep
<1>3. CASE Catch("error", FALSE)
  BY <1>1, <1>3, WaitStep
<1> QED
  BY <1>1, <1>2, <1>3

LEMMA MinedStep == \A i \in 1..2 : ReportsInv /\ Mined(i) => ReportsInv'
<1> SUFFICES ASSUME NEW i \in 1..2, ReportsInv, Mined(i) PROVE ReportsInv'
  OBVIOUS
<1> DEFINE to(v) == [txs EXCEPT ![i].state = v]
<1>1. /\ i \in DOMAIN txs /\ txs[i].state = "pending"
      /\ UNCHANGED <<kind, asLock, execute, mode, broken, at, attempt, report>>
  BY Zenon DEF Mined, what
<1>2. \/ /\ Accepted /\ txs' = to("mined") /\ effects' = effects + 1
         /\ fact' = IF "active" \in DOMAIN fact /\ kind # "extendBonusTargetEscrowExpiry"
                    THEN [fact EXCEPT !["active"] = "no"] ELSE fact
      \/ txs' = to("reverted") /\ UNCHANGED <<effects, fact>>
  BY Zenon DEF Mined, what
<1>3. /\ txs \in Seq(Txs) /\ Len(txs) <= attempt /\ attempt \in {1, 2} /\ (attempt = 2 => Twice)
      /\ txs # <<>>
  BY <1>1 DEF ReportsInv, RunInv
<1>4. ~Twice => i = 1 /\ Len(txs) = 1 /\ ~HasMined
  <2> SUFFICES ASSUME ~Twice PROVE i = 1 /\ Len(txs) = 1 /\ ~HasMined
    OBVIOUS
  <2>0. Len(txs) \in Nat /\ Len(txs) >= 1 /\ DOMAIN txs = 1..Len(txs)
    BY <1>3, SentCount, Zenon
  <2>1. DOMAIN txs = 1..1 /\ Len(txs) = 1
    BY <1>3, <2>0 DEF Twice
  <2>2. \A j \in DOMAIN txs : j = i
    BY <1>1, <2>1
  <2>3. ~HasMined
    BY <1>1, <2>2, Zenon DEF HasMined
  <2> QED
    BY <1>1, <2>1, <2>3
<1>5. SecurityRules' = SecurityRules /\ RouteBlocked' = RouteBlocked /\ (Running' <=> Running)
  BY <1>1, RulesStay, Zenon DEF Running
<1>6. ASSUME NEW v \in {"mined", "reverted"}, txs' = to(v)
      PROVE  /\ RunInv' /\ txs'[i].state = v /\ txs' # <<>>
             /\ HasMined' <=> (v = "mined" \/ HasMined)
             /\ ReportInv'
  <2>1. /\ txs' \in Seq(Txs) /\ Len(txs') = Len(txs) /\ DOMAIN txs' = DOMAIN txs
        /\ txs'[i].state = v
        /\ \A j \in DOMAIN txs : txs'[j].route = txs[j].route
        /\ \A j \in DOMAIN txs : j # i => txs'[j] = txs[j]
    BY <1>1, <1>3, <1>6, Settled
  <2>2. txs' # <<>>
    BY <1>3, <2>1
  <2>3. RunInv'
    BY <1>1, <1>3, <1>5, <2>1, <2>2 DEF ReportsInv, RunInv, Twice
  <2>4. HasMined' <=> (v = "mined" \/ HasMined)
    BY <1>1, <2>1 DEF HasMined
  <2>5. ReportInv'
    <3>1. report.as = "sent" => HasMined'
      BY <2>4 DEF ReportsInv, ReportInv
    <3>2. ~(report.as = "reverted" /\ ~Twice)
      BY <1>1, <1>4 DEF ReportsInv, ReportInv
    <3>3. report.as \notin SaysNothingSent
      BY <1>3 DEF ReportsInv, ReportInv
    <3>4. report.as \in {"sent", "reverted", "timeout"} => report.hash
      BY DEF ReportsInv, ReportInv
    <3> QED
      BY <1>1, <2>2, <3>1, <3>2, <3>3, <3>4 DEF ReportInv, Twice, SaysNothingSent
  <2> QED
    BY <2>1, <2>2, <2>3, <2>4, <2>5
<1>7. CASE /\ Accepted /\ txs' = to("mined") /\ effects' = effects + 1
           /\ fact' = IF "active" \in DOMAIN fact /\ kind # "extendBonusTargetEscrowExpiry"
                      THEN [fact EXCEPT !["active"] = "no"] ELSE fact
  <2>1. Twice => "active" \in DOMAIN fact /\ fact["active"] = "yes"
    BY <1>7, CancelNeedsActive DEF ReportsInv, EffectInv
  <2>2. ~HasMined /\ effects = 0
    BY <1>4, <2>1 DEF ReportsInv, EffectInv
  <2>3. RunInv' /\ HasMined' /\ ReportInv'
    BY <1>6, <1>7
  <2>4. Twice => "active" \in DOMAIN fact' /\ fact'["active"] = "no"
    BY <1>7, <2>1 DEF Twice
  <2>5. EffectInv'
    BY <1>1, <1>7, <2>2, <2>3, <2>4 DEF EffectInv, Twice
  <2> QED
    BY <2>3, <2>5 DEF ReportsInv
<1>8. CASE txs' = to("reverted") /\ UNCHANGED <<effects, fact>>
  <2>1. RunInv' /\ (HasMined' <=> HasMined) /\ ReportInv'
    BY <1>6, <1>8
  <2>2. EffectInv'
    BY <1>1, <1>8, <2>1 DEF ReportsInv, EffectInv, Twice
  <2> QED
    BY <2>1, <2>2 DEF ReportsInv
<1> QED
  BY <1>2, <1>7, <1>8

LEMMA ChangesStep == ReportsInv /\ Changes => ReportsInv'
<1> SUFFICES ASSUME ReportsInv, Changes PROVE ReportsInv'
  OBVIOUS
<1>1. UNCHANGED <<kind, asLock, execute, mode, broken, at, attempt, txs, effects, report>>
  BY Zenon DEF Changes, what
<1>2. PICK f \in DOMAIN fact : \E v \in Values(f) :
        (f = "active" => v = "no") /\ fact' = [fact EXCEPT ![f] = v]
  BY Zenon DEF Changes, what
<1>3. Twice /\ effects = 1 => fact'["active"] # "yes"
  BY <1>2 DEF ReportsInv, EffectInv
<1>4. DOMAIN fact' = DOMAIN fact
  BY <1>2
<1>5. HasMined' <=> HasMined
  BY <1>1, Zenon DEF HasMined
<1>6. EffectInv'
  BY <1>1, <1>3, <1>4, <1>5 DEF ReportsInv, EffectInv, Twice
<1>7. SecurityRules' = SecurityRules /\ RouteBlocked' = RouteBlocked /\ (Running' <=> Running)
  BY <1>1, RulesStay, Zenon DEF Running
<1>8. RunInv'
  BY <1>1, <1>7 DEF ReportsInv, RunInv, Twice
<1>9. ReportInv'
  BY <1>1, <1>5, <1>7 DEF ReportsInv, ReportInv, Twice
<1> QED
  BY <1>6, <1>8, <1>9 DEF ReportsInv

(* What an action reports is true: "sent" took effect once, "reverted" did *)
(* not, a hash is that of a transaction, what was blocked, skipped,        *)
(* simulated or thrown was not sent, and nothing is sent in a dry run,     *)
(* past a rule or in public against the mode (executeAgentAction,          *)
(* simulateAndWrite).  For every set of actions, with or without a         *)
(* TxManager, however often the facts change and the nodes fail.           *)
THEOREM ReportsAgreeWithTheChain == ExecSpec => []ReportsAreTrue
<1>1. ReportsInv /\ [ExecNext]_execVars => ReportsInv'
  <2> SUFFICES ASSUME ReportsInv, [ExecNext]_execVars PROVE ReportsInv'
    OBVIOUS
  <2>1. CASE ExecStep
    BY <2>1, PolicyStep, SessionStep, EntryStep, AskStep, AsksDoneStep, SimulateStep,
       WriteReports, ReceiveStep, TimesOutStep, Zenon DEF ExecStep
  <2>2. CASE Changes
    BY <2>2, ChangesStep, Zenon
  <2>3. CASE \E i \in 1..2 : Mined(i)
    BY <2>3, MinedStep, Zenon
  <2>4. CASE UNCHANGED execVars
    <3>1. UNCHANGED <<kind, asLock, execute, mode, broken, fact, at, attempt, txs, effects, report>>
      BY <2>4 DEF execVars, what
    <3>2. SecurityRules' = SecurityRules /\ RouteBlocked' = RouteBlocked /\ (Running' <=> Running)
      BY <3>1, RulesStay, Zenon DEF Running
    <3>3. HasMined' <=> HasMined
      BY <3>1, Zenon DEF HasMined
    <3> QED
      BY <3>1, <3>2, <3>3 DEF ReportsInv, RunInv, EffectInv, ReportInv, Twice, SaysNothingSent
  <2> QED
    BY <2>1, <2>2, <2>3, <2>4, Zenon DEF ExecNext
<1>2. ReportsInv => ReportsAreTrue
  <2> SUFFICES ASSUME ReportsInv PROVE ReportsAreTrue
    OBVIOUS
  <2>1. effects <= 1 /\ (report.as = "sent" => effects = 1 /\ report.hash)
    BY DEF ReportsInv, EffectInv, ReportInv
  <2>2. report.as = "reverted" /\ ~Twice => effects = 0
    <3> SUFFICES ASSUME report.as = "reverted", ~Twice PROVE effects = 0
      OBVIOUS
    <3>1. Len(txs) <= 1 /\ txs \in Seq(Txs) /\ txs[1].state = "reverted"
      BY DEF ReportsInv, RunInv, ReportInv
    <3>2. ~HasMined
      BY <3>1 DEF HasMined
    <3> QED
      BY <3>2 DEF ReportsInv, EffectInv
  <2>3. /\ report.as \in {"reverted", "timeout"} => report.hash
        /\ report.hash => txs # <<>>
        /\ report.as \in SaysNothingSent => txs = <<>>
    BY DEF ReportsInv, ReportInv
  <2> QED
    BY <2>1, <2>2, <2>3, Zenon DEF ReportsAreTrue, ReportsInv, RunInv, Twice
<1> QED
  BY InitReports, <1>1, <1>2, PTL DEF ExecSpec
-----------------------------------------------------------------------------
(* A question that blocks the action as it is answered now.                *)
HoldsBack(q) == q.as \in {"must", "soft", "bonus"} /\ Answer(q.f) \notin q.ok

(* What the contract requires of the same fact, no less strictly, it       *)
(* refuses.                                                                *)
LEMMA RequiredRefuses ==
  ASSUME NEW q, HoldsBack(q), NEW r \in Requires(kind), r.f = q.f, r.ok \subseteq q.ok
  PROVE  ~Accepted
BY DEF HoldsBack, Accepted

LEMMA NeededRefuses ==
  ASSUME NEW f, NEW q, HoldsBack(q), q \in {Must(f), Soft(f)}, Needs(f) \in Requires(kind)
  PROVE  ~Accepted
<1>1. q.f = f /\ q.ok = {"yes"} /\ Needs(f).f = f /\ Needs(f).ok = {"yes"}
  BY DEF Must, Soft, Ask, Needs
<1> QED  BY <1>1, RequiredRefuses

(* Facts of their own, and what is made of them.                           *)
LEMMA OwnFacts ==
  \A f \in {"active", "seller", "over", "destOk", "destShort", "bonusDest", "bonusNew"} : Answer(f) = fact[f]
<1>1. \A f \in {"active", "seller", "over", "destOk", "destShort", "bonusDest", "bonusNew"} : f \notin DOMAIN Made
  BY DEF Made
<1> QED  BY <1>1, Zenon DEF Answer

LEMMA MadeFacts ==
  /\ Answer("delistable") = "yes" <=> IF Is("active") THEN Is("seller") ELSE Is("owner") /\ ~Is("unlisted")
  /\ Answer("bonusAsQuoted") = "yes" <=> IF target = "dest" THEN Is("bonusDest") ELSE Is("bonusNew")
  /\ Answer("bonusAsPaid") = "yes" <=> IF Is("destOk") THEN Is("bonusDest") ELSE Is("bonusNew")
  /\ Answer("any") = "yes"
<1>1. {"delistable", "bonusAsQuoted", "bonusAsPaid", "any"} \subseteq DOMAIN Made
  BY DEF Made
<1>2. "yes" # "no"
  OBVIOUS
<1>3. Answer("delistable") = "yes" <=> IF Is("active") THEN Is("seller") ELSE Is("owner") /\ ~Is("unlisted")
  BY <1>1 DEF Answer
<1>4. Answer("bonusAsQuoted") = "yes" <=> IF target = "dest" THEN Is("bonusDest") ELSE Is("bonusNew")
  BY <1>1 DEF Answer
<1>5. Answer("bonusAsPaid") = "yes" <=> IF Is("destOk") THEN Is("bonusDest") ELSE Is("bonusNew")
  BY <1>1 DEF Answer
<1>6. Answer("any") = "yes"
  BY <1>1 DEF Answer
<1> QED  BY <1>3, <1>4, <1>5, <1>6

(* Case by case: the question that blocks is not asked, is a rule of the   *)
(* executor's own, or is about what the contract requires.                 *)
LEMMA ThroneAndFurnace ==
  ASSUME NEW i \in Nat \ {0}, i <= Len(Entry.asks), HoldsBack(Entry.asks[i]), <<kind, Entry.asks[i].f>> \notin OwnRules,
         kind \in Spending \cup OwnerOnly \cup {"setCurrentReignRecipients", "claimShareholderLock", "ve_approve"}
  PROVE  ~Accepted
<1> DEFINE q == Entry.asks[i]
<1>1. CASE kind \in {"enterWithClaim", "enterWithClaimFromCallerFor", "enterWithToken", "enterWithTokenFromCallerFor"}
  <2>1. Entry.asks = <<Soft("allowance"), Quote>>
    BY <1>1 DEF Entry, Entries, enterWithClaim, enterWithClaimFromCallerFor, enterWithToken,
         enterWithTokenFromCallerFor, Action
  <2>2. q = Soft("allowance")
    BY <2>1 DEF HoldsBack, Quote, Ask
  <2>3. Needs("allowance") \in Requires(kind)
    BY <1>1 DEF Requires, OtherRequires, Spending
  <2> QED  BY <2>2, <2>3, NeededRefuses
<1>2. CASE kind = "takeoverWithToken"
  <2>1. Entry.asks = <<Soft("allowance"), Quote, Must("coversPrice")>>
    BY <1>2 DEF Entry, Entries, takeoverWithToken, Action
  <2>2. q = Soft("allowance") \/ q = Must("coversPrice")
    BY <2>1 DEF HoldsBack, Quote, Ask
  <2>3. Needs("allowance") \in Requires(kind) /\ Needs("coversPrice") \in Requires(kind)
    BY <1>2 DEF Requires, OtherRequires, Spending
  <2> QED  BY <2>2, <2>3, NeededRefuses
<1>3. CASE kind \in OwnerOnly
  <2>1. Entry.asks = <<Must("owner")>> \/ (kind = "mergeLocksWithBonus" /\ Entry.asks = <<Must("owner"), Must("ownerInto")>>)
    BY <1>3 DEF OwnerOnly, Entry, Entries, unlock, setAutoMax, mergeLocksWithBonus, Action
  <2>2. q = Must("owner") \/ (kind = "mergeLocksWithBonus" /\ q = Must("ownerInto"))
    BY <2>1
  <2>3. Needs("owner") \in Requires(kind) /\ (kind = "mergeLocksWithBonus" => Needs("ownerInto") \in Requires(kind))
    BY <1>3 DEF Requires, OtherRequires
  <2> QED  BY <2>2, <2>3, NeededRefuses
<1>4. CASE kind \in {"setCurrentReignRecipients", "claimShareholderLock", "ve_approve"}
  <2>1. \/ kind = "setCurrentReignRecipients" /\ Entry.asks = <<Must("isKing")>>
        \/ kind = "claimShareholderLock" /\ Entry.asks = <<Must("claimable"), Quote>>
        \/ kind = "ve_approve" /\ Entry.asks = <<Must("owner"), Skip("approved")>>
    BY <1>4 DEF Entry, Entries, setCurrentReignRecipients, claimShareholderLock, ve_approve, Action
  <2>2. \/ kind = "setCurrentReignRecipients" /\ q = Must("isKing")
        \/ kind = "claimShareholderLock" /\ q = Must("claimable")
        \/ kind = "ve_approve" /\ q = Must("owner")
    BY <2>1 DEF HoldsBack, Quote, Skip, Ask
  <2> QED  BY <2>2 DEF OwnRules, Must, Ask
<1> QED  BY <1>1, <1>2, <1>3, <1>4 DEF Spending

LEMMA Listings ==
  ASSUME NEW i \in Nat \ {0}, i <= Len(Entry.asks), HoldsBack(Entry.asks[i]), <<kind, Entry.asks[i].f>> \notin OwnRules, ~Differs,
         kind \in {"listLock", "delistLock", "cancelExpiredListing", "sellLockToFurnace", "sellListedLockToFurnace"}
  PROVE  ~Accepted
<1> DEFINE q == Entry.asks[i]
<1>1. CASE kind = "listLock"
  <2>1. Entry.asks = ListingAsks
    BY <1>1 DEF Entry, Entries, listLock, Action
  <2>2. PICK f \in {"owner", "unpaused", "cooled", "approved", "alive", "unlisted", "notPast"} : q = Must(f)
    BY <2>1 DEF ListingAsks, HoldsBack, Quote, Ask
  <2>3. f # "approved"
    BY <1>1, <2>2 DEF OwnRules, Must, Ask
  <2>4. Needs(f) \in Requires(kind)
    BY <1>1, <2>3 DEF Requires, ListingRequires
  <2> QED  BY <2>2, <2>4, NeededRefuses
<1>2. CASE kind = "delistLock"
  <2>1. Entry.asks = <<Must("active"), Must("seller"), Must("cooled")>>
    BY <1>2 DEF Entry, Entries, delistLock, Action
  <2>2. PICK f \in {"active", "seller", "cooled"} : q = Must(f)
    BY <2>1
  <2>3. Is("active") /\ Answer(f) \notin {"yes"}
    BY <1>2, <2>2 DEF Differs, HoldsBack, Must, Ask
  <2>4. Needs("cooled") \in Requires(kind) /\ Needs("delistable") \in Requires(kind)
    BY <1>2 DEF Requires, ListingRequires
  <2>5. CASE f = "cooled"
    BY <2>2, <2>4, <2>5, NeededRefuses
  <2>6. CASE f # "cooled"
    <3>1. f = "seller" /\ ~Is("seller")
      BY <2>3, <2>6, OwnFacts DEF Is
    <3>2. Answer("delistable") \notin {"yes"}
      BY <2>3, <3>1, MadeFacts
    <3> QED  BY <2>4, <3>2 DEF Accepted, Needs
  <2> QED  BY <2>5, <2>6
<1>3. CASE kind = "cancelExpiredListing"
  <2>1. Entry.asks = <<Must("active"), Must("over"), Must("cooled")>>
    BY <1>3 DEF Entry, Entries, cancelExpiredListing, Action
  <2>2. PICK f \in {"active", "over", "cooled"} : q = Must(f)
    BY <2>1
  <2>3. Needs("active") \in Requires(kind) /\ Needs("cooled") \in Requires(kind) /\ Reached("over") \in Requires(kind)
    BY <1>3 DEF Requires, ListingRequires
  <2>4. CASE f # "over"
    BY <2>2, <2>3, <2>4, NeededRefuses
  <2>5. CASE f = "over"
    <3>1. Answer("over") \notin {"at", "yes"}
      BY <1>3, <2>2, <2>5, OwnFacts DEF HoldsBack, Must, Ask, Differs
    <3> QED  BY <2>3, <3>1 DEF Accepted, Reached
  <2> QED  BY <2>4, <2>5
<1>4. CASE kind = "sellLockToFurnace"
  <2>1. Entry.asks = <<Must("owner"), Must("approved"), Quote>>
    BY <1>4 DEF Entry, Entries, sellLockToFurnace, Action
  <2>2. q = Must("owner") \/ q = Must("approved")
    BY <2>1 DEF HoldsBack, Quote, Ask
  <2>3. q = Must("owner")
    BY <1>4, <2>2 DEF OwnRules, Must, Ask
  <2>4. Needs("owner") \in Requires(kind)
    BY <1>4 DEF Requires, ListingRequires
  <2> QED  BY <2>3, <2>4, NeededRefuses
<1>5. CASE kind = "sellListedLockToFurnace"
  <2>1. Entry.asks = SaleAsks
    BY <1>5 DEF Entry, Entries, sellListedLockToFurnace, Action
  <2>2. q = Ask("must", "over", {"no", "at"}) \/ \E f \in {"owner", "active", "approved", "pays"} : q = Must(f)
    BY <2>1 DEF SaleAsks
  <2>3. /\ Needs("active") \in Requires(kind) /\ Needs("pays") \in Requires(kind)
        /\ NotYet("over") \in Requires(kind)
    BY <1>5 DEF Requires, ListingRequires
  <2>4. CASE q = Ask("must", "over", {"no", "at"})
    <3>1. q.f = "over" /\ NotYet("over").f = "over" /\ NotYet("over").ok \subseteq q.ok
      BY <2>4 DEF Ask, NotYet
    <3> QED  BY <2>3, <3>1, RequiredRefuses
  <2>5. ASSUME NEW f \in {"owner", "active", "approved", "pays"}, q = Must(f)  PROVE ~Accepted
    <3>1. f # "owner" /\ f # "approved"
      BY <1>5, <2>5 DEF OwnRules, Must, Ask
    <3> QED  BY <2>3, <2>5, <3>1, NeededRefuses
  <2> QED  BY <2>2, <2>4, <2>5
<1> QED  BY <1>1, <1>2, <1>3, <1>4, <1>5

LEMMA Offers ==
  ASSUME NEW i \in Nat \ {0}, i <= Len(Entry.asks), HoldsBack(Entry.asks[i]), Question = Entry.asks[i], ~Differs,
         kind \in {"cancelExpiredBonusTargetEscrow", "executeAutoFurnace", "createBonusTargetEscrowWithTarget",
                   "cancelBonusTargetEscrow", "extendBonusTargetEscrowExpiry"}
  PROVE  ~Accepted
<1> DEFINE q == Entry.asks[i]
<1>1. CASE kind = "cancelExpiredBonusTargetEscrow"
  <2>1. Entry.asks = <<Must("active"), Must("over")>>
    BY <1>1 DEF Entry, Entries, cancelExpiredBonusTargetEscrow, Action
  <2>2. q = Must("active") \/ q = Must("over")
    BY <2>1
  <2>3. Needs("active") \in Requires(kind) /\ Reached("over") \in Requires(kind)
    BY <1>1 DEF Requires, OfferRequires
  <2>4. CASE q = Must("over")
    <3>1. Answer("over") \notin {"at", "yes"}
      BY <1>1, <2>4, OwnFacts DEF HoldsBack, Must, Ask, Differs
    <3> QED  BY <2>3, <3>1 DEF Accepted, Reached
  <2> QED  BY <2>2, <2>3, <2>4, NeededRefuses
<1>2. CASE kind = "executeAutoFurnace"
  <2>1. Entry.asks = OfferAsks
    BY <1>2 DEF Entry, Entries, executeAutoFurnace, Action
  <2>2. \/ q = Ask("must", "over", {"no", "at"}) \/ q = Bonus
        \/ \E f \in {"unpaused", "active", "configured"} : q = Must(f)
    BY <2>1 DEF OfferAsks, HoldsBack, Dest, Ask
  <2>3. /\ \A f \in {"unpaused", "active", "configured", "bonusAsPaid"} : Needs(f) \in Requires(kind)
        /\ NotYet("over") \in Requires(kind)
    BY <1>2 DEF Requires, OfferRequires
  <2>4. CASE q = Ask("must", "over", {"no", "at"})
    <3>1. q.f = "over" /\ NotYet("over").f = "over" /\ NotYet("over").ok \subseteq q.ok
      BY <2>4 DEF Ask, NotYet
    <3> QED  BY <2>3, <3>1, RequiredRefuses
  <2>5. CASE q = Bonus
    <3>1. Answer("bonusAsQuoted") # "yes" /\ (Is("destOk") <=> target = "dest")
      BY <1>2, <2>5 DEF HoldsBack, Bonus, Ask, Differs
    <3>2. Answer("bonusAsPaid") # "yes"
      BY <3>1, MadeFacts
    <3> QED  BY <2>3, <3>2 DEF Accepted, Needs
  <2> QED  BY <2>2, <2>3, <2>4, <2>5, NeededRefuses
<1>3. CASE kind = "createBonusTargetEscrowWithTarget"
  <2>1. Entry.asks = EscrowAsks
    BY <1>3 DEF Entry, Entries, createBonusTargetEscrowWithTarget, Action
  <2>2. PICK f \in {"unpaused", "budget", "discount", "allowance", "destOwner", "destFits"} : q \in {Must(f), Soft(f)}
    BY <2>1 DEF EscrowAsks
  <2>3. Needs(f) \in Requires(kind)
    BY <1>3 DEF Requires, OfferRequires
  <2> QED  BY <2>2, <2>3, NeededRefuses
<1>4. CASE kind = "cancelBonusTargetEscrow"
  <2>1. Entry.asks = <<Must("active"), Must("buyer")>>
    BY <1>4 DEF Entry, Entries, cancelBonusTargetEscrow, Action
  <2>2. q = Must("active") \/ q = Must("buyer")
    BY <2>1
  <2>3. Needs("active") \in Requires(kind) /\ Needs("buyer") \in Requires(kind)
    BY <1>4 DEF Requires, OfferRequires
  <2> QED  BY <2>2, <2>3, NeededRefuses
<1>5. CASE kind = "extendBonusTargetEscrowExpiry"
  <2>1. Entry.asks = <<Must("active"), Must("buyer"), Ask("must", "over", {"no", "at"}), Must("later")>>
    BY <1>5 DEF Entry, Entries, extendBonusTargetEscrowExpiry, Action
  <2>2. q = Ask("must", "over", {"no", "at"}) \/ \E f \in {"active", "buyer", "later"} : q = Must(f)
    BY <2>1
  <2>3. /\ \A f \in {"active", "buyer", "later"} : Needs(f) \in Requires(kind)
        /\ NotYet("over") \in Requires(kind)
    BY <1>5 DEF Requires, OfferRequires
  <2>4. CASE q = Ask("must", "over", {"no", "at"})
    <3>1. q.f = "over" /\ NotYet("over").f = "over" /\ NotYet("over").ok \subseteq q.ok
      BY <2>4 DEF Ask, NotYet
    <3> QED  BY <2>3, <3>1, RequiredRefuses
  <2> QED  BY <2>2, <2>3, <2>4, NeededRefuses
<1> QED  BY <1>1, <1>2, <1>3, <1>4, <1>5

(* The others ask nothing that could block them.                           *)
LEMMA OthersAskNothing ==
  ASSUME NEW i \in Nat \ {0}, i <= Len(Entry.asks), HoldsBack(Entry.asks[i]),
         kind \in {"enterWithEth", "enterWithEthFor", "takeover", "takeoverFor", "setKingAutoLockConfig",
                   "setKingAutoLockConfigForUser", "withdrawKingBalance", "withdrawRefundBalance",
                   "extendWithBonus", "extendWithBonusFor", "mergeLocksWithBonusFor", "claimShareholderEth",
                   "setAutoCompoundConfig", "setAutoCompoundConfigForUser", "setLpAutoCompoundConfigForUser",
                   "claimShareholderForUser", "withdrawKingBalanceForUser", "claimAllFor", "erc20_approve",
                   "ensureAllowance", "ve_setApprovalForAll", "checkpointGlobalState", "checkpointTotalVe",
                   "unlockExpiredForUser"}
  PROVE  FALSE
<1>1. Entry.asks \in {<<>>, <<Quote>>, <<Soft("any")>>, <<Skip("allowance")>>, <<Skip("approved")>>}
  BY DEF Entry, Entries, Action, Plain, enterWithEth, enterWithEthFor, takeover, takeoverFor, setKingAutoLockConfig,
       setKingAutoLockConfigForUser, withdrawKingBalance, withdrawRefundBalance, extendWithBonus,
       extendWithBonusFor, mergeLocksWithBonusFor, claimShareholderEth, setAutoCompoundConfig,
       setAutoCompoundConfigForUser, setLpAutoCompoundConfigForUser, claimShareholderForUser,
       withdrawKingBalanceForUser, claimAllFor, erc20_approve, ensureAllowance, ve_setApprovalForAll,
       checkpointGlobalState, checkpointTotalVe, unlockExpiredForUser
<1>2. Entry.asks[i] \in {Quote, Soft("any"), Skip("allowance"), Skip("approved")}
  BY <1>1
<1> QED  BY <1>2, MadeFacts DEF HoldsBack, Quote, Soft, Skip, Ask

LEMMA HeldBackIsRefused ==
  ASSUME kind \in Kinds, NEW i \in Nat \ {0}, i <= Len(Entry.asks), HoldsBack(Entry.asks[i]), Question = Entry.asks[i],
         <<kind, Entry.asks[i].f>> \notin OwnRules, ~Differs
  PROVE  ~Accepted
<1>1. kind \in DOMAIN Entries
  BY AgentExecutorAssumption DEF AgentExecutorAssumption
<1> QED
  BY <1>1, ThroneAndFurnace, Listings, Offers, OthersAskNothing DEF Entries, Spending, OwnerOnly

(* Which question is next.                                                *)
AskInv == kind \in Kinds /\ step \in Nat \ {0}

LEMMA StepsKeepAskInv == AskInv /\ [ExecNext]_execVars => AskInv'
<1> SUFFICES ASSUME AskInv, [ExecNext]_execVars  PROVE AskInv'
  OBVIOUS
<1>1. kind' = kind /\ (step' = step \/ step' = step + 1)
  BY Zenon DEF ExecNext, ExecStep, CheckPolicy, CheckSession, EnterCase, AskNext, AsksDone, Simulate, Write,
     Receive, TimesOut, Mined, Changes, Answered, Unanswered, Proceed, AskAgain, Catch, what, execVars
<1> QED  BY <1>1 DEF AskInv

(* What blocks an action while it asks (executorImpl.ts) the contract      *)
(* would refuse, whatever the action, the facts and what changes           *)
(* meanwhile; but for the rules of the executor's own and where it asks    *)
(* differently.                                                            *)
THEOREM BlocksAreRefusals == ExecSpec => BlockedMeansRefused
<1>1. ExecInit => AskInv
  BY DEF ExecInit, AskInv
<1>2. AskInv /\ [ExecNext]_execVars => AskInv'
  BY StepsKeepAskInv
<1>3. ASSUME AskInv, ExecNext, NEW f, report'.as = "blocked", report'.why = f, Running, at = "ask",
             <<kind, f>> \notin OwnRules, ~Differs
      PROVE  ~Accepted
  <2>1. report.as = "none" /\ report' # report
    <3>1. report = NoReport /\ report'.as = "blocked"
      BY <1>3, Zenon DEF Running
    <3>2. NoReport.as = "none"
      BY DEF NoReport
    <3> QED  BY <3>1, <3>2
  <2>2. AskNext
    BY <1>3, <2>1, Zenon DEF ExecNext, ExecStep, CheckPolicy, CheckSession, EnterCase, AsksDone, Simulate, Write,
       Receive, TimesOut, Mined, Changes
  <2>3. step <= Len(Entry.asks) /\ Question = Entry.asks[step]
    BY <2>2, Zenon DEF AskNext, Question
  <2>4. \/ report' = report
        \/ \E a \in {"skipped", "error"} : \E why : report' = [as |-> a, why |-> why, hash |-> FALSE]
        \/ /\ Question.as \in {"must", "soft", "bonus"} /\ Answer(Question.f) \notin Question.ok
           /\ report' = [as |-> "blocked", why |-> Question.f, hash |-> FALSE]
    BY <2>2, Zenon DEF AskNext, Answered, Unanswered, Proceed, AskAgain, Report, Catch
  <2>5. /\ Question.as \in {"must", "soft", "bonus"} /\ Answer(Question.f) \notin Question.ok
        /\ report' = [as |-> "blocked", why |-> Question.f, hash |-> FALSE]
    BY <1>3, <2>1, <2>4
  <2>6. f = Question.f /\ HoldsBack(Question)
    BY <1>3, <2>5 DEF HoldsBack
  <2> QED  BY <1>3, <2>3, <2>6, HeldBackIsRefused DEF AskInv
<1>4. AskInv /\ [ExecNext]_execVars =>
        [\A f \in DOMAIN fact \cup DOMAIN Made :
           (report'.as = "blocked" /\ report'.why = f /\ Running /\ at = "ask"
            /\ <<kind, f>> \notin OwnRules /\ ~Differs) => ~Accepted]_execVars
  BY <1>3
<1> QED  BY <1>1, <1>2, <1>4, PTL DEF ExecSpec, BlockedMeansRefused

-----------------------------------------------------------------------------
(* The writes of the transaction manager.                                 *)
Stages == {"queued", "send", "wait", "confirmed", "reverted", "timeout", "error"}
Fees == SUBSET Int
Calls == [at : Stages, n : Int, fee : Int,
          sync : Int, hashes : Fees]
(* A write has no transaction before it waits for one; all it has then     *)
(* have its nonce, which is used but once.                                 *)
Waits(t) == t.w \in Writes /\ call[t.w].at \notin {"queued", "send"} /\ t.n = call[t.w].n
OnceInv ==
  /\ used \in Int /\ cached \in Int /\ call \in [Writes -> Calls]
  /\ \A t \in mempool : Waits(t) /\ t.n >= used
  /\ \A t \in mined : Waits(t) /\ t.n < used
  /\ \A s, t \in mined : s.w = t.w => s = t
PlainInv == ~replacing => OnceInv

(* A write that moves on without a transaction, or with the one it has.    *)
LEMMA WriteMoves ==
  ASSUME OnceInv, UNCHANGED <<used, mempool, mined>>, cached' \in Int, NEW w \in Writes, NEW c \in Calls,
         call' = [call EXCEPT ![w] = c],
         call[w].at \in {"queued", "send"} \/ (c.n = call[w].n /\ c.at \notin {"queued", "send"})
  PROVE  OnceInv'
<1>1. call' \in [Writes -> Calls] /\ call'[w] = c /\ \A v \in Writes \ {w} : call'[v] = call[v]
  BY DEF OnceInv
<1>2. \A t \in mempool \cup mined : Waits(t) => Waits(t)'
  BY <1>1 DEF Waits
<1> QED  BY <1>1, <1>2 DEF OnceInv

(* What a write becomes.                                                   *)
LEMMA GoesTo ==
  ASSUME OnceInv, NEW w \in Writes,
         NEW stage \in Stages, Goto(w, stage)
  PROVE  \E c \in Calls : call' = [call EXCEPT ![w] = c] /\ c.at = stage /\ c.n = call[w].n
<1> DEFINE c == [call[w] EXCEPT !.at = stage]
<1>1. call[w] \in Calls
  BY DEF OnceInv
<1>2. c \in Calls /\ c.at = stage /\ c.n = call[w].n
  BY <1>1 DEF Calls
<1>3. call' = [call EXCEPT ![w] = c]
  BY DEF Goto
<1> HIDE DEF c
<1> QED  BY <1>2, <1>3

LEMMA StageNames == {"send", "wait", "confirmed", "reverted", "timeout", "error"} \subseteq Stages
BY DEF Stages

LEMMA NoFees == {} \in Fees /\ \A h \in Fees : \A f \in Int : h \cup {f} \in Fees
BY DEF Fees

LEMMA StartsOver ==
  ASSUME NEW b \in Calls, NEW stage \in Stages, NEW n \in Int, NEW sync \in Int, NEW hashes \in Fees, NEW c,
         \/ c = [b EXCEPT !.at = stage, !.n = n, !.fee = 1, !.hashes = hashes]
         \/ c = [b EXCEPT !.at = stage, !.n = n, !.fee = 1, !.sync = sync, !.hashes = hashes]
  PROVE  c \in Calls
<1> DEFINE d == [b EXCEPT !.at = stage, !.n = n]
<1>1. d \in Calls
  BY DEF Calls
<1> DEFINE fee == 1
<1>2. \/ c = [d EXCEPT !.fee = fee, !.hashes = hashes]
      \/ c = [d EXCEPT !.fee = fee, !.sync = sync, !.hashes = hashes]
  OBVIOUS
<1>3. fee \in Int
  OBVIOUS
<1> HIDE DEF d, fee
<1>4. [d EXCEPT !.fee = fee, !.hashes = hashes] \in Calls
  BY <1>1, <1>3 DEF Calls
<1>5. [d EXCEPT !.fee = fee, !.sync = sync, !.hashes = hashes] \in Calls
  BY <1>1, <1>3 DEF Calls
<1> QED  BY <1>2, <1>4, <1>5, Zenon

LEMMA NetIsNumber ==
  ASSUME OnceInv, NEW net, NetNonce(net)  PROVE net \in Int /\ SyncNonce(net) \in Int
<1>1. net \in Int
  <2>1. CASE net \in Seen
    BY <2>1 DEF Seen, OnceInv, Waits, Calls
  <2>2. CASE net \in 0..used - 1
    BY <2>2 DEF OnceInv
  <2> QED  BY <2>1, <2>2 DEF NetNonce
<1> QED  BY <1>1 DEF SyncNonce, OnceInv

LEMMA NoneIsNumber == None \in Int
BY DEF None

(* The next attempt is one before anything was sent, or the write ends.    *)
LEMMA NextAttemptKeeps ==
  ASSUME OnceInv, NEW w \in Writes, call[w].at = "send", NextAttempt(w), UNCHANGED <<used, mempool, mined>>
  PROVE  OnceInv'
<1>1. call[w] \in Calls
  BY DEF OnceInv
<1>2. CASE call[w].fee < MAXATTEMPTS
  <2> DEFINE c == [call[w] EXCEPT !.at = "send", !.fee = @ + 1]
  <2>1. c \in Calls
    <3> DEFINE fee == call[w].fee + 1
               stage == "send"
    <3>1. c = [call[w] EXCEPT !.at = stage, !.fee = fee] /\ stage \in Stages
      BY StageNames
    <3>2. fee \in Int
      BY <1>1 DEF Calls
    <3> HIDE DEF c, fee, stage
    <3> QED  BY <1>1, <3>1, <3>2 DEF Calls
  <2>2. call' = [call EXCEPT ![w] = c] /\ cached' = cached
    BY <1>2 DEF NextAttempt
  <2> HIDE DEF c
  <2> QED  BY <2>1, <2>2, WriteMoves DEF OnceInv
<1>3. CASE ~(call[w].fee < MAXATTEMPTS)
  <2>1. cached' \in Int /\ (Goto(w, "error") \/ Goto(w, "timeout"))
    BY <1>3, NoneIsNumber DEF NextAttempt
  <2>2. PICK c \in Calls : call' = [call EXCEPT ![w] = c]
    BY <2>1, GoesTo, StageNames
  <2> QED  BY <2>1, <2>2, WriteMoves
<1> QED  BY <1>2, <1>3

LEMMA WriteStepsKeep ==
  ASSUME OnceInv, ~replacing, NEW w \in Writes, WriteStep(w) \/ BroadcastFails(w) \/ PollFails(w)
  PROVE  OnceInv'
<1>0. call[w] \in Calls
  BY DEF OnceInv
<1>1. CASE BeginWrite(w)
  <2>1. PICK net : NetNonce(net) /\ Allocate(w, net)
    BY <1>1 DEF BeginWrite
  <2> DEFINE c == [call[w] EXCEPT !.at = "send", !.n = SyncNonce(net), !.fee = 1, !.hashes = {}]
  <2>2. c \in Calls
    <3> DEFINE stage == "send"
               n == SyncNonce(net)
               hashes == {}
    <3>1. c = [call[w] EXCEPT !.at = stage, !.n = n, !.fee = 1, !.hashes = hashes] /\ stage \in Stages
      BY StageNames
    <3>2. n \in Int /\ hashes \in Fees
      BY <2>1, NetIsNumber, NoFees
    <3> HIDE DEF c, n, stage, hashes
    <3> QED  BY <1>0, <3>1, <3>2, StartsOver
  <2>3. call' = [call EXCEPT ![w] = c] /\ cached' \in Int
    BY <2>1, NetIsNumber DEF Allocate
  <2> HIDE DEF c
  <2> QED  BY <1>1, <2>2, <2>3, WriteMoves DEF BeginWrite
<1>2. CASE Broadcast(w)
  <2> DEFINE c == [call[w] EXCEPT !.at = "wait", !.hashes = @ \cup {call[w].fee}]
  <2>1. c \in Calls /\ c.at = "wait" /\ c.n = call[w].n
    <3> DEFINE stage == "wait"
               hashes == call[w].hashes \cup {call[w].fee}
    <3>1. c = [call[w] EXCEPT !.at = stage, !.hashes = hashes] /\ stage \in Stages /\ stage = "wait"
      BY StageNames
    <3>2. hashes \in Fees
      BY <1>0, NoFees DEF Calls
    <3> HIDE DEF c, stage, hashes
    <3> QED  BY <1>0, <3>1, <3>2 DEF Calls
  <2>2. call' = [call EXCEPT ![w] = c]
    BY <1>2 DEF Broadcast
  <2> HIDE DEF c
  <2>3. call' \in [Writes -> Calls] /\ call'[w] = c /\ \A v \in Writes \ {w} : call'[v] = call[v]
    BY <2>1, <2>2 DEF OnceInv
  <2>4. \A t \in mempool \cup mined : Waits(t) => Waits(t)'
    BY <1>2, <2>3 DEF Waits, Broadcast
  <2>10. PICK new : new = Copy(w)
    OBVIOUS
  <2>5. Waits(new)' /\ new.n >= used
    BY <1>2, <2>10, <2>1, <2>3 DEF Waits, Copy, Broadcast
  <2>6. cached' \in Int /\ mined' = mined /\ used' = used /\ mempool' = mempool \cup {new}
    BY <2>10, <1>0, <1>2 DEF Broadcast, OnceInv, Calls
  <2>7. \A t \in mempool' : Waits(t)' /\ t.n >= used'
    BY <2>4, <2>5, <2>6 DEF OnceInv
  <2>8. \A t \in mined' : Waits(t)' /\ t.n < used'
    BY <2>4, <2>6 DEF OnceInv
  <2>9. \A s, t \in mined' : s.w = t.w => s = t
    BY <2>6 DEF OnceInv
  <2> QED  BY <2>3, <2>6, <2>7, <2>8, <2>9 DEF OnceInv
<1>3. CASE Underpriced(w)
  BY <1>3, NextAttemptKeeps DEF Underpriced
<1>4. CASE NonceTooLow(w)
  <2>1. CASE call[w].sync < RESYNCS
    <3>1. PICK net : /\ NetNonce(net) /\ cached' = net
                     /\ call' = [call EXCEPT ![w].at = "send", ![w].n = net, ![w].fee = 1,
                                             ![w].sync = @ + 1, ![w].hashes = {}]
      BY <1>4, <2>1 DEF NonceTooLow
    <3> DEFINE c == [call[w] EXCEPT !.at = "send", !.n = net, !.fee = 1, !.sync = @ + 1, !.hashes = {}]
    <3>2. c \in Calls
      <4> DEFINE stage == "send"
                 sync == call[w].sync + 1
                 hashes == {}
      <4>1. c = [call[w] EXCEPT !.at = stage, !.n = net, !.fee = 1, !.sync = sync, !.hashes = hashes] /\ stage \in Stages
        BY StageNames
      <4>2. net \in Int /\ sync \in Int /\ hashes \in Fees
        BY <1>0, <3>1, NetIsNumber, NoFees DEF Calls
      <4> HIDE DEF c, stage, sync, hashes
      <4> QED  BY <1>0, <4>1, <4>2, StartsOver
    <3>3. call' = [call EXCEPT ![w] = c] /\ cached' \in Int
      BY <3>1, NetIsNumber
    <3> HIDE DEF c
    <3> QED  BY <1>4, <3>2, <3>3, WriteMoves DEF NonceTooLow
  <2>2. CASE ~(call[w].sync < RESYNCS)
    <3>1. Goto(w, "error") /\ cached' \in Int
      BY <1>4, <2>2, NoneIsNumber DEF NonceTooLow
    <3>2. PICK c \in Calls : call' = [call EXCEPT ![w] = c]
      BY <3>1, GoesTo, StageNames
    <3> QED  BY <1>4, <3>1, <3>2, WriteMoves DEF NonceTooLow
  <2> QED  BY <2>1, <2>2
<1>5. CASE Receipt(w)
  <2>1. PICK t \in mined : t.n = call[w].n
    BY <1>5 DEF Receipt, LastMined
  <2>2. cached' \in Int
    BY <1>5, <1>0 DEF Receipt, LastMined, OnceInv, Calls
  <2>3. Goto(w, "confirmed") \/ Goto(w, "reverted")
    BY <1>5 DEF Receipt
  <2>4. PICK c \in Calls : call' = [call EXCEPT ![w] = c] /\ c.n = call[w].n /\ c.at \notin {"queued", "send"}
    BY <2>3, GoesTo, StageNames
  <2> QED  BY <1>5, <2>2, <2>4, WriteMoves DEF Receipt
<1>6. CASE ReceiptTimeout(w)
  <2>1. Goto(w, "timeout") /\ cached' \in Int
    BY <1>6, NoneIsNumber DEF ReceiptTimeout
  <2>2. PICK c \in Calls : call' = [call EXCEPT ![w] = c] /\ c.n = call[w].n /\ c.at \notin {"queued", "send"}
    BY <2>1, GoesTo, StageNames
  <2> QED  BY <1>6, <2>1, <2>2, WriteMoves DEF ReceiptTimeout
<1>7. CASE PollFails(w)
  <2>1. Goto(w, "error") /\ cached' \in Int
    BY <1>7, NoneIsNumber DEF PollFails
  <2>2. PICK c \in Calls : call' = [call EXCEPT ![w] = c] /\ c.n = call[w].n /\ c.at \notin {"queued", "send"}
    BY <2>1, GoesTo, StageNames
  <2> QED  BY <1>7, <2>1, <2>2, WriteMoves DEF PollFails
<1>8. CASE BroadcastFails(w)
  <2>1. Goto(w, "error") /\ cached' \in Int /\ call[w].at = "send" /\ mined' = mined /\ used' = used
    BY <1>8, NoneIsNumber DEF BroadcastFails
  <2>2. PICK c \in Calls : call' = [call EXCEPT ![w] = c] /\ c.n = call[w].n /\ c.at = "error"
    BY <2>1, GoesTo, StageNames
  <2>3. call' \in [Writes -> Calls] /\ call'[w] = c /\ \A v \in Writes \ {w} : call'[v] = call[v]
    BY <2>2 DEF OnceInv
  <2>4. \A t \in mempool \cup mined : Waits(t) => Waits(t)'
    BY <2>1, <2>3 DEF Waits
  <2>10. PICK new : new = Copy(w)
    OBVIOUS
  <2>5. Waits(new)'
    BY <2>10, <2>2, <2>3 DEF Waits, Copy
  <2>6. mempool' = mempool \/ (mempool' = mempool \cup {new} /\ new.n >= used)
    BY <1>8, <2>10 DEF BroadcastFails, Copy
  <2>7. \A t \in mempool' : Waits(t)' /\ t.n >= used'
    BY <2>1, <2>4, <2>5, <2>6 DEF OnceInv
  <2>8. \A t \in mined' : Waits(t)' /\ t.n < used'
    BY <2>1, <2>4 DEF OnceInv
  <2>9. \A s, t \in mined' : s.w = t.w => s = t
    BY <2>1 DEF OnceInv
  <2> QED  BY <2>1, <2>3, <2>7, <2>8, <2>9 DEF OnceInv
<1> QED  BY <1>1, <1>2, <1>3, <1>4, <1>5, <1>6, <1>7, <1>8 DEF WriteStep

LEMMA ChainStepsKeep ==
  ASSUME OnceInv, MineTx \/ ForeignTx \/ Evict  PROVE OnceInv'
<1>0. /\ \A t \in mempool : t.n \in Int
      /\ used \in Int
  BY DEF OnceInv, Waits, Calls
<1>1. CASE MineTx
  <2>1. PICK t \in mempool, ok \in BOOLEAN :
          /\ t.n = used /\ used' = used + 1
          /\ mined' = mined \cup {[w |-> t.w, n |-> t.n, fee |-> t.fee, ok |-> ok]}
          /\ mempool' = {u \in mempool : u.n > used} /\ UNCHANGED <<cached, call>>
    BY <1>1 DEF MineTx
  <2> DEFINE m == [w |-> t.w, n |-> t.n, fee |-> t.fee, ok |-> ok]
  <2>2. m.w = t.w /\ m.n = t.n /\ mined' = mined \cup {m}
    BY <2>1
  <2> HIDE DEF m
  <2>3. \A s \in mined : s.w # m.w
    BY <2>1, <2>2, <1>0 DEF OnceInv, Waits
  <2>4. \A s : Waits(s)' <=> Waits(s)
    BY <2>1 DEF Waits
  <2>5. Waits(m) /\ m.n < used'
    BY <1>0, <2>1, <2>2 DEF OnceInv, Waits
  <2>6. \A s \in mined : s.n < used'
    BY <1>0, <2>1 DEF OnceInv, Waits, Calls
  <2>7. \A s \in mempool' : s \in mempool /\ s.n >= used'
    BY <1>0, <2>1
  <2> QED  BY <1>0, <2>1, <2>2, <2>3, <2>4, <2>5, <2>6, <2>7 DEF OnceInv
<1>2. CASE ForeignTx
  <2>1. used' = used + 1 /\ mempool' = {u \in mempool : u.n > used} /\ UNCHANGED <<mined, cached, call>>
    BY <1>2 DEF ForeignTx
  <2>2. \A s : Waits(s)' <=> Waits(s)
    BY <2>1 DEF Waits
  <2>3. \A s \in mined : s.n < used'
    BY <1>0, <2>1 DEF OnceInv, Waits, Calls
  <2>4. \A s \in mempool' : s \in mempool /\ s.n >= used'
    BY <1>0, <2>1
  <2> QED  BY <1>0, <2>1, <2>2, <2>3, <2>4 DEF OnceInv
<1>3. CASE Evict
  <2>1. mempool' \subseteq mempool /\ UNCHANGED <<used, mined, cached, call>>
    BY <1>3 DEF Evict
  <2>2. \A s : Waits(s)' <=> Waits(s)
    BY <2>1 DEF Waits
  <2> QED  BY <2>1, <2>2 DEF OnceInv
<1> QED  BY <1>1, <1>2, <1>3

LEMMA TxStepsKeep == PlainInv /\ [AgentTxNext]_txVars => PlainInv'
<1> SUFFICES ASSUME PlainInv, [AgentTxNext]_txVars, ~replacing'  PROVE OnceInv'
  BY DEF PlainInv
<1>1. replacing' = replacing
  BY Zenon DEF AgentTxNext, WriteStep, BeginWrite, Broadcast, Underpriced, NonceTooLow, Receipt, ReceiptTimeout,
     BroadcastFails, PollFails, MineTx, ForeignTx, Evict, txVars
<1>2. OnceInv /\ ~replacing
  BY <1>1 DEF PlainInv
<1>3. CASE UNCHANGED txVars
  BY <1>2, <1>3 DEF txVars, OnceInv, Waits
<1>4. CASE AgentTxNext
  BY <1>2, <1>4, WriteStepsKeep, ChainStepsKeep DEF AgentTxNext
<1> QED  BY <1>3, <1>4

(* A write of the transaction manager (txManager.ts) that is never         *)
(* resubmitted is mined at most once, for any number of writes, attempts,  *)
(* foreign transactions and failures, and whatever the nodes say of the    *)
(* nonce: a failed broadcast that went out all the same ends the write,    *)
(* and one that starts over has nothing out.                               *)
THEOREM PlainWritesGoOnce == AgentTxSpec => []PlainWritesAreMinedOnce
<1>1. AgentTxInit => PlainInv
  <2> SUFFICES ASSUME AgentTxInit  PROVE OnceInv
    BY DEF PlainInv
  <2>1. Fresh \in Calls
    <3> DEFINE stage == "queued"
               hashes == {}
    <3>1. Fresh = [at |-> stage, n |-> 0, fee |-> 1, sync |-> 1, hashes |-> hashes] /\ stage \in Stages
      BY DEF Fresh, Stages
    <3>2. hashes \in Fees
      BY NoFees
    <3> HIDE DEF stage, hashes
    <3> QED  BY <3>1, <3>2 DEF Calls
  <2>2. used = 0 /\ mempool = {} /\ mined = {} /\ cached = None /\ call = [w \in Writes |-> Fresh]
    BY DEF AgentTxInit
  <2> QED  BY <2>1, <2>2, NoneIsNumber DEF OnceInv
<1>2. PlainInv /\ [AgentTxNext]_txVars => PlainInv'
  BY TxStepsKeep
<1>3. PlainInv => PlainWritesAreMinedOnce
  <2> SUFFICES ASSUME OnceInv, NEW w \in Writes  PROVE Copies(w) <= 1
    BY DEF PlainInv, PlainWritesAreMinedOnce
  <2>1. CASE {t \in mined : t.w = w} = {}
    BY <2>1, FS_EmptySet DEF Copies
  <2>2. CASE {t \in mined : t.w = w} # {}
    <3>1. PICK s \in mined : s.w = w
      BY <2>2
    <3>2. {t \in mined : t.w = w} = {s}
      BY <3>1 DEF OnceInv
    <3>3. Cardinality({s}) = 1
      BY FS_Singleton
    <3> QED  BY <3>2, <3>3 DEF Copies
  <2> QED  BY <2>1, <2>2
<1> QED  BY <1>1, <1>2, <1>3, PTL DEF AgentTxSpec

-----------------------------------------------------------------------------
(***************************************************************************)
(* The event stream, when it does not start with the subgraph.             *)
(***************************************************************************)
Emitted == Events \cup {Quiet}
ChainBlocks == [ev : Emitted, fork : Nat]
EventKeys == [ev : Emitted, sub : BOOLEAN]
Cursors == [last : Nat, hash : Int, keys : Seq(EventKeys)]
Hands == {h \in [at : {"idle", "time", "hash"}, ev : Emitted, block : Nat] :
            h.at # "idle" => h.block # 0}
Unhandled == {n \in 1..Len(chain) : chain[n].ev \in Events \ dropped /\ seen[chain[n].ev] = 0}
Marks == {saved.last, cursor.last} \cup {hand[w].block : w \in Watchers}

(* A stream without the subgraph: what is where.                           *)
StreamTypes ==
  /\ chain \in Seq(ChainBlocks) /\ forks \in 0..MaxForks
  /\ saved \in Cursors /\ cursor \in Cursors
  /\ pos \in [Watchers -> Nat \ {0}] /\ hand \in [Watchers -> Hands]
  /\ seen \in [Events -> Nat]
(* What was handled once is in the cursor, and where the agent is down in  *)
(* its file.                                                               *)
HandledInv ==
  /\ Len(saved.keys) <= MAXKEYS /\ Len(cursor.keys) <= MAXKEYS
  /\ \A e \in Events \ excused :
       /\ seen[e] <= 1
       /\ seen[e] = 1 => IF up THEN Handled(cursor, Key(e)) ELSE Handled(saved, Key(e))
(* No checkpoint is further than the chain was before its forks, and none  *)
(* is further from what is still to be handled than two rewinds.           *)
FollowInv ==
  /\ \A m \in Marks : m <= Len(chain) + forks * MAXDEPTH
  /\ \A n \in Unhandled : n >= Len(chain) - REWIND /\ \A m \in Marks : n >= m - 2 * REWIND
StreamInv == ~backfill => StreamTypes /\ HandledInv /\ FollowInv

ForksAreShallow == MaxForks * MAXDEPTH <= 2 * REWIND + 1

LEMMA StreamBounds ==
  /\ REWIND \in Nat \ {0} /\ MAXKEYS \in Nat \ {0} /\ MAXDEPTH \in 1..2 * REWIND + 1 /\ MaxForks \in Nat
  /\ Backfills \subseteq BOOLEAN
BY AgentEventsAssumption DEF AgentEventsAssumption

(* The ring of keys keeps a new key and forgets none but the oldest.       *)
LEMMA RingKeeps ==
  ASSUME NEW S, NEW keys \in Seq(S), NEW key \in S, Len(keys) <= MAXKEYS
  PROVE  /\ LastOf(Append(keys, key)) \in Seq(S)
         /\ Len(LastOf(Append(keys, key))) <= MAXKEYS
         /\ key \in ToSet(LastOf(Append(keys, key)))
         /\ \A k \in ToSet(keys) : \/ k \in ToSet(LastOf(Append(keys, key)))
                                   \/ (Len(keys) >= MAXKEYS /\ k = Head(keys))
<1> DEFINE all == Append(keys, key)
           from == Later(1, Len(all) - MAXKEYS + 1)
           ring == SubSeq(all, from, Len(all))
<1>1. all \in Seq(S) /\ Len(all) = Len(keys) + 1 /\ all[Len(all)] = key
      /\ \A i \in 1..Len(keys) : all[i] = keys[i]
  OBVIOUS
<1>2. from \in 1..2 /\ from <= Len(all) /\ (from = 2 => Len(keys) = MAXKEYS) /\ Len(all) - from + 1 <= MAXKEYS
      /\ MAXKEYS \in Nat /\ Len(all) \in Nat
  BY <1>1, StreamBounds DEF Later
<1> HIDE DEF all, from
<1>3. /\ ring \in Seq(S) /\ Len(ring) = Len(all) - from + 1
      /\ \A i \in 1..Len(ring) : ring[i] = all[from + i - 1]
  BY <1>1, <1>2
<1>4. Len(ring) <= MAXKEYS
  BY <1>2, <1>3
<1>5. key \in ToSet(ring)
  <2>1. Len(ring) \in 1..Len(ring) /\ ring[Len(ring)] = key
    BY <1>1, <1>2, <1>3
  <2> QED  BY <2>1, <1>3 DEF ToSet
<1>6. ASSUME NEW k \in ToSet(keys)  PROVE k \in ToSet(ring) \/ (Len(keys) >= MAXKEYS /\ k = Head(keys))
  <2>1. PICK i \in 1..Len(keys) : k = keys[i]
    BY <1>6 DEF ToSet
  <2>2. CASE i >= from
    <3>1. i - from + 1 \in 1..Len(ring) /\ ring[i - from + 1] = k
      BY <2>1, <2>2, <1>1, <1>2, <1>3
    <3> QED  BY <3>1, <1>3 DEF ToSet
  <2>3. CASE i < from
    BY <2>1, <2>3, <1>2
  <2> QED  BY <2>2, <2>3, <1>2
<1>7. LastOf(Append(keys, key)) = ring
  BY DEF LastOf, all, from
<1> QED  BY <1>3, <1>4, <1>5, <1>6, <1>7

LEMMA RecordedKeeps ==
  ASSUME NEW c \in Cursors, NEW key \in EventKeys, NEW block \in Nat, Len(c.keys) <= MAXKEYS
  PROVE  /\ Recorded(c, key, block) \in Cursors
         /\ Recorded(c, key, block).last \in {c.last, block}
         /\ Len(Recorded(c, key, block).keys) <= MAXKEYS
         /\ Handled(Recorded(c, key, block), key)
         /\ \A k \in EventKeys : Handled(c, k) => Handled(Recorded(c, key, block), k) \/ k.ev \in CutOff(c)
<1>1. c.keys \in Seq(EventKeys) /\ Len(c.keys) \in Nat /\ c.last \in Nat
  BY DEF Cursors
<1>2. /\ LastOf(Append(c.keys, key)) \in Seq(EventKeys)
      /\ Len(LastOf(Append(c.keys, key))) <= MAXKEYS
      /\ key \in ToSet(LastOf(Append(c.keys, key)))
      /\ \A k \in ToSet(c.keys) : \/ k \in ToSet(LastOf(Append(c.keys, key)))
                                  \/ (Len(c.keys) >= MAXKEYS /\ k = Head(c.keys))
  BY <1>1, RingKeeps
<1>3. /\ Recorded(c, key, block).keys = LastOf(Append(c.keys, key))
      /\ Recorded(c, key, block).last = Later(c.last, block)
      /\ Recorded(c, key, block).hash = c.hash
      /\ Recorded(c, key, block) \in [last : Nat, hash : Int, keys : Seq(EventKeys)]
  BY <1>1, <1>2 DEF Recorded, Cursors, Later
<1>4. \A k \in EventKeys : Handled(c, k) => Handled(Recorded(c, key, block), k) \/ k.ev \in CutOff(c)
  BY <1>1, <1>2, <1>3, StreamBounds DEF Handled, CutOff
<1> QED  BY <1>1, <1>2, <1>3, <1>4 DEF Handled, Later, Cursors

LEMMA Shallow ==
  ASSUME ForksAreShallow, forks \in 0..MaxForks
  PROVE  forks * MAXDEPTH \in 0..2 * REWIND + 1 /\ (forks + 1) * MAXDEPTH = forks * MAXDEPTH + MAXDEPTH
<1> DEFINE left == MaxForks - forks
<1>1. left \in Nat /\ forks \in Nat /\ MAXDEPTH \in Nat /\ MaxForks = forks + left /\ REWIND \in Nat
  BY StreamBounds
<1> HIDE DEF left
<1>2. (forks + left) * MAXDEPTH = forks * MAXDEPTH + left * MAXDEPTH
      /\ forks * MAXDEPTH \in Nat /\ left * MAXDEPTH \in Nat
      /\ (forks + 1) * MAXDEPTH = forks * MAXDEPTH + MAXDEPTH
  BY <1>1
<1>3. (forks + left) * MAXDEPTH <= 2 * REWIND + 1
  BY <1>1 DEF ForksAreShallow
<1> DEFINE a == forks * MAXDEPTH
           b == left * MAXDEPTH
           t == (forks + left) * MAXDEPTH
<1>4. a \in Nat /\ b \in Nat /\ t = a + b /\ t <= 2 * REWIND + 1
  BY <1>2, <1>3
<1> HIDE DEF a, b, t
<1>5. a \in 0..2 * REWIND + 1
  BY <1>4, <1>1
<1> QED  BY <1>5, <1>2 DEF a

LEMMA StreamBegins == EventsInit => StreamInv
<1> SUFFICES ASSUME EventsInit, ~backfill  PROVE StreamTypes /\ HandledInv /\ FollowInv
  BY DEF StreamInv
<1>1. StreamTypes
  BY StreamBounds
     DEF EventsInit, StreamTypes, NoCursor, NoLast, NoHash, Cursors, Hands, FreeHand, Emitted
<1>2. HandledInv
  BY StreamBounds DEF EventsInit, HandledInv, NoCursor
<1>3. FollowInv
  <2>1. Unhandled = {} /\ Len(chain) = 0 /\ forks * MAXDEPTH = 0
    BY StreamBounds DEF EventsInit, Unhandled
  <2>2. \A m \in Marks : m = 0
    BY DEF EventsInit, Marks, NoCursor, NoLast, FreeHand
  <2> QED  BY <2>1, <2>2 DEF FollowInv
<1> QED  BY <1>1, <1>2, <1>3

(* What the steps leave of the chain, the cursors and the handlers.        *)
LEMMA FollowsOn ==
  ASSUME FollowInv, Unhandled' \subseteq Unhandled, Len(chain)' = Len(chain), UNCHANGED forks,
         \A m \in Marks' : \/ m \in Marks
                            \/ m \in 0..Len(chain)
                            \/ \E l \in Marks \cap Nat : m <= l,
         Len(chain) \in Nat, forks * MAXDEPTH \in Nat,
         \A m \in Marks' : m \in Nat, \A m \in Marks : m \in Nat
  PROVE  FollowInv'
<1>1. REWIND \in Nat
  BY StreamBounds
<1> DEFINE deep == forks * MAXDEPTH
<1>2. (forks * MAXDEPTH)' = deep /\ deep \in Nat
  OBVIOUS
<1>3. \A m \in Marks : m <= Len(chain) + deep
  BY DEF FollowInv
<1>4. \A n \in Unhandled : n \in Nat /\ n >= Len(chain) - REWIND /\ \A m \in Marks : n >= m - 2 * REWIND
  BY DEF FollowInv, Unhandled
<1> HIDE DEF deep
<1>5. \A m \in Marks' : m <= Len(chain) + deep /\ \A n \in Unhandled : n >= m - 2 * REWIND
  BY <1>1, <1>2, <1>3, <1>4
<1> QED  BY <1>1, <1>2, <1>4, <1>5 DEF FollowInv

LEMMA StartKeeps ==
  ASSUME ForksAreShallow, StreamTypes, HandledInv, FollowInv, ~backfill, StartStream
  PROVE  StreamTypes' /\ HandledInv' /\ FollowInv'
<1> DEFINE c == Validated(saved)
<1>1. c \in Cursors /\ Len(c.keys) <= MAXKEYS /\ c.last <= saved.last
      /\ (~Mismatch(saved) => c = saved)
  <2>1. saved \in Cursors /\ saved.last \in Nat /\ Len(saved.keys) <= MAXKEYS
    BY DEF StreamTypes, HandledInv, Cursors
  <2>2. CASE Mismatch(saved)
    <3>1. saved.last # 0 /\ c = [last |-> Later(1, saved.last - REWIND), hash |-> NoHash, keys |-> <<>>]
      BY <2>2 DEF Validated, Mismatch, NoLast
    <3>2. Later(1, saved.last - REWIND) \in Nat /\ Later(1, saved.last - REWIND) <= saved.last /\ NoHash \in Int
      BY <2>1, <3>1, StreamBounds DEF Later, NoHash
    <3>3. <<>> \in Seq(EventKeys) /\ Len(<<>>) = 0
      OBVIOUS
    <3>4. c \in Cursors /\ c.last = Later(1, saved.last - REWIND) /\ c.keys = <<>>
      BY <3>1, <3>2, <3>3 DEF Cursors
    <3> QED  BY <2>2, <3>2, <3>3, <3>4, StreamBounds
  <2>3. CASE ~Mismatch(saved)
    BY <2>1, <2>3 DEF Validated
  <2> QED  BY <2>2, <2>3
<1>2. FromBackfill(c) = {} /\ WithBackfill(c) = c
  BY DEF StartStream, FromBackfill, WithBackfill
<1>3. /\ cursor' = c /\ saved' = c /\ up'
      /\ pos' = [w \in Watchers |-> Later(1, StartBlock(c))]
      /\ excused' = IF Mismatch(saved) THEN excused \cup {k.ev : k \in ToSet(saved.keys)} ELSE excused
      /\ seen' = [e \in Events |-> seen[e] + IF e \in FromBackfill(c) THEN 1 ELSE 0]
      /\ dropped \subseteq dropped' /\ hand' = [w \in Watchers |-> FreeHand]
      /\ UNCHANGED <<chain, forks>>
  BY <1>1, <1>2 DEF StartStream
<1> HIDE DEF c
<1>4. seen' = seen
  BY <1>2, <1>3 DEF StreamTypes
<1>5. StreamTypes'
  <2>1. Later(1, StartBlock(c)) \in Nat \ {0}
    <3>1. c.last \in Nat /\ Len(chain) \in Nat
      BY <1>1 DEF Cursors, StreamTypes
    <3>2. StartBlock(c) \in Int
      BY <3>1, StreamBounds DEF StartBlock
    <3> QED  BY <3>2 DEF Later
  <2>2. FreeHand \in Hands
    BY DEF FreeHand, Hands, Emitted
  <2> QED  BY <1>1, <1>3, <1>4, <2>1, <2>2 DEF StreamTypes
<1>6. HandledInv'
  <2>1. ASSUME NEW e \in Events \ excused'  PROVE e \in Events \ excused /\ (Handled(saved, Key(e)) => Handled(c, Key(e)))
    <3>1. CASE Mismatch(saved)
      <4>1. Key(e) \notin ToSet(saved.keys)
        BY <1>3, <3>1, <2>1 DEF Key
      <4> QED  BY <4>1, <1>3, <3>1, <2>1 DEF Handled
    <3>2. CASE ~Mismatch(saved)
      BY <1>1, <1>3, <3>2, <2>1
    <3> QED  BY <3>1, <3>2
  <2>2. ~up
    BY DEF StartStream
  <2> QED  BY <1>1, <1>3, <1>4, <2>1, <2>2 DEF HandledInv, Handled
<1>7. FollowInv'
  <2>1. Unhandled' \subseteq Unhandled
    BY <1>3, <1>4 DEF Unhandled
  <2>2. \A m \in Marks' : m \in {0, c.last}
    BY <1>3 DEF Marks, FreeHand
  <2>3. saved.last \in Marks /\ saved.last \in Nat /\ c.last \in Nat /\ \A m \in Marks : m \in Nat
    BY <1>1 DEF Marks, StreamTypes, Cursors, Hands
  <2>4. Len(chain) \in Nat /\ forks * MAXDEPTH \in Nat
    BY Shallow DEF StreamTypes
  <2>5. \A m \in Marks' : m \in Nat /\ (m \in 0..Len(chain) \/ \E l \in Marks \cap Nat : m <= l)
    BY <2>2, <2>3, <2>4, <1>1
  <2> QED  BY <1>3, <2>1, <2>3, <2>4, <2>5, FollowsOn
<1> QED  BY <1>5, <1>6, <1>7

LEMMA HandlersKeep ==
  ASSUME ForksAreShallow, StreamTypes, HandledInv, FollowInv, NEW w \in Watchers,
         StreamStep(w) \/ TimestampFails(w)
  PROVE  StreamTypes' /\ HandledInv' /\ FollowInv'
<1>1. hand[w] \in Hands /\ hand[w].block \in Marks /\ FreeHand \in Hands /\ FreeHand.block = 0
  BY DEF StreamTypes, Marks, FreeHand, Hands, Emitted
<1>2. Len(chain) \in Nat /\ forks * MAXDEPTH \in Nat /\ \A m \in Marks : m \in Nat
  BY Shallow DEF StreamTypes, Marks, Cursors, Hands
<1>3. CASE NextLog(w)
  <2>1. pos[w] \in 1..Len(chain) /\ chain[pos[w]].ev \in Emitted /\ pos' = [pos EXCEPT ![w] = @ + 1]
        /\ UNCHANGED <<chain, saved, cursor, up, seen, excused, dropped, forks>>
        /\ (\/ hand' = [hand EXCEPT ![w] = [at |-> "time", ev |-> chain[pos[w]].ev, block |-> pos[w]]]
            \/ hand' = hand)
    <3>1. pos[w] \in Nat \ {0} /\ pos[w] <= Len(chain) /\ chain \in Seq(ChainBlocks)
      BY <1>3 DEF NextLog, StreamTypes
    <3>2. pos[w] \in 1..Len(chain) /\ chain[pos[w]].ev \in Emitted
      <4>1. pos[w] \in 1..Len(chain) /\ chain[pos[w]] \in ChainBlocks
        BY <1>2, <3>1
      <4> QED  BY <4>1 DEF ChainBlocks
    <3> QED  BY <1>3, <3>2 DEF NextLog
  <2>2. StreamTypes'
    <3>1. [at |-> "time", ev |-> chain[pos[w]].ev, block |-> pos[w]] \in Hands
      BY <2>1 DEF Hands
    <3>2. pos' \in [Watchers -> Nat \ {0}]
      BY <2>1 DEF StreamTypes
    <3>3. hand' \in [Watchers -> Hands]
      BY <2>1, <3>1 DEF StreamTypes
    <3> QED  BY <2>1, <3>2, <3>3 DEF StreamTypes
  <2>3. HandledInv'
    BY <2>1 DEF HandledInv, Handled
  <2>4. FollowInv'
    <3>1. Unhandled' \subseteq Unhandled
      BY <2>1 DEF Unhandled
    <3>2. \A m \in Marks' : m \in Marks \/ m = pos[w]
      BY <2>1 DEF Marks, StreamTypes
    <3> QED  BY <1>2, <2>1, <3>1, <3>2, FollowsOn
  <2> QED  BY <2>2, <2>3, <2>4
<1>4. CASE HandleEvent(w)
  <2> DEFINE e == hand[w].ev
             c == Recorded(cursor, Key(e), hand[w].block)
  <2>1. Key(e) \in EventKeys /\ hand[w].block \in Nat
    BY <1>1 DEF Key, EventKeys, Hands
  <2>2. /\ c \in Cursors /\ c.last \in {cursor.last, hand[w].block} /\ Len(c.keys) <= MAXKEYS
        /\ Handled(c, Key(e))
        /\ \A k \in EventKeys : Handled(cursor, k) => Handled(c, k) \/ k.ev \in CutOff(cursor)
    BY <2>1, RecordedKeeps DEF StreamTypes, HandledInv
  <2>3. CASE Handled(cursor, Key(e))
    <3>1. hand' = [hand EXCEPT ![w] = FreeHand]
          /\ UNCHANGED <<backfill, chain, saved, cursor, up, pos, seen, excused, dropped, forks>>
      BY <1>4, <2>3 DEF HandleEvent
    <3>2. StreamTypes' /\ HandledInv'
      BY <1>1, <3>1 DEF StreamTypes, HandledInv, Handled
    <3>3. Unhandled' \subseteq Unhandled /\ \A m \in Marks' : m \in Marks \/ m = 0
      BY <1>1, <3>1 DEF Unhandled, Marks, StreamTypes
    <3>4. FollowInv'
      BY <1>2, <3>1, <3>3, FollowsOn
    <3> QED  BY <3>2, <3>4
  <2>4. CASE ~Handled(cursor, Key(e))
    <3>1. /\ up /\ cursor' = c /\ seen' = [seen EXCEPT ![e] = @ + 1]
          /\ excused' = excused \cup CutOff(cursor) /\ saved' \in {saved, c}
          /\ hand' \in {[hand EXCEPT ![w].at = "hash"], [hand EXCEPT ![w] = FreeHand]}
          /\ UNCHANGED <<chain, up, pos, dropped, forks>>
      BY <1>4, <2>4 DEF HandleEvent
    <3> HIDE DEF c
    <3>2. StreamTypes'
      <4>1. seen' \in [Events -> Nat]
        <5>1. seen \in [Events -> Nat]
          BY DEF StreamTypes
        <5>2. \A f \in Events : seen[f] + 1 \in Nat
          BY <5>1
        <5> QED  BY <3>1, <5>1, <5>2
      <4>2. hand' \in [Watchers -> Hands]
        <5>1. hand \in [Watchers -> Hands] /\ [hand[w] EXCEPT !.at = "hash"] \in Hands
          BY <1>1, <1>4 DEF StreamTypes, Hands, HandleEvent
        <5> QED  BY <3>1, <1>1, <5>1
      <4> QED  BY <3>1, <2>2, <4>1, <4>2 DEF StreamTypes
    <3>3. HandledInv'
      <4>1. ASSUME NEW f \in Events \ excused'
            PROVE  seen'[f] <= 1 /\ (seen'[f] = 1 => Handled(cursor', Key(f)))
        <5>1. f \notin excused /\ f \notin CutOff(cursor) /\ Key(f) \in EventKeys /\ Key(f).ev = f
          BY <3>1, <4>1 DEF Key, EventKeys, Emitted
        <5>2. seen[f] \in Nat /\ seen[f] <= 1 /\ (seen[f] = 1 => Handled(cursor, Key(f)))
          BY <3>1, <5>1 DEF HandledInv, StreamTypes
        <5>3. CASE f = e
          BY <2>2, <2>4, <3>1, <5>2, <5>3 DEF StreamTypes
        <5>4. CASE f # e
          BY <2>2, <3>1, <5>1, <5>2, <5>4 DEF StreamTypes
        <5> QED  BY <5>3, <5>4
      <4> QED  BY <2>2, <3>1, <4>1 DEF HandledInv, Handled
    <3>4. FollowInv'
      <4>1. Unhandled' \subseteq Unhandled
        BY <3>1 DEF Unhandled, StreamTypes
      <4>2. \A m \in Marks' : m \in Marks \/ m = 0
        <5>1. hand \in [Watchers -> Hands] /\ [hand[w] EXCEPT !.at = "hash"].block = hand[w].block
          BY <1>1 DEF StreamTypes, Hands
        <5>2. \A v \in Watchers : hand'[v].block \in {hand[v].block, 0}
          BY <1>1, <3>1, <5>1
        <5> QED  BY <1>1, <2>2, <3>1, <5>2 DEF Marks
      <4> QED  BY <1>2, <3>1, <4>1, <4>2, FollowsOn
    <3> QED  BY <3>2, <3>3, <3>4
  <2> QED  BY <2>3, <2>4
<1>5. CASE SaveCursor(w)
  <2>1. /\ cursor' \in Cursors /\ cursor'.last = cursor.last /\ cursor'.keys = cursor.keys
        /\ saved' = cursor' /\ up /\ hand' = [hand EXCEPT ![w] = FreeHand]
        /\ UNCHANGED <<chain, up, pos, seen, excused, dropped, forks>>
    <3>1. /\ hand[w].block \in Nat /\ chain \in Seq(ChainBlocks) /\ cursor \in Cursors
          /\ hand[w].block # 0
      BY <1>1, <1>5 DEF StreamTypes, Hands, SaveCursor
    <3>2. cursor' = cursor \/ (hand[w].block <= Len(chain) /\ cursor' = [cursor EXCEPT !.hash = chain[hand[w].block].fork])
      BY <1>5 DEF SaveCursor
    <3>3. CASE hand[w].block <= Len(chain) /\ cursor' = [cursor EXCEPT !.hash = chain[hand[w].block].fork]
      <4>1. chain[hand[w].block] \in ChainBlocks
        BY <3>1, <3>3
      <4>2. chain[hand[w].block].fork \in Int
        BY <4>1 DEF ChainBlocks
      <4>3. cursor' \in Cursors /\ cursor'.last = cursor.last /\ cursor'.keys = cursor.keys
        BY <3>1, <3>3, <4>2 DEF Cursors
      <4> QED  BY <1>5, <4>3 DEF SaveCursor
    <3>4. CASE cursor' = cursor
      BY <1>5, <3>1, <3>4 DEF SaveCursor
    <3> QED  BY <3>2, <3>3, <3>4
  <2>2. StreamTypes'
    BY <1>1, <2>1 DEF StreamTypes
  <2>3. HandledInv'
    BY <2>1 DEF HandledInv, Handled
  <2>4. FollowInv'
    <3>1. Unhandled' \subseteq Unhandled /\ \A m \in Marks' : m \in Marks \/ m = 0
      BY <1>1, <2>1 DEF Unhandled, Marks, StreamTypes
    <3> QED  BY <1>2, <2>1, <3>1, FollowsOn
  <2> QED  BY <2>2, <2>3, <2>4
<1>6. CASE TimestampFails(w)
  <2>1. /\ dropped' = dropped \cup {hand[w].ev} /\ hand' = [hand EXCEPT ![w] = FreeHand]
        /\ UNCHANGED <<chain, saved, cursor, up, pos, seen, excused, forks>>
    BY <1>6 DEF TimestampFails
  <2>2. StreamTypes' /\ HandledInv'
    BY <1>1, <2>1 DEF StreamTypes, HandledInv, Handled
  <2>3. Unhandled' \subseteq Unhandled /\ \A m \in Marks' : m \in Marks \/ m = 0
    BY <1>1, <2>1 DEF Unhandled, Marks, StreamTypes
  <2>4. FollowInv'
    BY <1>2, <2>1, <2>3, FollowsOn
  <2> QED  BY <2>2, <2>4
<1> QED  BY <1>3, <1>4, <1>5, <1>6 DEF StreamStep

LEMMA EndKeeps ==
  ASSUME ForksAreShallow, StreamTypes, HandledInv, FollowInv, AgentEnds
  PROVE  StreamTypes' /\ HandledInv' /\ FollowInv'
<1>1. /\ up /\ ~up' /\ cursor' = NoCursor /\ hand' = [w \in Watchers |-> FreeHand]
      /\ excused' = excused \cup {k.ev : k \in ToSet(cursor.keys) \ ToSet(saved.keys)}
      /\ UNCHANGED <<chain, saved, pos, seen, dropped, forks>>
  BY DEF AgentEnds
<1>2. NoCursor \in Cursors /\ NoCursor.last = 0 /\ Len(NoCursor.keys) = 0 /\ FreeHand \in Hands /\ FreeHand.block = 0
  BY DEF NoCursor, Cursors, NoLast, NoHash, FreeHand, Hands, Emitted
<1>3. StreamTypes'
  BY <1>1, <1>2 DEF StreamTypes
<1>4. HandledInv'
  <2>1. ASSUME NEW e \in Events \ excused'
        PROVE  e \notin excused /\ (Handled(cursor, Key(e)) => Handled(saved, Key(e)))
    <3>1. Key(e).ev = e
      BY DEF Key
    <3> QED  BY <1>1, <2>1, <3>1 DEF Handled
  <2> QED  BY <1>1, <1>2, <2>1, StreamBounds DEF HandledInv, Handled
<1>5. FollowInv'
  <2>1. Len(chain) \in Nat /\ forks * MAXDEPTH \in Nat /\ \A m \in Marks : m \in Nat
    BY Shallow DEF StreamTypes, Marks, Cursors, Hands
  <2>2. Unhandled' \subseteq Unhandled /\ \A m \in Marks' : m \in Marks \/ m = 0
    BY <1>1, <1>2 DEF Unhandled, Marks
  <2> QED  BY <1>1, <2>1, <2>2, FollowsOn
<1> QED  BY <1>3, <1>4, <1>5

(* A new block: what is still to be handled is recent, and no checkpoint   *)
(* is further ahead than the forks were deep.                              *)
LEMMA BlockKeeps ==
  ASSUME ForksAreShallow, StreamTypes, HandledInv, FollowInv, StreamBlock
  PROVE  StreamTypes' /\ HandledInv' /\ FollowInv'
<1>1. PICK e \in Emitted : chain' = Append(chain, [ev |-> e, fork |-> forks])
  BY DEF StreamBlock, Emitted
<1>2. KeepsUp /\ UNCHANGED <<saved, cursor, up, pos, hand, seen, excused, dropped, forks>>
  BY DEF StreamBlock
<1>3. /\ chain' \in Seq(ChainBlocks) /\ Len(chain') = Len(chain) + 1 /\ Len(chain) \in Nat
      /\ \A n \in 1..Len(chain) : chain'[n] = chain[n]
  <2>1. chain \in Seq(ChainBlocks) /\ [ev |-> e, fork |-> forks] \in ChainBlocks
    BY StreamBounds DEF StreamTypes, ChainBlocks
  <2> QED  BY <1>1, <2>1
<1>4. StreamTypes' /\ HandledInv'
  BY <1>2, <1>3 DEF StreamTypes, HandledInv, Handled
<1>5. FollowInv'
  <2>1. /\ forks * MAXDEPTH \in 0..2 * REWIND + 1 /\ REWIND \in Nat \ {0}
        /\ \A m \in Marks : m \in Nat /\ m <= Len(chain) + forks * MAXDEPTH
    BY Shallow, StreamBounds DEF StreamTypes, Marks, Cursors, Hands, FollowInv
  <2>2. Marks' = Marks /\ (forks * MAXDEPTH)' = forks * MAXDEPTH
    BY <1>2 DEF Marks
  <2> DEFINE deep == forks * MAXDEPTH
  <2>3. deep \in 0..2 * REWIND + 1 /\ \A m \in Marks : m \in Nat /\ m <= Len(chain) + deep
    BY <2>1
  <2>4. (forks * MAXDEPTH)' = deep
    BY <2>2
  <2> HIDE DEF deep
  <2>5. ASSUME NEW n \in Unhandled'
        PROVE  n >= Len(chain)' - REWIND /\ \A m \in Marks : n >= m - 2 * REWIND
    <3>1. n \in 1..Len(chain) + 1 /\ chain'[n].ev \in Events \ dropped /\ seen[chain'[n].ev] = 0
      BY <1>2, <1>3, <2>5 DEF Unhandled
    <3>2. CASE n <= Len(chain)
      <4>1. n \in Unhandled /\ n > Len(chain) - REWIND
        BY <1>2, <1>3, <3>1, <3>2 DEF Unhandled, KeepsUp
      <4>2. \A m \in Marks : n >= m - 2 * REWIND
        BY <4>1 DEF FollowInv
      <4> QED  BY <4>1, <4>2, <3>1, <1>3, <2>1
    <3>3. CASE n = Len(chain) + 1
      BY <3>3, <1>3, <2>1, <2>3
    <3> QED  BY <3>1, <3>2, <3>3, <1>3
  <2>6. \A m \in Marks' : m <= Len(chain)' + (forks * MAXDEPTH)'
    BY <2>2, <2>3, <2>4, <1>3, <2>1
  <2> QED  BY <2>2, <2>5, <2>6 DEF FollowInv
<1> QED  BY <1>4, <1>5

LEMMA ReorgKeeps ==
  ASSUME ForksAreShallow, StreamTypes, HandledInv, FollowInv, ChainReorg
  PROVE  StreamTypes' /\ HandledInv' /\ FollowInv'
<1>1. PICK k \in 1..MAXDEPTH :
        /\ k <= Len(chain) /\ chain' = SubSeq(chain, 1, Len(chain) - k)
        /\ pos' = [w \in Watchers |-> Sooner(pos[w], Len(chain) - k + 1)]
  BY DEF ChainReorg
<1>2. forks' = forks + 1 /\ forks < MaxForks /\ UNCHANGED <<saved, cursor, up, hand, seen, excused, dropped>>
  BY DEF ChainReorg
<1>3. /\ chain' \in Seq(ChainBlocks) /\ Len(chain') = Len(chain) - k /\ Len(chain) \in Nat
      /\ \A n \in 1..Len(chain') : n \in 1..Len(chain) /\ chain'[n] = chain[n]
  <2>1. chain \in Seq(ChainBlocks) /\ Len(chain) \in Nat /\ Len(chain) - k \in 0..Len(chain)
    BY <1>1, StreamBounds DEF StreamTypes
  <2>2. SubSeq(chain, 1, Len(chain) - k) \in Seq(ChainBlocks) /\ Len(SubSeq(chain, 1, Len(chain) - k)) = Len(chain) - k
    BY <2>1
  <2>3. \A n \in 1..Len(chain) - k : n \in 1..Len(chain) /\ SubSeq(chain, 1, Len(chain) - k)[n] = chain[n]
    BY <2>1
  <2> QED  BY <1>1, <2>1, <2>2, <2>3
<1>4. StreamTypes'
  <2>1. \A w \in Watchers : Sooner(pos[w], Len(chain) - k + 1) \in Nat \ {0}
    <3>1. \A w \in Watchers : pos[w] \in Nat \ {0}
      BY DEF StreamTypes
    <3>2. Len(chain) - k + 1 \in Nat \ {0}
      BY <1>1, <1>3, StreamBounds
    <3> QED  BY <3>1, <3>2 DEF Sooner
  <2>2. forks' \in 0..MaxForks
    BY <1>2, StreamBounds DEF StreamTypes
  <2> QED  BY <1>1, <1>2, <1>3, <2>1, <2>2 DEF StreamTypes
<1>5. HandledInv'
  BY <1>2 DEF HandledInv, Handled
<1>6. FollowInv'
  <2>1. /\ forks * MAXDEPTH \in 0..2 * REWIND + 1 /\ (forks + 1) * MAXDEPTH = forks * MAXDEPTH + MAXDEPTH
        /\ REWIND \in Nat /\ MAXDEPTH \in Nat
        /\ \A m \in Marks : m \in Nat /\ m <= Len(chain) + forks * MAXDEPTH
    BY Shallow, StreamBounds DEF StreamTypes, Marks, Cursors, Hands, FollowInv
  <2>2. Marks' = Marks /\ (forks * MAXDEPTH)' = forks * MAXDEPTH + MAXDEPTH
    BY <1>2, <2>1 DEF Marks
  <2>3. Unhandled' \subseteq Unhandled
    BY <1>2, <1>3 DEF Unhandled
  <2> DEFINE deep == forks * MAXDEPTH
  <2>4. deep \in Nat /\ (forks * MAXDEPTH)' = deep + MAXDEPTH /\ \A m \in Marks : m <= Len(chain) + deep
    BY <2>1, <2>2
  <2> HIDE DEF deep
  <2>5. \A m \in Marks' : m <= Len(chain)' + (forks * MAXDEPTH)'
    BY <1>1, <1>3, <2>1, <2>2, <2>4
  <2>6. \A n \in Unhandled' : n >= Len(chain)' - REWIND /\ \A m \in Marks' : n >= m - 2 * REWIND
    <3>1. \A n \in Unhandled : n \in Nat /\ n >= Len(chain) - REWIND /\ \A m \in Marks : n >= m - 2 * REWIND
      BY DEF FollowInv, Unhandled
    <3> QED  BY <1>1, <1>3, <2>1, <2>2, <2>3, <3>1
  <2> QED  BY <2>5, <2>6 DEF FollowInv
<1> QED  BY <1>4, <1>5, <1>6

LEMMA StreamStepsKeep ==
  ASSUME ForksAreShallow, StreamInv, [EventsNext]_eventVars
  PROVE  StreamInv'
<1> SUFFICES ASSUME ~backfill'  PROVE StreamTypes' /\ HandledInv' /\ FollowInv'
  BY DEF StreamInv
<1>1. UNCHANGED backfill
  BY DEF EventsNext, eventVars, StartStream, AgentEnds, StreamBlock, ChainReorg, StreamStep, NextLog,
         HandleEvent, SaveCursor, TimestampFails
<1>2. ~backfill /\ StreamTypes /\ HandledInv /\ FollowInv
  BY <1>1 DEF StreamInv
<1>3. CASE StartStream
  BY <1>2, <1>3, StartKeeps
<1>4. CASE AgentEnds
  BY <1>2, <1>4, EndKeeps
<1>5. CASE StreamBlock
  BY <1>2, <1>5, BlockKeeps
<1>6. CASE ChainReorg
  BY <1>2, <1>6, ReorgKeeps
<1>7. ASSUME NEW w \in Watchers, StreamStep(w) \/ TimestampFails(w)
      PROVE  StreamTypes' /\ HandledInv' /\ FollowInv'
  BY <1>2, <1>7, HandlersKeep
<1>8. CASE UNCHANGED eventVars
  BY <1>2, <1>8 DEF eventVars, StreamTypes, HandledInv, Handled, FollowInv, Unhandled, Marks
<1> QED  BY <1>3, <1>4, <1>5, <1>6, <1>7, <1>8 DEF EventsNext

LEMMA StartsInTime ==
  ASSUME StreamInv, StartStream, saved.last # NoLast, saved.hash # NoHash, ~backfill,
         NEW n \in Unhandled, NEW w \in Watchers
  PROVE  pos'[w] <= n
<1>1. /\ saved.last \in Nat \ {0} /\ REWIND \in Nat \ {0} /\ n \in 1..Len(chain) /\ Len(chain) \in Nat
      /\ n >= Len(chain) - REWIND /\ n >= saved.last - 2 * REWIND
  <2>1. saved \in Cursors /\ chain \in Seq(ChainBlocks) /\ FollowInv /\ saved.last \in Marks
    BY DEF StreamInv, StreamTypes, Marks
  <2>2. n \in 1..Len(chain) /\ n >= Len(chain) - REWIND /\ n >= saved.last - 2 * REWIND
    BY <2>1 DEF FollowInv, Unhandled
  <2> QED  BY <2>1, <2>2, StreamBounds DEF Cursors, NoLast
<1>2. pos'[w] = Later(1, StartBlock(Validated(saved)))
  BY DEF StartStream
<1>3. CASE Mismatch(saved)
  <2>1. Validated(saved).last = Later(1, saved.last - REWIND)
    BY <1>3 DEF Validated
  <2> QED  BY <1>1, <1>2, <2>1 DEF StartBlock, Later, NoLast
<1>4. CASE ~Mismatch(saved)
  <2>1. saved.last <= Len(chain) /\ Validated(saved) = saved
    BY <1>1, <1>4 DEF Mismatch, Validated
  <2> QED  BY <1>1, <1>2, <2>1 DEF StartBlock, Later, NoLast
<1> QED  BY <1>3, <1>4

(* Across restarts, crashes, failing reads and reorganisations no event is *)
(* handled twice that the cursor's record did not lose, and a stream that  *)
(* starts from a checkpoint starts no later than the first event that is   *)
(* not handled (events.ts, eventCursor.ts), as long as the reorganisations *)
(* are together no deeper than the two rewinds of the cursor.              *)
THEOREM EventsAreFollowed ==
  ASSUME ForksAreShallow  PROVE EventsSpec => EventsAreHandledOnce
<1>1. EventsInit => StreamInv
  BY StreamBegins
<1>2. StreamInv /\ [EventsNext]_eventVars => StreamInv'
  BY StreamStepsKeep
<1>3. StreamInv => HandledOnce
  BY DEF StreamInv, HandledInv, HandledOnce
<1>4. StreamInv /\ [EventsNext]_eventVars =>
        [(StartStream /\ saved.last # NoLast /\ saved.hash # NoHash /\ ~backfill) =>
           \A n \in 1..Len(chain) : \A w \in Watchers :
             (chain[n].ev \in Events \ dropped /\ seen[chain[n].ev] = 0) => pos'[w] <= n]_eventVars
  BY StartsInTime DEF Unhandled
<1> QED  BY <1>1, <1>2, <1>3, <1>4, PTL DEF EventsSpec, EventsAreHandledOnce, StartsBeforeTheUnseen
-----------------------------------------------------------------------------
(* The loop: every action a plan may hold.                                 *)
Planned == {"enterWithEth", "claimShareholderEth", "claimShareholderForUser", "claimAllFor",
            "withdrawKingBalanceForUser", "withdrawRefundBalance", "withdrawKingBalance", "takeover",
            "setKingAutoLockConfig", "setAutoCompoundConfig", "setLpAutoCompoundConfig",
            "ensureAllowance", "enterWithClaim"}
Phases == {"read", "session", "decide", "approve", "run", "acting", "asleep", "ended"}
Backoffs == [active : BOOLEAN, left : Nat, size : Nat, errors : Nat, timeouts : Nat,
             ago : Nat \cup {Never}]
LoopTypes ==
  /\ setup \in Setups /\ phase \in Phases /\ plan \in Seq(Planned) /\ next \in Nat \ {0}
  /\ backoff \in Backoffs
  /\ takenAgo \in Nat /\ spree \in Nat /\ quiet \in Nat /\ rest \in Nat
(* A plan in work has one takeover at most, as its last, and none that     *)
(* comes too soon.                                                         *)
TakesOnce(p, from) ==
  \A j \in from..Len(p) : p[j] = "takeover" => j = Len(p) /\ takenAgo >= COOLDOWN
TakeInv ==
  /\ phase = "approve" => TakesOnce(plan, 1)
  /\ phase \in {"run", "acting"} => TakesOnce(plan, next)
  /\ phase = "acting" => next <= ToRun
(* What is not read is signalled.                                          *)
NewsInv ==
  /\ unread /\ phase \notin {"read", "ended"} => pending
  /\ phase = "asleep" => ~pending
(* The cooldown is no shorter than what must go by, and its counters miss  *)
(* no failure that is recent enough to count; an executed plan is over     *)
(* with its first.                                                         *)
RestInv ==
  /\ rest <= BASEREST /\ (backoff.size = 0 \/ backoff.size >= BASEREST)
  /\ setup.driver # "plan" =>
       /\ rest > 0 => backoff.active /\ backoff.left >= rest
       /\ spree > 0 /\ quiet < RESETAFTER => backoff.errors >= spree /\ backoff.ago = quiet
PlanInv ==
  setup.driver = "plan" =>
    /\ phase \in {"approve", "run", "acting", "ended"}
    /\ rest > 0 \/ spree > 0 => phase \in {"run", "ended"} /\ (phase = "run" => next > Len(plan))
LoopInv == LoopTypes /\ TakeInv /\ NewsInv /\ RestInv /\ PlanInv

NoTake(p) == p \in Seq(Planned) /\ \A j \in 1..Len(p) : p[j] # "takeover"
LastTake(p) == p \in Seq(Planned) /\ TakesOnce(p, 1)

LEMMA LoopBounds ==
  /\ BASEREST \in Nat \ {0} /\ MAXREST \in Nat /\ MAXREST >= BASEREST /\ FACTOR \in Nat \ {0}
  /\ MAXTIMEOUTS \in Nat \ {0} /\ MAXERRORS \in Nat \ {0} /\ RESETAFTER \in Nat \ {0}
  /\ COOLDOWN \in Nat /\ MAXPLANNED \in Nat \ {0} /\ \A s \in Setups : s.perTick \in Nat
BY AgentLoopAssumption DEF AgentLoopAssumption

LEMMA EmptyTakes == NoTake(<<>>)
BY DEF NoTake

LEMMA OthersTakeNothing ==
  ASSUME NEW k \in Planned, k # "takeover"  PROVE NoTake(<<k>>)
BY DEF NoTake

LEMMA NoTakeJoins ==
  ASSUME NEW p, NEW q, NoTake(p), NoTake(q)  PROVE NoTake(p \o q)
<1>1. p \in Seq(Planned) /\ q \in Seq(Planned)
  BY DEF NoTake
<1>2. p \o q \in Seq(Planned) /\ Len(p \o q) = Len(p) + Len(q)
      /\ \A j \in 1..Len(p) + Len(q) : (p \o q)[j] = IF j <= Len(p) THEN p[j] ELSE q[j - Len(p)]
  BY <1>1
<1> QED  BY <1>1, <1>2 DEF NoTake

LEMMA TakeLast ==
  ASSUME NEW p, NEW q, NoTake(p), LastTake(q)  PROVE LastTake(p \o q)
<1>1. p \in Seq(Planned) /\ q \in Seq(Planned)
  BY DEF NoTake, LastTake
<1>2. p \o q \in Seq(Planned) /\ Len(p \o q) = Len(p) + Len(q)
      /\ \A j \in 1..Len(p) + Len(q) : (p \o q)[j] = IF j <= Len(p) THEN p[j] ELSE q[j - Len(p)]
  BY <1>1
<1> QED  BY <1>1, <1>2 DEF NoTake, LastTake, TakesOnce

LEMMA NoneIsLast ==
  ASSUME NEW p, NoTake(p)  PROVE LastTake(p)
BY DEF NoTake, LastTake, TakesOnce

LEMMA CappedTakes ==
  ASSUME NEW p, LastTake(p)  PROVE LastTake(capPlannedActions(p))
<1> DEFINE n == IF Len(p) < MAXPLANNED THEN Len(p) ELSE MAXPLANNED
<1>1. p \in Seq(Planned) /\ n \in 0..Len(p)
  BY LoopBounds DEF LastTake
<1> HIDE DEF n
<1>2. SubSeq(p, 1, n) \in Seq(Planned) /\ Len(SubSeq(p, 1, n)) = n
      /\ \A j \in 1..n : SubSeq(p, 1, n)[j] = p[j]
  BY <1>1
<1>3. LastTake(SubSeq(p, 1, n))
  BY <1>1, <1>2 DEF LastTake, TakesOnce
<1> QED  BY <1>3 DEF capPlannedActions, n

(* The policy asks for a takeover once, last, and after the cooldown.      *)
LEMMA PolicyTakesOnce == LastTake(buildActionPlan)
<1>1. NoTake(safeMaintenance)
  <2> DEFINE a == Plan("setKingAutoLockConfig", "kingConfig" \in snap /\ "king" \in setup.wants /\ May("setKingAutoLockConfig", perms))
             b == Plan("setAutoCompoundConfig", "royaltiesConfig" \in snap /\ May("setAutoCompoundConfig", perms))
             c == Plan("setLpAutoCompoundConfig", "lpConfig" \in snap /\ May("setLpAutoCompoundConfig", perms))
  <2>1. NoTake(a) /\ NoTake(b) /\ NoTake(c)
    BY EmptyTakes, OthersTakeNothing DEF Planned, Plan
  <2> HIDE DEF a, b, c
  <2>2. NoTake((a \o b) \o c)
    BY <2>1, NoTakeJoins
  <2>3. safeMaintenance = <<>> \/ safeMaintenance = (a \o b) \o c
    BY DEF safeMaintenance, a, b, c
  <2> QED  BY <2>2, <2>3, EmptyTakes
<1>2. NoTake(furnaceEntry)
  BY EmptyTakes, OthersTakeNothing DEF Planned, furnaceEntry, Plan
<1>3. NoTake(collectRoyalties)
  <2>1. \A k \in {"claimShareholderEth", "claimAllFor"} : NoTake(<<k>>)
    BY OthersTakeNothing DEF Planned
  <2>2. NoTake(Plan("claimShareholderForUser", May("claimShareholderForUser", perms)))
    BY EmptyTakes, OthersTakeNothing DEF Planned, Plan
  <2> QED  BY <2>1, <2>2, EmptyTakes DEF collectRoyalties
<1>4. NoTake(withdrawFor)
  <2>1. NoTake(<<"claimAllFor">>)
        /\ NoTake(Plan("withdrawKingBalanceForUser", May("withdrawKingBalanceForUser", perms)))
    BY EmptyTakes, OthersTakeNothing DEF Planned, Plan
  <2> QED  BY <2>1, EmptyTakes DEF withdrawFor
<1>5. NoTake(withdrawOwn)
  <2> DEFINE a == Plan("withdrawRefundBalance", "callerRefund" \in snap)
             b == Plan("withdrawKingBalance", "callerKing" \in snap)
  <2>1. NoTake(a) /\ NoTake(b)
    BY EmptyTakes, OthersTakeNothing DEF Planned, Plan
  <2> HIDE DEF a, b
  <2>2. NoTake(a \o b)
    BY <2>1, NoTakeJoins
  <2> QED  BY <2>2 DEF withdrawOwn, a, b
<1>6. LastTake(takeovers)
  <2>1. takenAgo >= COOLDOWN => LastTake(<<"takeover">>)
    BY DEF LastTake, TakesOnce, Planned
  <2>2. takeovers = <<>> \/ (takeovers = <<"takeover">> /\ takenAgo >= COOLDOWN)
    BY DEF takeovers, Plan
  <2> QED  BY <2>1, <2>2, EmptyTakes, NoneIsLast
<1>7. LastTake(((collectRoyalties \o withdrawFor) \o withdrawOwn) \o takeovers)
  BY <1>3, <1>4, <1>5, <1>6, NoTakeJoins, TakeLast
<1> QED  BY <1>1, <1>2, <1>7, NoneIsLast DEF buildActionPlan

LEMMA StrategiesTakeOnce ==
  ASSUME NEW throws, NEW stopOnActions  PROVE LastTake(runStrategies(throws, stopOnActions))
<1>1. LastTake(createPolicyStrategy) /\ NoTake(propose)
  BY PolicyTakesOnce, EmptyTakes, OthersTakeNothing DEF Planned, createPolicyStrategy, propose, Plan
<1>2. LastTake(propose \o <<>>) /\ LastTake(propose \o createPolicyStrategy)
  BY <1>1, TakeLast, EmptyTakes, NoneIsLast
<1> QED  BY <1>1, <1>2 DEF runStrategies

LEMMA ApprovalsTakeOnce ==
  ASSUME LastTake(plan), NEW unread_  PROVE LastTake(expandPlanWithAutoApprovals(unread_))
<1>1. NoTake(asksAllowance(unread_)) /\ NoTake(<<>>)
  BY EmptyTakes, OthersTakeNothing DEF Planned, asksAllowance, Plan
<1>2. LastTake(asksAllowance(unread_) \o plan) /\ LastTake(<<>> \o plan)
  BY <1>1, TakeLast
<1> QED  BY <1>2 DEF expandPlanWithAutoApprovals

LEMMA LoopBegins == LoopInit => LoopInv
<1> SUFFICES ASSUME LoopInit  PROVE LoopInv
  OBVIOUS
<1>1. LastTake(plan)
  BY PolicyTakesOnce, CappedTakes, EmptyTakes, NoneIsLast DEF LoopInit
<1>2. LoopTypes
  <2>1. NoTrouble \in Backoffs
    BY DEF NoTrouble, Backoffs
  <2>2. phase \in Phases
    BY DEF LoopInit, Phases
  <2>3. /\ setup \in Setups /\ next = 1 /\ backoff = NoTrouble /\ takenAgo = COOLDOWN /\ spree = 0 /\ quiet = 0
        /\ rest = 0
    BY DEF LoopInit
  <2>4. plan \in Seq(Planned)
    BY <1>1 DEF LastTake
  <2> QED  BY <2>1, <2>2, <2>3, <2>4, LoopBounds DEF LoopTypes
<1>3. TakeInv /\ NewsInv /\ PlanInv
  BY <1>1 DEF LoopInit, TakeInv, NewsInv, PlanInv, LastTake
<1>4. RestInv
  BY LoopBounds DEF LoopInit, RestInv, NoTrouble
<1> QED  BY <1>2, <1>3, <1>4 DEF LoopInv

LEMMA RunsThePlan == ASSUME LoopTypes  PROVE ToRun \in Nat /\ ToRun <= Len(plan)
                                             /\ (setup.driver = "plan" => ToRun = Len(plan))
<1>1. Len(plan) \in Nat /\ setup.perTick \in Nat
  BY LoopBounds DEF LoopTypes
<1> QED  BY <1>1 DEF ToRun, Least

LEMMA ReadKeeps == ASSUME LoopInv, Read  PROVE LoopInv'
<1> USE DEF LoopInv, Read, World, Ghosts, Mishap
<1>1. LoopTypes'
  BY LoopBounds, EmptyTakes DEF LoopTypes, Phases, NoTake
<1>2. TakeInv'
  BY RunsThePlan DEF TakeInv, TakesOnce, LoopTypes, ToRun
<1>3. NewsInv'
  BY DEF NewsInv, LoopTypes
<1>4. RestInv'
  BY DEF RestInv, LoopTypes
<1>5. PlanInv'
  BY RunsThePlan DEF PlanInv, LoopTypes
<1> QED  BY <1>1, <1>2, <1>3, <1>4, <1>5 DEF LoopInv

LEMMA ReadSessionKeeps == ASSUME LoopInv, ReadSession  PROVE LoopInv'
<1> USE DEF LoopInv, ReadSession, World, Ghosts
<1>1. LoopTypes'
  BY LoopBounds, EmptyTakes DEF LoopTypes, Phases, NoTake
<1>2. TakeInv'
  BY RunsThePlan DEF TakeInv, TakesOnce, LoopTypes, ToRun
<1>3. NewsInv'
  BY DEF NewsInv, LoopTypes
<1>4. RestInv'
  BY DEF RestInv, LoopTypes
<1>5. PlanInv'
  BY RunsThePlan DEF PlanInv, LoopTypes
<1> QED  BY <1>1, <1>2, <1>3, <1>4, <1>5 DEF LoopInv

LEMMA RestKeeps == ASSUME LoopInv, Rest  PROVE LoopInv'
<1> USE DEF LoopInv, Rest, World, Ghosts, ToRun, Least, wait
<1>1. LoopTypes'
  <2>1. plan' \in Seq(Planned) /\ next' \in Nat \ {0}
    <3>1. plan' = <<>> /\ next' = 1
      OBVIOUS
    <3> QED  BY <3>1, EmptyTakes DEF NoTake
  <2>2. phase' \in Phases
    BY DEF Phases
  <2> QED  BY <2>1, <2>2 DEF LoopTypes
<1>2. TakeInv'
  BY RunsThePlan DEF TakeInv, TakesOnce, LoopTypes, ToRun
<1>3. NewsInv'
  BY DEF NewsInv, LoopTypes
<1>4. RestInv'
  BY DEF RestInv, LoopTypes
<1>5. PlanInv'
  BY RunsThePlan DEF PlanInv, LoopTypes
<1> QED  BY <1>1, <1>2, <1>3, <1>4, <1>5 DEF LoopInv

LEMMA AwakeKeeps == ASSUME LoopInv, Awake  PROVE LoopInv'
<1> USE DEF LoopInv, Awake, World, Ghosts
<1>1. LoopTypes'
  BY LoopBounds, EmptyTakes DEF LoopTypes, Phases, NoTake
<1>2. TakeInv'
  BY RunsThePlan DEF TakeInv, TakesOnce, LoopTypes, ToRun
<1>3. NewsInv'
  BY DEF NewsInv, LoopTypes
<1>4. RestInv'
  BY DEF RestInv, LoopTypes
<1>5. PlanInv'
  BY RunsThePlan DEF PlanInv, LoopTypes
<1> QED  BY <1>1, <1>2, <1>3, <1>4, <1>5 DEF LoopInv

LEMMA LeaveKeeps == ASSUME LoopInv, Leave  PROVE LoopInv'
<1> USE DEF LoopInv, Leave, World, Ghosts
<1>1. LoopTypes'
  BY LoopBounds, EmptyTakes DEF LoopTypes, Phases, NoTake
<1>2. TakeInv'
  BY RunsThePlan DEF TakeInv, TakesOnce, LoopTypes, ToRun
<1>3. NewsInv'
  BY DEF NewsInv, LoopTypes
<1>4. RestInv'
  BY DEF RestInv, LoopTypes
<1>5. PlanInv'
  BY RunsThePlan DEF PlanInv, LoopTypes
<1> QED  BY <1>1, <1>2, <1>3, <1>4, <1>5 DEF LoopInv

LEMMA StopKeeps == ASSUME LoopInv, Stop  PROVE LoopInv'
<1> USE DEF LoopInv, Stop, World, Ghosts, Mishap, Trigger
<1>1. LoopTypes'
  BY LoopBounds, EmptyTakes DEF LoopTypes, Phases, NoTake
<1>2. TakeInv'
  BY RunsThePlan DEF TakeInv, TakesOnce, LoopTypes, ToRun
<1>3. NewsInv'
  BY DEF NewsInv, LoopTypes
<1>4. RestInv'
  BY DEF RestInv, LoopTypes
<1>5. PlanInv'
  BY RunsThePlan DEF PlanInv, LoopTypes
<1> QED  BY <1>1, <1>2, <1>3, <1>4, <1>5 DEF LoopInv

LEMMA OnEventKeeps == ASSUME LoopInv, OnEvent  PROVE LoopInv'
<1> USE DEF LoopInv, OnEvent, World, Ghosts, Trigger
<1>1. LoopTypes'
  BY LoopBounds, EmptyTakes DEF LoopTypes, Phases, NoTake
<1>2. TakeInv'
  BY RunsThePlan DEF TakeInv, TakesOnce, LoopTypes, ToRun
<1>3. NewsInv'
  BY DEF NewsInv, LoopTypes
<1>4. RestInv'
  BY DEF RestInv, LoopTypes
<1>5. PlanInv'
  BY RunsThePlan DEF PlanInv, LoopTypes
<1> QED  BY <1>1, <1>2, <1>3, <1>4, <1>5 DEF LoopInv

LEMMA OthersKeeps == ASSUME LoopInv, Others  PROVE LoopInv'
<1> USE DEF LoopInv, Others, World, Ghosts
<1>1. LoopTypes'
  BY LoopBounds, EmptyTakes DEF LoopTypes, Phases, NoTake
<1>2. TakeInv'
  BY RunsThePlan DEF TakeInv, TakesOnce, LoopTypes, ToRun
<1>3. NewsInv'
  BY DEF NewsInv, LoopTypes
<1>4. RestInv'
  BY DEF RestInv, LoopTypes
<1>5. PlanInv'
  BY RunsThePlan DEF PlanInv, LoopTypes
<1> QED  BY <1>1, <1>2, <1>3, <1>4, <1>5 DEF LoopInv

LEMMA MinedLateKeeps == ASSUME LoopInv, MinedLate  PROVE LoopInv'
<1> USE DEF LoopInv, MinedLate, World, Ghosts
<1>1. LoopTypes'
  BY LoopBounds, EmptyTakes DEF LoopTypes, Phases, NoTake
<1>2. TakeInv'
  BY RunsThePlan DEF TakeInv, TakesOnce, LoopTypes, ToRun
<1>3. NewsInv'
  BY DEF NewsInv, LoopTypes
<1>4. RestInv'
  BY DEF RestInv, LoopTypes
<1>5. PlanInv'
  BY RunsThePlan DEF PlanInv, LoopTypes
<1> QED  BY <1>1, <1>2, <1>3, <1>4, <1>5 DEF LoopInv

LEMMA ThrownKeeps == ASSUME LoopInv, Thrown  PROVE LoopInv'
<1> USE DEF LoopInv, Thrown, World, Ghosts
<1>1. LoopTypes'
  BY LoopBounds, EmptyTakes DEF LoopTypes, Phases, NoTake
<1>2. TakeInv'
  BY RunsThePlan DEF TakeInv, TakesOnce, LoopTypes, ToRun
<1>3. NewsInv'
  BY DEF NewsInv, LoopTypes
<1>4. RestInv'
  BY DEF RestInv, LoopTypes
<1>5. PlanInv'
  BY RunsThePlan DEF PlanInv, LoopTypes
<1> QED  BY <1>1, <1>2, <1>3, <1>4, <1>5 DEF LoopInv

LEMMA BeginActionKeeps == ASSUME LoopInv, BeginAction  PROVE LoopInv'
<1> USE DEF LoopInv, BeginAction, World, Ghosts, ToRun, Least
<1>1. LoopTypes'
  BY LoopBounds, EmptyTakes DEF LoopTypes, Phases, NoTake
<1>2. TakeInv'
  BY RunsThePlan DEF TakeInv, TakesOnce, LoopTypes, ToRun
<1>3. NewsInv'
  BY DEF NewsInv, LoopTypes
<1>4. RestInv'
  BY DEF RestInv, LoopTypes
<1>5. PlanInv'
  BY RunsThePlan DEF PlanInv, LoopTypes
<1> QED  BY <1>1, <1>2, <1>3, <1>4, <1>5 DEF LoopInv

LEMMA SimulatedKeeps == ASSUME LoopInv, Simulated  PROVE LoopInv'
<1> USE DEF LoopInv, Simulated, World, Ghosts
<1>1. LoopTypes'
  <2>1. next' \in Nat \ {0} /\ phase' \in Phases
    <3>1. next' = next + 1 /\ phase' = "run" /\ next \in Nat \ {0}
      BY DEF LoopTypes
    <3> QED  BY <3>1 DEF Phases
  <2> QED  BY <2>1 DEF LoopTypes
<1>2. TakeInv'
  BY RunsThePlan DEF TakeInv, TakesOnce, LoopTypes, ToRun
<1>3. NewsInv'
  BY DEF NewsInv, LoopTypes
<1>4. RestInv'
  BY DEF RestInv, LoopTypes
<1>5. PlanInv'
  BY RunsThePlan DEF PlanInv, LoopTypes
<1> QED  BY <1>1, <1>2, <1>3, <1>4, <1>5 DEF LoopInv

LEMMA DecideKeeps == ASSUME LoopInv, Decide  PROVE LoopInv'
<1>1. LastTake(plan') /\ takenAgo' = takenAgo
  <2>1. PICK p : plan' = capPlannedActions(p) /\ LastTake(p)
    BY PolicyTakesOnce, StrategiesTakeOnce DEF Decide
  <2> QED  BY <2>1, CappedTakes DEF Decide
<1>2. /\ phase = "decide" /\ phase' = "approve"
      /\ UNCHANGED <<setup, next, backoff, takenAgo, pending, unread, spree, quiet, rest>>
  BY DEF Decide, Ghosts
<1>3. LoopTypes'
  BY <1>1, <1>2 DEF LoopInv, LoopTypes, Phases, LastTake
<1>4. TakeInv' /\ NewsInv'
  BY <1>1, <1>2 DEF LoopInv, TakeInv, NewsInv, LastTake, TakesOnce
<1>5. RestInv' /\ PlanInv'
  BY <1>2 DEF LoopInv, RestInv, PlanInv
<1> QED  BY <1>3, <1>4, <1>5 DEF LoopInv

LEMMA BackoffFields ==
  ASSUME NEW b \in Backoffs
  PROVE  /\ b.active \in BOOLEAN /\ b.left \in Nat /\ b.size \in Nat /\ b.errors \in Nat
         /\ b.timeouts \in Nat /\ b.ago \in Nat \cup {Never}
BY DEF Backoffs

(* A cooldown ends with its time, and old failures are forgotten by both   *)
(* counts.                                                                 *)
LEMMA ClearKeeps ==
  ASSUME LoopTypes, RestInv
  PROVE  /\ maybeClear \in Backoffs
         /\ maybeClear.size = 0 \/ maybeClear.size >= BASEREST
         /\ setup.driver # "plan" =>
              /\ rest > 0 => maybeClear.active /\ maybeClear.left >= rest
              /\ spree > 0 /\ quiet < RESETAFTER => maybeClear.errors >= spree /\ maybeClear.ago = quiet
<1>1. /\ backoff \in Backoffs
      /\ rest \in Nat /\ spree \in Nat /\ quiet \in Nat
  BY DEF LoopTypes
<1>2. CASE backoff.active /\ backoff.left = 0
  <2>1. maybeClear = [backoff EXCEPT !.active = FALSE]
    BY <1>2 DEF maybeClear
  <2>2. /\ maybeClear \in Backoffs /\ maybeClear.size = backoff.size
        /\ maybeClear.errors = backoff.errors /\ maybeClear.ago = backoff.ago
    BY <1>1, <2>1 DEF Backoffs
  <2>3. setup.driver # "plan" => ~(rest > 0)
    BY <1>1, <1>2 DEF RestInv
  <2> QED  BY <2>2, <2>3 DEF RestInv
<1>3. CASE ~(backoff.active /\ backoff.left = 0) /\ LongAgo(backoff)
  <2>1. maybeClear = [backoff EXCEPT !.errors = 0, !.timeouts = 0, !.ago = Never, !.size = 0]
    BY <1>3 DEF maybeClear
  <2>2. backoff.ago >= RESETAFTER
    BY <1>3 DEF LongAgo
  <2>3. /\ maybeClear \in Backoffs /\ maybeClear.size = 0 /\ maybeClear.active = backoff.active
        /\ maybeClear.left = backoff.left
    BY <1>1, <2>1 DEF Backoffs
  <2>4. setup.driver # "plan" => ~(spree > 0 /\ quiet < RESETAFTER)
    BY <1>1, <2>2, LoopBounds DEF RestInv
  <2> QED  BY <2>3, <2>4 DEF RestInv
<1>4. CASE ~(backoff.active /\ backoff.left = 0) /\ ~LongAgo(backoff)
  BY <1>1, <1>4 DEF RestInv, maybeClear
<1> QED  BY <1>2, <1>3, <1>4

LEMMA ApproveKeeps == ASSUME LoopInv, Approve  PROVE LoopInv'
<1>1. /\ phase = "approve" /\ phase' = "run" /\ next' = 1 /\ backoff' = maybeClear
      /\ UNCHANGED <<setup, takenAgo, pending, unread, spree, quiet, rest>>
  BY DEF Approve, Ghosts
<1>2. LastTake(plan)
  BY <1>1 DEF LoopInv, LoopTypes, TakeInv, LastTake
<1>3. LastTake(plan')
  <2>1. LastTake(capPlannedActions(expandPlanWithAutoApprovals(FALSE)))
        /\ LastTake(capPlannedActions(expandPlanWithAutoApprovals(TRUE)))
    BY <1>2, ApprovalsTakeOnce, CappedTakes
  <2> QED  BY <1>2, <2>1 DEF Approve
<1>4. LoopTypes'
  BY <1>1, <1>3, ClearKeeps DEF LoopInv, LoopTypes, Phases, LastTake
<1>5. TakeInv' /\ NewsInv'
  BY <1>1, <1>3 DEF LoopInv, TakeInv, NewsInv, LastTake, TakesOnce
<1>6. RestInv'
  BY <1>1, ClearKeeps DEF LoopInv, RestInv
<1>7. PlanInv'
  BY <1>1 DEF LoopInv, PlanInv, LoopTypes
<1> QED  BY <1>4, <1>5, <1>6, <1>7 DEF LoopInv

LEMMA SucceedsKeeps == ASSUME LoopInv, Succeeds  PROVE LoopInv'
<1>1. /\ phase = "acting" /\ phase' = "run" /\ next' = next + 1 /\ pending'
      /\ backoff' = [backoff EXCEPT !.errors = 0, !.timeouts = 0, !.ago = Never]
      /\ takenAgo' = (IF plan[next] = "takeover" THEN 0 ELSE takenAgo)
      /\ spree' = 0 /\ quiet' = 0 /\ UNCHANGED <<setup, plan, rest>>
  BY DEF Succeeds, onSuccess, Kind
<1>2. LoopTypes'
  <2>1. backoff' \in Backoffs
    BY <1>1 DEF LoopInv, LoopTypes, Backoffs
  <2> QED  BY <1>1, <2>1 DEF LoopInv, LoopTypes, Phases
<1>3. TakeInv'
  <2>1. next \in 1..Len(plan) /\ Len(plan) \in Nat
    BY <1>1, RunsThePlan DEF LoopInv, LoopTypes, TakeInv
  <2> QED  BY <1>1, <2>1 DEF LoopInv, TakeInv, TakesOnce
<1>4. NewsInv'
  BY <1>1 DEF NewsInv
<1>5. RestInv'
  <2>1. backoff'.active = backoff.active /\ backoff'.left = backoff.left /\ backoff'.size = backoff.size
    BY <1>1 DEF LoopInv, LoopTypes, Backoffs
  <2> QED  BY <1>1, <2>1 DEF LoopInv, RestInv
<1>6. PlanInv'
  BY <1>1 DEF LoopInv, PlanInv, LoopTypes
<1> QED  BY <1>2, <1>3, <1>4, <1>5, <1>6 DEF LoopInv

(* The next cooldown is no shorter than the first.                         *)
LEMMA CooldownGrows ==
  ASSUME NEW size \in Nat, size = 0 \/ size >= BASEREST  PROVE Grown(size) \in Nat /\ Grown(size) >= BASEREST
<1>1. size * FACTOR \in Nat /\ size * FACTOR >= size
  <2>1. PICK f \in Nat : FACTOR = f + 1
    <3>1. FACTOR - 1 \in Nat /\ FACTOR = (FACTOR - 1) + 1
      BY LoopBounds
    <3> QED  BY <3>1
  <2>2. size * (f + 1) = size * f + size /\ size * f \in Nat
    OBVIOUS
  <2> DEFINE sf == size * f
  <2>3. size * (f + 1) = sf + size /\ sf \in Nat
    BY <2>2
  <2> HIDE DEF sf
  <2> QED  BY <2>1, <2>3
<1> DEFINE grown == size * FACTOR
<1>2. grown \in Nat /\ grown >= size /\ Grown(size) = IF size = 0 THEN BASEREST ELSE Least(grown, MAXREST)
  BY <1>1 DEF Grown
<1> HIDE DEF grown
<1> QED  BY <1>2, LoopBounds DEF Least

(* A failure: the counters follow, and what must go by starts a cooldown.  *)
LEMMA FailureTrips ==
  ASSUME LoopTypes, RestInv, setup.driver # "plan", NEW as
  PROVE  /\ onFailure(as) \in Backoffs
         /\ onFailure(as).size = 0 \/ onFailure(as).size >= BASEREST
         /\ onFailure(as).ago = 0
         /\ onFailure(as).errors >= 1 /\ (quiet < RESETAFTER => onFailure(as).errors >= spree + 1)
         /\ \/ onFailure(as).active /\ onFailure(as).left >= BASEREST
            \/ /\ onFailure(as).active = backoff.active /\ onFailure(as).left = backoff.left
               /\ onFailure(as).errors < MAXERRORS /\ ~(as = "timeout" /\ MAXTIMEOUTS = 1)
<1> DEFINE old == Forgotten(backoff)
           slow == as = "timeout"
           timeouts == IF slow THEN old.timeouts + 1 ELSE old.timeouts
           b == Counted(as)
<1>1. backoff \in Backoffs /\ spree \in Nat /\ quiet \in Nat
  BY DEF LoopTypes
<1>2. /\ old \in Backoffs /\ old.active = backoff.active /\ old.left = backoff.left
      /\ old.size = 0 \/ old.size >= BASEREST
      /\ spree > 0 /\ quiet < RESETAFTER => old.errors >= spree
  <2>1. CASE LongAgo(backoff)
    <3>1. old = [backoff EXCEPT !.errors = 0, !.timeouts = 0, !.size = 0] /\ backoff.ago >= RESETAFTER
      BY <2>1 DEF Forgotten, LongAgo
    <3> HIDE DEF old
    <3>2. /\ old \in Backoffs /\ old.active = backoff.active /\ old.left = backoff.left /\ old.size = 0
      BY <1>1, <3>1 DEF Backoffs
    <3>3. ~(spree > 0 /\ quiet < RESETAFTER)
      BY <1>1, <3>1, LoopBounds DEF RestInv
    <3> QED  BY <3>2, <3>3
  <2>2. CASE ~LongAgo(backoff)
    BY <1>1, <2>2 DEF Forgotten, RestInv
  <2> QED  BY <2>1, <2>2
<1> HIDE DEF old
<1>3. b = [old EXCEPT !.errors = @ + 1, !.timeouts = timeouts, !.ago = 0]
  BY DEF Counted, old, timeouts, slow
<1>8. slow <=> as = "timeout"
  OBVIOUS
<1> HIDE DEF slow
<1>9. old.errors \in Nat /\ timeouts \in Nat /\ (slow => timeouts >= 1)
  <2>1. old.errors \in Nat /\ old.timeouts \in Nat
    BY <1>2, BackoffFields
  <2>2. CASE slow
    <3>1. timeouts = old.timeouts + 1
      BY <2>2
    <3> HIDE DEF timeouts
    <3> QED  BY <2>1, <3>1
  <2>3. CASE ~slow
    <3>1. timeouts = old.timeouts
      BY <2>3
    <3> HIDE DEF timeouts
    <3> QED  BY <2>1, <2>3, <3>1
  <2> QED  BY <2>2, <2>3
<1> HIDE DEF timeouts
<1>4. /\ b \in Backoffs /\ b.active = backoff.active /\ b.left = backoff.left /\ b.size = old.size /\ b.ago = 0
      /\ b.errors = old.errors + 1 /\ (slow => b.timeouts >= 1)
      /\ old.errors \in Nat
  <2> HIDE DEF b
  <2>1. b \in Backoffs
    <3>1. old.errors + 1 \in Nat /\ old \in Backoffs
      BY <1>2, <1>9
    <3>2. b = [old EXCEPT !.errors = old.errors + 1, !.timeouts = timeouts, !.ago = 0]
      BY <1>3
    <3> DEFINE n == old.errors + 1
    <3>3. n \in Nat /\ b = [old EXCEPT !.errors = n, !.timeouts = timeouts, !.ago = 0]
      BY <3>1, <3>2
    <3> HIDE DEF n
    <3> QED  BY <3>1, <3>3, <1>9 DEF Backoffs
  <2>2. /\ b.active = old.active /\ b.left = old.left /\ b.size = old.size /\ b.ago = 0
        /\ b.errors = old.errors + 1 /\ b.timeouts = timeouts
    BY <1>2, <1>3 DEF Backoffs
  <2> QED  BY <1>2, <1>9, <2>1, <2>2
<1> HIDE DEF b
<1>5. onFailure(as) = IF Trips(b) THEN [b EXCEPT !.active = TRUE, !.size = Grown(b.size), !.left = Grown(b.size)] ELSE b
  BY DEF onFailure, b
<1>6. CASE Trips(b)
  <2>1. Grown(b.size) \in Nat /\ Grown(b.size) >= BASEREST
    BY <1>2, <1>4, CooldownGrows, BackoffFields
  <2>2. /\ onFailure(as) \in Backoffs /\ onFailure(as).size = Grown(b.size) /\ onFailure(as).left = Grown(b.size)
        /\ onFailure(as).active /\ onFailure(as).ago = 0 /\ onFailure(as).errors = b.errors
    BY <1>4, <1>5, <1>6, <2>1 DEF Backoffs
  <2>3. onFailure(as).errors >= 1 /\ (quiet < RESETAFTER => onFailure(as).errors >= spree + 1)
    BY <1>1, <1>2, <1>4, <2>2
  <2> QED  BY <2>1, <2>2, <2>3
<1>7. CASE ~Trips(b)
  <2>1. onFailure(as) = b /\ b.errors < MAXERRORS /\ b.timeouts < MAXTIMEOUTS
    BY <1>4, <1>5, <1>7, LoopBounds, BackoffFields DEF Trips
  <2>2. b.timeouts \in Nat
    BY <1>4, BackoffFields
  <2>3. b.errors >= 1 /\ (quiet < RESETAFTER => b.errors >= spree + 1)
    BY <1>1, <1>2, <1>4
  <2>4. ~(slow /\ MAXTIMEOUTS = 1)
    BY <1>4, <2>1, <2>2
  <2>5. b \in Backoffs /\ (b.size = 0 \/ b.size >= BASEREST) /\ b.ago = 0
        /\ b.active = backoff.active /\ b.left = backoff.left
    BY <1>2, <1>4
  <2> QED  BY <2>1, <2>3, <2>4, <2>5, <1>8
<1> QED  BY <1>6, <1>7

LEMMA FailedKeeps == ASSUME LoopInv, NEW as, Failed(as)  PROVE LoopInv'
<1>1. /\ phase = "acting" /\ phase' = "run"
      /\ backoff' = (IF setup.driver = "plan" THEN backoff ELSE onFailure(as))
      /\ next' = (IF EndsHere(as) THEN ToRun + 1 ELSE next + 1)
      /\ spree' = (IF quiet >= RESETAFTER THEN 1 ELSE spree + 1) /\ quiet' = 0
      /\ rest' = (IF (as = "timeout" /\ MAXTIMEOUTS = 1) \/ spree' >= MAXERRORS THEN BASEREST ELSE rest)
      /\ UNCHANGED <<setup, plan, takenAgo, pending, unread>>
  BY DEF Failed
<1>2. /\ LoopTypes /\ RestInv /\ ToRun \in Nat /\ (setup.driver = "plan" => ToRun = Len(plan))
      /\ next \in 1..ToRun /\ ToRun <= Len(plan) /\ Len(plan) \in Nat /\ spree \in Nat /\ quiet \in Nat /\ rest \in Nat
  BY <1>1, RunsThePlan DEF LoopInv, LoopTypes, TakeInv
<1>3. LoopTypes'
  <2>1. backoff' \in Backoffs
    BY <1>1, <1>2, FailureTrips DEF LoopTypes
  <2>2. spree' \in Nat /\ quiet' \in Nat
    BY <1>1, <1>2
  <2>3. rest' \in Nat
    BY <1>1, <1>2, LoopBounds
  <2>4. next' \in Nat \ {0}
    <3>1. next' = ToRun + 1 \/ next' = next + 1
      BY <1>1
    <3> QED  BY <1>2, <3>1
  <2> QED  BY <1>1, <1>2, <2>1, <2>2, <2>3, <2>4 DEF LoopTypes, Phases
<1>4. TakeInv'
  <2>1. ASSUME NEW j \in next'..Len(plan), plan[j] = "takeover"  PROVE j = Len(plan) /\ takenAgo >= COOLDOWN
    <3>1. CASE j >= next
      BY <1>1, <2>1, <3>1, <1>2 DEF LoopInv, TakeInv, TakesOnce
    <3>2. CASE j < next
      <4>1. next' = ToRun + 1 \/ next' = next + 1
        BY <1>1
      <4> QED  BY <1>2, <2>1, <3>2, <4>1
    <3> QED  BY <1>2, <1>3, <2>1, <3>1, <3>2 DEF LoopTypes
  <2> QED  BY <1>1, <2>1 DEF TakeInv, TakesOnce
<1>5. NewsInv'
  BY <1>1 DEF LoopInv, NewsInv
<1>6. RestInv'
  <2>1. /\ rest' = BASEREST \/ rest' = rest
        /\ rest' = rest \/ (as = "timeout" /\ MAXTIMEOUTS = 1) \/ spree' >= MAXERRORS
        /\ spree' = 1 \/ (quiet < RESETAFTER /\ spree' = spree + 1)
    <3> DEFINE slow == as = "timeout"
    <3>1. slow <=> as = "timeout"
      OBVIOUS
    <3>2. /\ rest' = (IF (slow /\ MAXTIMEOUTS = 1) \/ spree' >= MAXERRORS THEN BASEREST ELSE rest)
          /\ spree' = (IF quiet >= RESETAFTER THEN 1 ELSE spree + 1)
      BY <1>1
    <3> HIDE DEF slow
    <3>3. quiet >= RESETAFTER \/ quiet < RESETAFTER
      BY <1>2, LoopBounds
    <3> QED  BY <3>1, <3>2, <3>3
  <2>2. rest' <= BASEREST
    BY <1>2, <2>1, LoopBounds DEF RestInv
  <2>3. CASE setup.driver = "plan"
    BY <1>1, <1>2, <2>2, <2>3 DEF RestInv
  <2>4. CASE setup.driver # "plan"
    <3>1. backoff' = onFailure(as) /\ setup'.driver # "plan"
      BY <1>1, <2>4
    <3>2. /\ backoff' \in Backoffs /\ backoff'.ago = 0
          /\ backoff'.size = 0 \/ backoff'.size >= BASEREST
          /\ backoff'.errors >= 1 /\ (quiet < RESETAFTER => backoff'.errors >= spree + 1)
          /\ \/ backoff'.active /\ backoff'.left >= BASEREST
             \/ /\ backoff'.active = backoff.active /\ backoff'.left = backoff.left
                /\ backoff'.errors < MAXERRORS /\ ~(as = "timeout" /\ MAXTIMEOUTS = 1)
      BY <1>2, <2>4, <3>1, FailureTrips
    <3>3. backoff'.errors \in Nat /\ backoff'.left \in Nat
      BY <3>2, BackoffFields
    <3>4. backoff'.errors >= spree'
      BY <1>2, <2>1, <3>2, <3>3
    <3>5. rest' > 0 => backoff'.active /\ backoff'.left >= rest'
      <4>1. CASE backoff'.active /\ backoff'.left >= BASEREST
        BY <1>2, <2>1, <2>2, <3>3, <4>1, LoopBounds
      <4>2. CASE ~(backoff'.active /\ backoff'.left >= BASEREST)
        <5>1. /\ backoff'.active = backoff.active /\ backoff'.left = backoff.left
              /\ backoff'.errors < MAXERRORS /\ ~(as = "timeout" /\ MAXTIMEOUTS = 1)
          BY <3>2, <4>2
        <5>2. ~(spree' >= MAXERRORS)
          BY <1>3, <3>3, <3>4, <5>1, LoopBounds DEF LoopTypes
        <5>3. rest' = rest
          BY <2>1, <5>1, <5>2
        <5> QED  BY <1>2, <2>4, <5>1, <5>3 DEF RestInv
      <4> QED  BY <4>1, <4>2
    <3>6. quiet' = 0
      BY <1>1
    <3> QED  BY <2>2, <3>2, <3>4, <3>5, <3>6 DEF RestInv
  <2> QED  BY <2>3, <2>4
<1>7. PlanInv'
  <2>1. setup.driver = "plan" => next' > Len(plan')
    BY <1>1, <1>2 DEF EndsHere
  <2> QED  BY <1>1, <2>1 DEF PlanInv
<1> QED  BY <1>3, <1>4, <1>5, <1>6, <1>7 DEF LoopInv

LEMMA TimeKeeps == ASSUME LoopInv, Time  PROVE LoopInv'
<1>1. /\ backoff' = [backoff EXCEPT !.left = Less(@),
                                   !.ago = IF @ = Never THEN Never ELSE Least(@ + 1, RESETAFTER)]
      /\ takenAgo' = Least(takenAgo + 1, COOLDOWN)
      /\ quiet' = (IF spree = 0 THEN 0 ELSE Least(quiet + 1, RESETAFTER)) /\ rest' = Less(rest)
      /\ UNCHANGED <<setup, phase, plan, next, pending, unread, spree>>
  BY DEF Time
<1>2. /\ backoff \in Backoffs
      /\ takenAgo \in Nat /\ spree \in Nat /\ quiet \in Nat /\ rest \in Nat
  BY DEF LoopInv, LoopTypes
<1>3. \A n \in Nat : Less(n) \in Nat /\ Less(n) <= n /\ \A m \in Nat : n >= m => Less(n) >= Less(m)
  BY DEF Less
<1>4. \A n, m \in Nat : Least(n, m) \in Nat /\ (n >= m => Least(n, m) = m) /\ (n < m => Least(n, m) = n)
  BY DEF Least
<1>5. /\ backoff'.left = Less(backoff.left) /\ backoff'.active = backoff.active /\ backoff'.size = backoff.size
      /\ backoff'.errors = backoff.errors
      /\ backoff'.ago = IF backoff.ago = Never THEN Never ELSE Least(backoff.ago + 1, RESETAFTER)
      /\ backoff' \in Backoffs
  <2>1. backoff.left \in Nat /\ backoff.ago \in Nat \cup {Never}
    BY <1>2, BackoffFields
  <2>2. Less(backoff.left) \in Nat /\ (IF backoff.ago = Never THEN Never ELSE Least(backoff.ago + 1, RESETAFTER)) \in Nat \cup {Never}
    <3>1. CASE backoff.ago = Never
      BY <2>1, <3>1, <1>3
    <3>2. CASE backoff.ago # Never
      <4>1. backoff.ago \in Nat /\ Least(backoff.ago + 1, RESETAFTER) \in Nat
        <5>1. backoff.ago \in Nat /\ backoff.ago + 1 \in Nat
          BY <2>1, <3>2
        <5> QED  BY <5>1, <1>4, LoopBounds
      <4> QED  BY <2>1, <3>2, <4>1, <1>3
    <3> QED  BY <3>1, <3>2
  <2> QED  BY <1>1, <1>2, <2>2 DEF Backoffs
<1>6. LoopTypes'
  <2>1. takenAgo' \in Nat
    BY <1>1, <1>2, <1>4, LoopBounds
  <2>2. quiet' \in Nat
    BY <1>1, <1>2, <1>4, LoopBounds
  <2>3. rest' \in Nat
    BY <1>1, <1>2, <1>3
  <2> QED  BY <1>1, <1>5, <2>1, <2>2, <2>3 DEF LoopInv, LoopTypes
<1>7. TakeInv'
  <2>1. takenAgo >= COOLDOWN => takenAgo' >= COOLDOWN
    BY <1>1, <1>2, <1>4, LoopBounds
  <2> QED  BY <1>1, <2>1 DEF LoopInv, TakeInv, TakesOnce, ToRun
<1>8. NewsInv'
  BY <1>1 DEF LoopInv, NewsInv
<1>9. RestInv'
  <2>1. rest' <= BASEREST /\ (rest' > 0 => rest > 0) /\ (backoff.left >= rest => backoff'.left >= rest')
    <3>1. backoff.left \in Nat /\ rest <= BASEREST
      BY <1>2, BackoffFields DEF LoopInv, RestInv
    <3>2. Less(rest) \in Nat /\ Less(rest) <= rest /\ (backoff.left >= rest => Less(backoff.left) >= Less(rest))
      BY <1>2, <1>3, <3>1
    <3> QED  BY <1>1, <1>2, <1>5, <3>1, <3>2, LoopBounds
  <2>2. spree > 0 /\ quiet' < RESETAFTER => quiet < RESETAFTER
    BY <1>1, <1>2, <1>4, LoopBounds
  <2>3. spree > 0 /\ backoff.ago = quiet => backoff'.ago = quiet'
    BY <1>1, <1>2, <1>5 DEF Never
  <2> QED  BY <1>1, <1>5, <2>1, <2>2, <2>3 DEF LoopInv, RestInv
<1>10. PlanInv'
  <2>1. rest' > 0 => rest > 0
    BY <1>1, <1>2 DEF Less
  <2> QED  BY <1>1, <2>1 DEF LoopInv, PlanInv
<1> QED  BY <1>6, <1>7, <1>8, <1>9, <1>10 DEF LoopInv

LEMMA LoopStepsKeep == LoopInv /\ [LoopNext]_loopVars => LoopInv'
<1> SUFFICES ASSUME LoopInv, [LoopNext]_loopVars  PROVE LoopInv'
  OBVIOUS
<1>1. CASE LoopStep
  <2>1. CASE Refused
    BY <2>1, FailedKeeps DEF Refused
  <2> QED
    BY <1>1, <2>1, ReadKeeps, ReadSessionKeeps, DecideKeeps, ApproveKeeps, BeginActionKeeps, SimulatedKeeps,
       SucceedsKeeps, RestKeeps, AwakeKeeps, LeaveKeeps DEF LoopStep
<1>2. CASE ActionFails \/ WaitEnds
  BY <1>2, FailedKeeps DEF ActionFails, WaitEnds
<1>3. CASE UNCHANGED loopVars
  BY <1>3 DEF loopVars, LoopInv, LoopTypes, TakeInv, TakesOnce, NewsInv, RestInv, PlanInv, ToRun
<1> QED
  BY <1>1, <1>2, <1>3, ThrownKeeps, StopKeeps, OnEventKeeps, OthersKeeps, MinedLateKeeps, TimeKeeps DEF LoopNext

(* The agent's loop (runner.ts, backoff.ts, policy.ts), for any policies,  *)
(* limits, failures and order of signals, results and time: no broadcast   *)
(* in what must go by after failures, no second takeover before the        *)
(* cooldown, no sleep over unread events, and nothing of an executed plan  *)
(* after its first failure.                                                *)
THEOREM TheLoopIsPatient == LoopSpec => LoopIsPatient
<1>1. LoopInit => LoopInv
  BY LoopBegins
<1>2. LoopInv /\ [LoopNext]_loopVars => LoopInv'
  BY LoopStepsKeep
<1>3. ASSUME LoopInv, LoopNext, phase = "run", phase' = "acting"
      PROVE  /\ sent' => rest = 0
             /\ sent' /\ Kind = "takeover" => takenAgo >= COOLDOWN
             /\ setup.driver = "plan" => spree = 0
  <2>1. BeginAction
    <3>1. ~(Read \/ ReadSession \/ Decide \/ Approve \/ Awake \/ Leave \/ Thrown)
      BY <1>3 DEF Read, ReadSession, Decide, Approve, Awake, Leave, Thrown
    <3>2. ~(Simulated \/ Succeeds \/ Refused \/ ActionFails \/ WaitEnds)
      BY <1>3 DEF Simulated, Succeeds, Refused, Failed, ActionFails, WaitEnds
    <3>3. ~(Stop \/ OnEvent \/ Others \/ MinedLate \/ Time)
      BY <1>3 DEF Stop, OnEvent, Others, MinedLate, Time, Trigger
    <3>4. ~Rest
      BY <1>3 DEF Rest, wait
    <3> QED  BY <1>3, <3>1, <3>2, <3>3, <3>4 DEF LoopNext, LoopStep
  <2>2. next \in 1..Len(plan) /\ next <= ToRun /\ (sent' => ~isActive) /\ rest \in Nat /\ spree \in Nat
    <3>1. LoopTypes /\ next <= ToRun /\ sent' = ~isActive
      BY <1>3, <2>1 DEF BeginAction, LoopInv
    <3>2. next \in Nat \ {0} /\ rest \in Nat /\ spree \in Nat /\ Len(plan) \in Nat
      BY <3>1 DEF LoopTypes
    <3>3. ToRun \in Nat /\ ToRun <= Len(plan)
      BY <3>1, RunsThePlan
    <3>4. sent' => ~isActive
      BY <3>1, Zenon
    <3> QED  BY <3>2, <3>3, <3>1, <3>4
  <2>3. sent' => rest = 0
    <3>1. backoff.left \in Nat /\ rest <= BASEREST
      BY <1>3, BackoffFields DEF LoopInv, LoopTypes, RestInv
    <3>2. CASE setup.driver = "plan"
      BY <1>3, <2>2, <3>2 DEF LoopInv, PlanInv
    <3>3. CASE setup.driver # "plan"
      BY <1>3, <2>2, <3>1, <3>3 DEF isActive, LoopInv, RestInv
    <3> QED  BY <3>2, <3>3
  <2>4. Kind = "takeover" => takenAgo >= COOLDOWN
    BY <1>3, <2>2 DEF Kind, LoopInv, TakeInv, TakesOnce
  <2>5. setup.driver = "plan" => spree = 0
    BY <1>3, <2>2 DEF LoopInv, PlanInv
  <2> QED  BY <2>3, <2>4, <2>5
<1>4. LoopInv /\ [LoopNext]_loopVars =>
        /\ [phase = "run" /\ phase' = "acting" /\ sent' => rest = 0]_loopVars
        /\ [phase = "run" /\ phase' = "acting" /\ sent' /\ Kind = "takeover" => takenAgo >= COOLDOWN]_loopVars
        /\ [phase = "run" /\ phase' = "acting" /\ setup.driver = "plan" => spree = 0]_loopVars
  BY <1>3
<1>5. LoopInv => (phase = "asleep" => ~unread)
  BY DEF LoopInv, NewsInv
<1> QED  BY <1>1, <1>2, <1>4, <1>5, PTL DEF LoopSpec, LoopIsPatient
=============================================================================
